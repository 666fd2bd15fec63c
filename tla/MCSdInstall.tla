----------------------------- MODULE MCSdInstall -----------------------------
(***************************************************************************)
(* SdInstall on two NCAs, two CNMTs and packages that share them.          *)
(***************************************************************************)
EXTENDS SdInstallRefinement, TLC

CONSTANTS a, b, m1, m2, k1, k2, s1,
          nsp, collection, broken, resized, unpaired, short, foreign, dlc, torn

MCContentId == {a, b, m1, m2}
MCCnmtId == {m1, m2}
MCKeys == {k1, k2}
MCStems == {s1}

(* m1 is a title of its own; m2 shares the NCA a with it. *)
MCCnmt ==
    m1 :> [key |-> k1, supported |-> TRUE, required |-> {[id |-> a, size |-> 2]}]
    @@ m2 :> [key |-> k2, supported |-> TRUE,
              required |-> {[id |-> a, size |-> 2], [id |-> b, size |-> 1]}]

File(kind, id, size) == [kind |-> kind, id |-> id, size |-> size, magic |-> TRUE]
ForeignNca(id, size) == [kind |-> "nca", id |-> id, size |-> size, magic |-> FALSE]
Nsp(entries) == [type |-> "nsp", fits |-> TRUE, entries |-> entries]
Xci(entries) == [type |-> "xci", fits |-> TRUE, entries |-> entries]

Layout(p) ==
    CASE p = nsp ->         \* one title with its ticket, and an empty last file
             Nsp(<<File("nca", a, 2), File("cnmt", m1, 1), File("ticket", s1, 1),
                   File("certificate", s1, 1), File("other", s1, 0)>>)
      [] p = collection ->  \* two titles in an XCI, one of them that of nsp
             Xci(<<File("cnmt", m1, 1), File("nca", a, 2), File("nca", b, 1),
                   File("cnmt", m2, 1)>>)
      [] p = broken ->      \* the second CNMT requires an NCA that is not included
             Nsp(<<File("nca", a, 2), File("cnmt", m1, 1), File("cnmt", m2, 1)>>)
      [] p = dlc ->         \* m2 alone
             Nsp(<<File("cnmt", m2, 1), File("nca", b, 1), File("nca", a, 2)>>)
      [] p = resized ->     \* an NCA of another size than its CNMT declares
             Nsp(<<File("nca", a, 1), File("cnmt", m1, 1)>>)
      [] p = unpaired ->    \* a ticket without its certificate
             Nsp(<<File("cnmt", m1, 1), File("ticket", s1, 1)>>)
      [] p = short ->       \* a gamecard NCA shorter than an NCA header
             Xci(<<File("nca", b, 0), File("cnmt", m2, 1)>>)
      [] p = foreign ->     \* a gamecard NCA without the NCA3 magic
             Xci(<<File("cnmt", m1, 1), ForeignNca(a, 2)>>)
      [] p = torn ->        \* two entries with one content id
             Nsp(<<File("nca", a, 1), File("nca", a, 1)>>)

MCPackage == [p \in Packages |-> Layout(p)]
MCServiceCalls == ServiceCalls
MCNothingFails == {}
(* Every call may fail but those whose failure commit and rollback ignore. *)
MCRollbackWorks == ServiceCalls \ {"MetaCommit", "MetaRemove", "RollbackCommit"}
(* ... and NS accepts every ApplicationRecord. *)
MCRecordsAccepted == MCRollbackWorks \ {"PushRecord"}
=============================================================================
