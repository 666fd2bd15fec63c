-------------------------- MODULE AppSessionProofs --------------------------
(***************************************************************************)
(* Proofs about AppSession: what a session offers, what it leaves behind,  *)
(* and that one press of A starts one session, for any saves, any failing  *)
(* calls and any behaviour of the person and the host; and the counters of *)
(* the saves.                                                              *)
(***************************************************************************)
EXTENDS AppSession, WellFoundedInduction, TLAPS

(* Before a session has mounted, started USB, started its threads. *)
BeforeMount == InMenu \cup {"prepare", "mount"}
BeforeUsb == BeforeMount \cup {"usb"}
BeforeThreads == BeforeUsb \cup {"storages", "threads"}

NothingMounted == mounted = {} /\ saves = <<>> /\ catalog = FALSE

(* How far the session has come.  What is offered was computed from what   *)
(* is mounted, and neither changes until the server has returned.          *)
SessionInv ==
    /\ pc \in Places /\ mode \in Modes /\ mounted \subseteq Views
    /\ mode # "main" => NothingMounted
    /\ pc \in BeforeMount => NothingMounted
    /\ pc \in BeforeUsb => usb = FALSE
    /\ pc \in BeforeThreads => render = "none" /\ input = "none"
    /\ pc \in {"storages", "threads", "run"} \cup Serving => usb = TRUE
    /\ pc \in {"threads", "run"} \cup Serving =>
           exposed = [database |-> DatabaseStorages, server |-> ServerStorages]

(* A button that has acted is still down, and the menu has seen it so. *)
PadInv ==
    /\ spent \subseteq held
    /\ "A" \in spent => menuPad = TRUE

IInv == SessionInv /\ PadInv

-----------------------------------------------------------------------------
LEMMA InitInv == Init => IInv
BY DEF Init, IInv, SessionInv, PadInv, Places, InMenu, Serving, Blocked, Modes,
       Views, BeforeMount, BeforeUsb, BeforeThreads, NothingMounted

(* The person touches no variable of the program. *)
LEMMA PersonKeepsInv == IInv /\ PersonStep => IInv'
<1> SUFFICES ASSUME IInv, PersonStep PROVE IInv'
  OBVIOUS
<1>1. UNCHANGED <<pc, menu, mode, devices, usb, exposed, threads>>
  BY DEF PersonStep
<1>2. SessionInv'
  BY <1>1 DEF IInv, SessionInv, menu, devices, threads, NothingMounted,
              DatabaseStorages, ServerStorages, Optional
<1>3. PadInv'
  BY <1>1 DEF IInv, PadInv, PersonStep, Press, Release, Touch, AskToClose, menu
<1> QED
  BY <1>2, <1>3 DEF IInv

(* The menu: a session begins with nothing mounted. *)
LEMMA MenuKeepsInv == IInv /\ (Poll \/ Update) => IInv'
<1> SUFFICES ASSUME IInv, Poll \/ Update PROVE IInv'
  OBVIOUS
<1> USE DEF IInv, SessionInv, PadInv, menu, devices, threads, person, NothingMounted,
            Places, InMenu, Serving, Blocked, BeforeMount, BeforeUsb, BeforeThreads
<1>1. CASE Poll
  BY <1>1 DEF Poll
<1>2. CASE Update
  <2>1. PICK step \in -2 .. 2 :
          LET choice == Confirmed(Moved(step)) IN
          /\ pc' = CASE choice \in Modes -> "prepare"
                     [] choice = "leave" -> "left"
                     [] OTHER -> "poll"
          /\ mode' = IF choice \in Modes THEN choice ELSE mode
          /\ spent' = IF choice # NoCard /\ touch = NoCard
                      THEN spent \cup {"A"} ELSE spent
    BY <1>2 DEF Update
  <2>2. /\ pc = "update" /\ menuPad' = ("A" \in held)
        /\ UNCHANGED <<person, devices, usb, exposed, threads>>
    BY <1>2 DEF Update
  <2> DEFINE choice == Confirmed(Moved(step))
  <2>3. choice # NoCard /\ touch = NoCard => "A" \in held
    BY DEF Confirmed
  <2> HIDE DEF choice
  <2>4. spent' \subseteq held /\ ("A" \in spent' => "A" \in held)
    BY <2>1, <2>3 DEF choice
  <2>5. pc' \in {"prepare", "left", "poll"} /\ mode' \in Modes
    BY <2>1 DEF choice, Modes
  <2>6. NothingMounted'
    BY <2>2
  <2> QED
    BY <2>2, <2>4, <2>5, <2>6
<1> QED
  BY <1>1, <1>2

(* run_mtp() up to the server. *)
LEMMA StartKeepsInv ==
    IInv /\ (PrepareInbox \/ Mount \/ StartUsb \/ AddStorages \/ StartThreads) => IInv'
<1> SUFFICES ASSUME IInv,
                    PrepareInbox \/ Mount \/ StartUsb \/ AddStorages \/ StartThreads
             PROVE  IInv'
  OBVIOUS
<1> USE DEF IInv, SessionInv, PadInv, menu, devices, threads, person, NothingMounted,
            Places, InMenu, Serving, Blocked, BeforeMount, BeforeUsb, BeforeThreads
<1>1. CASE PrepareInbox
  BY <1>1 DEF PrepareInbox
<1>2. CASE Mount
  <2>1. mounted' \subseteq Views
    BY <1>2 DEF Mount, MountAll
  <2>2. mode # "main" => NothingMounted'
    BY <1>2 DEF Mount
  <2> QED
    BY <1>2, <2>1, <2>2 DEF Mount
<1>3. CASE StartUsb
  BY <1>3 DEF StartUsb, Unmount
<1>4. CASE AddStorages
  <2>1. /\ exposed' = [database |-> DatabaseStorages, server |-> ServerStorages]
        /\ pc = "storages" /\ pc' = "threads"
        /\ UNCHANGED <<person, menu, mode, devices, usb, threads, spent>>
    BY <1>4 DEF AddStorages
  <2>2. DatabaseStorages' = DatabaseStorages /\ ServerStorages' = ServerStorages
    BY <2>1 DEF DatabaseStorages, ServerStorages, Optional
  <2>3. usb = TRUE
    BY <1>4, <2>1
  <2> QED
    BY <2>1, <2>2, <2>3
<1>5. CASE StartThreads
  <2>1. DatabaseStorages' = DatabaseStorages /\ ServerStorages' = ServerStorages
    BY <1>5 DEF StartThreads, DatabaseStorages, ServerStorages, Optional
  <2> QED
    BY <1>5, <2>1 DEF StartThreads
<1> QED
  BY <1>1, <1>2, <1>3, <1>4, <1>5

(* The server, and the end of the session: all the way devices and         *)
(* storages stay as they are, and Close takes everything back.             *)
LEMMA ServerKeepsInv ==
    IInv /\ (RunBegins \/ Turn \/ Read \/ Receive \/ HostReads \/ InputSees) => IInv'
<1> SUFFICES ASSUME IInv,
                    RunBegins \/ Turn \/ Read \/ Receive \/ HostReads \/ InputSees
             PROVE  IInv'
  OBVIOUS
<1> USE DEF IInv, SessionInv, PadInv, menu, devices, threads, person, NothingMounted,
            Places, InMenu, Serving, Blocked, BeforeMount, BeforeUsb, BeforeThreads
<1>1. UNCHANGED <<mode, devices, usb, exposed, menu, held>>
  BY DEF RunBegins, Turn, Read, Receive, HostReads, InputSees
<1>2. DatabaseStorages' = DatabaseStorages /\ ServerStorages' = ServerStorages
  BY <1>1 DEF DatabaseStorages, ServerStorages, Optional
<1>3. CASE RunBegins
  BY <1>1, <1>2, <1>3 DEF RunBegins
<1>4. CASE Turn
  BY <1>1, <1>2, <1>4 DEF Turn
<1>5. CASE Read
  <2>1. pc = "read" /\ pc' \in {"loop", "answer", "receive"}
    BY <1>5 DEF Read, Optional
  <2> QED
    BY <1>1, <1>2, <1>5, <2>1 DEF Read
<1>6. CASE Receive
  BY <1>1, <1>2, <1>6 DEF Receive
<1>7. CASE HostReads
  BY <1>1, <1>2, <1>7 DEF HostReads
<1>8. CASE InputSees
  BY <1>1, <1>2, <1>8 DEF InputSees, ThreadsRun
<1> QED
  BY <1>3, <1>4, <1>5, <1>6, <1>7, <1>8

LEMMA EndKeepsInv ==
    IInv /\ (RenderEnds \/ JoinRender \/ JoinInput \/ Close) => IInv'
<1> SUFFICES ASSUME IInv, RenderEnds \/ JoinRender \/ JoinInput \/ Close
             PROVE  IInv'
  OBVIOUS
<1> USE DEF IInv, SessionInv, PadInv, menu, devices, threads, person, NothingMounted,
            Places, InMenu, Serving, Blocked, BeforeMount, BeforeUsb, BeforeThreads
<1>1. CASE RenderEnds
  BY <1>1 DEF RenderEnds
<1>2. CASE JoinRender
  BY <1>2 DEF JoinRender
<1>3. CASE JoinInput
  BY <1>3 DEF JoinInput
<1>4. CASE Close
  BY <1>4 DEF Close, Unmount
<1> QED
  BY <1>1, <1>2, <1>3, <1>4

LEMMA NextKeepsInv == IInv /\ [Next]_vars => IInv'
<1> SUFFICES ASSUME IInv, [Next]_vars PROVE IInv'
  OBVIOUS
<1>1. CASE Left \/ UNCHANGED vars
  <2>1. UNCHANGED <<pc, held, spent, menu, mode, devices, usb, exposed, threads>>
    BY <1>1 DEF Left, vars, person
  <2>2. SessionInv'
    BY <2>1 DEF IInv, SessionInv, menu, devices, threads, NothingMounted,
                DatabaseStorages, ServerStorages, Optional
  <2>3. PadInv'
    BY <2>1 DEF IInv, PadInv, menu
  <2> QED
    BY <2>2, <2>3 DEF IInv
<1>2. CASE Next
  BY <1>1, <1>2, PersonKeepsInv, MenuKeepsInv, StartKeepsInv, ServerKeepsInv,
     EndKeepsInv DEF Next, MainStep
<1> QED
  BY <1>1, <1>2

(* The inductive invariant holds in every state of the application. *)
THEOREM Inductive == Spec => []IInv
<1> QED
  BY InitInv, NextKeepsInv, PTL DEF Spec

-----------------------------------------------------------------------------
(* The two lists of storages are the same, in every mode and whatever      *)
(* could not be mounted, and what lies behind them is there.               *)
LEMMA InvServes == IInv => StoragesAreServed
<1> SUFFICES ASSUME IInv, pc \in Serving
             PROVE  /\ exposed.database = exposed.server
                    /\ exposed.server \cap Views \subseteq mounted
                    /\ "saves" \in exposed.server => saves # <<>>
                    /\ "installed" \in exposed.server => catalog
                    /\ "install" \in exposed.server => WriteEnabled
                    /\ usb
  BY DEF StoragesAreServed
<1>1. /\ mode \in Modes /\ mounted \subseteq Views
      /\ mode # "main" => NothingMounted
      /\ usb = TRUE
      /\ exposed = [database |-> DatabaseStorages, server |-> ServerStorages]
  BY DEF IInv, SessionInv
<1>2. exposed.database = DatabaseStorages /\ exposed.server = ServerStorages
  BY <1>1
<1>3. DatabaseStorages = ServerStorages
  <2>1. CASE mode = "main"
    BY <2>1 DEF DatabaseStorages, ServerStorages, Optional
  <2>2. CASE mode # "main"
    BY <1>1, <2>2 DEF DatabaseStorages, ServerStorages, Optional, NothingMounted, Modes
  <2> QED
    BY <2>1, <2>2
<1>4. ServerStorages \cap Views \subseteq mounted
  BY <1>1 DEF ServerStorages, Optional, Views
<1>5. /\ "saves" \in ServerStorages => saves # <<>>
      /\ "installed" \in ServerStorages => catalog
      /\ "install" \in ServerStorages => WriteEnabled
  BY <1>1 DEF ServerStorages, Optional, Views, WriteEnabled
<1> QED
  BY <1>1, <1>2, <1>3, <1>4, <1>5

(* While the server runs, it offers what the database knows and what is    *)
(* mounted, whichever mounts failed (run_mtp's two lists of storages).     *)
THEOREM OffersWhatIsThere == Spec => []StoragesAreServed
<1> QED
  BY Inductive, InvServes, PTL

(* Every way back to the menu has unmounted, closed USB and joined the     *)
(* threads (the early returns of run_mtp as well as its end).              *)
THEOREM LeavesNothingBehind == Spec => []SessionCleansUp
<1>1. IInv => SessionCleansUp
  BY DEF IInv, SessionInv, SessionCleansUp, NothingMounted, BeforeMount, BeforeUsb,
         BeforeThreads, InMenu
<1> QED
  BY <1>1, Inductive, PTL

(* A press of A that has started a session starts no other: the static     *)
(* PadState of the menu still knows it when run_mtp returns.               *)
THEOREM PressStartsOnce == Spec => OneSessionPerPress
<1>1. IInv /\ [Next]_vars =>
        [pc = "update" /\ pc' = "prepare" /\ touch = NoCard => "A" \notin spent]_vars
  <2> SUFFICES ASSUME IInv, Next, pc = "update", pc' = "prepare", touch = NoCard,
                      "A" \in spent
               PROVE  FALSE
    OBVIOUS
  <2>1. menuPad = TRUE
    BY DEF IInv, PadInv
  <2>2. Update
    BY DEF Next, MainStep, Poll, PrepareInbox, Mount, StartUsb, AddStorages,
           StartThreads, RunBegins, Turn, Read, Receive, JoinRender, JoinInput, Close,
           InputSees, RenderEnds, HostReads, PersonStep, Left, vars
  <2>3. PICK step \in -2 .. 2 :
          pc' = CASE Confirmed(Moved(step)) \in Modes -> "prepare"
                  [] Confirmed(Moved(step)) = "leave" -> "left"
                  [] OTHER -> "poll"
    BY <2>2 DEF Update
  <2>4. Confirmed(Moved(step)) = NoCard
    BY <2>1 DEF Confirmed
  <2> QED
    BY <2>3, <2>4 DEF Modes, NoCard
<1> QED
  BY <1>1, Inductive, PTL DEF Spec, OneSessionPerPress

-----------------------------------------------------------------------------
(* Saves. *)

(* A set of natural numbers that is not empty has a least element. *)
LEMMA Least ==
    ASSUME NEW T \in SUBSET Nat, T # {}
    PROVE  \E x \in T : \A y \in T : x <= y
<1> DEFINE R == {ss \in Nat \X Nat : ss[1] < ss[2]}
<1>1. IsWellFoundedOn(R, Nat)
  BY NatLessThanWellFounded DEF OpToRel
<1>2. \E x \in T : \A y \in T : ~(<<y, x>> \in R)
  <2> HIDE DEF R
  <2> QED
    BY <1>1, WFMin
<1>3. PICK x \in T : \A y \in T : ~(<<y, x>> \in R)
  BY <1>2
<1>4. ASSUME NEW y \in T PROVE x <= y
  <2>1. <<y, x>> \in Nat \X Nat /\ <<y, x>>[1] = y /\ <<y, x>>[2] = x
    BY <1>3
  <2>2. ~(y < x)
    BY <1>3, <2>1
  <2> QED
    BY <2>2
<1> QED
  BY <1>4

(* What is so at 0, and at n whenever it is so at n - 1, is so up to N. *)
LEMMA NoFirst ==
    ASSUME NEW N \in Nat, NEW Holds \in SUBSET (0 .. N), 0 \in Holds,
           \A n \in 1 .. N : n - 1 \in Holds => n \in Holds
    PROVE  Holds = 0 .. N
<1> DEFINE Others == (0 .. N) \ Holds
<1>1. SUFFICES ASSUME Others # {} PROVE FALSE
  OBVIOUS
<1>2. PICK n \in Others : \A m \in Others : n <= m
  <2>1. Others \in SUBSET Nat
    OBVIOUS
  <2> HIDE DEF Others
  <2> QED
    BY <1>1, <2>1, Least
<1>3. n \in 1 .. N /\ n \notin Holds
  BY <1>2
<1>4. n - 1 \in Holds
  <2>1. n - 1 \in 0 .. N /\ ~(n <= n - 1)
    BY <1>3
  <2> QED
    BY <1>2, <2>1
<1> QED
  BY <1>3, <1>4

Keys == {Saves[i].key : i \in DOMAIN Saves}

Entry(m, seen, d, f, t) ==
    [mounted |-> m, seen |-> seen,
     tally |-> [detected |-> d, failed |-> f, truncated |-> t]]

(* What is true after every save: the counters add up, a device is named   *)
(* by its place, and a key that was mounted was seen, one time.            *)
Counted(m, seen, d, f, t) ==
    /\ m \in Seq([key : Keys, device : Nat])
    /\ d \in Nat /\ f \in Nat /\ t \in Nat
    /\ d = Len(m) + f + t
    /\ Len(m) <= MaxMountedSaves
    /\ t > 0 => Len(m) = MaxMountedSaves
    /\ \A i \in DOMAIN m : m[i].device = i - 1 /\ m[i].key \in seen
    /\ \A i, j \in DOMAIN m : i # j => m[i].key # m[j].key

TakenInv(taken) ==
    \E m, seen, d, f, t : taken = Entry(m, seen, d, f, t) /\ Counted(m, seen, d, f, t)

LEMMA CollectedInv == TakenInv(Collected)
<1>1. Collected = Entry(<<>>, {}, 0, 0, 0)
  BY DEF Collected, NoTally, Entry
<1>2. Counted(<<>>, {}, 0, 0, 0)
  BY SessionAssumption DEF Counted
<1> QED
  BY <1>1, <1>2 DEF TakenInv

(* One turn of the loop of mountAvailable(). *)
LEMMA TakeKeepsInv ==
    ASSUME NEW taken, TakenInv(taken), NEW n \in DOMAIN Saves, NEW bad
    PROVE  TakenInv(TakeSave(taken, n, bad))
<1>1. PICK m, seen, d, f, t : taken = Entry(m, seen, d, f, t) /\ Counted(m, seen, d, f, t)
  BY DEF TakenInv
<1> DEFINE key == Saves[n].key
           all == seen \cup {key}
           entry == [key |-> key, device |-> Len(m)]
           counted == Entry(m, all, d + 1, f, t)
<1>2. /\ m \in Seq([key : Keys, device : Nat]) /\ Len(m) \in Nat
      /\ d \in Nat /\ f \in Nat /\ t \in Nat
      /\ MaxMountedSaves \in Nat \ {0} /\ key \in Keys
  BY <1>1, SessionAssumption DEF Counted, Keys
<1>3. TakeSave(taken, n, bad) =
        IF ~Saves[n].account \/ key \in seen THEN taken
        ELSE IF Len(m) >= MaxMountedSaves THEN Entry(m, all, d + 1, f, t + 1)
        ELSE IF n \in bad THEN Entry(m, all, d + 1, f + 1, t)
        ELSE Entry(Append(m, entry), all, d + 1, f, t)
  <2>1. taken.mounted = m /\ taken.seen = seen
    BY <1>1 DEF Entry
  <2> HIDE DEF all, entry
  <2>2. [[taken EXCEPT !.seen = all] EXCEPT !.tally.detected = @ + 1] = counted
    <3>1. [taken EXCEPT !.seen = all] = Entry(m, all, d, f, t)
      BY <1>1 DEF Entry
    <3>2. [Entry(m, all, d, f, t) EXCEPT !.tally.detected = @ + 1] = counted
      BY DEF Entry
    <3> QED
      BY <3>1, <3>2
  <2>3. [counted EXCEPT !.tally.truncated = @ + 1] = Entry(m, all, d + 1, f, t + 1)
    BY DEF Entry
  <2>4. counted.mounted = m
    BY DEF Entry
  <2>5. [counted EXCEPT !.tally.failed = @ + 1] = Entry(m, all, d + 1, f + 1, t)
    BY DEF Entry
  <2>6. [counted EXCEPT !.mounted = Append(m, entry)] =
          Entry(Append(m, entry), all, d + 1, f, t)
    BY DEF Entry
  <2> HIDE DEF counted
  <2> QED
    BY <2>1, <2>2, <2>3, <2>4, <2>5, <2>6 DEF TakeSave, Full, all, entry
<1> HIDE DEF key
<1>4. ASSUME Len(m) >= MaxMountedSaves PROVE Counted(m, all, d + 1, f, t + 1)
  BY <1>1, <1>2, <1>4 DEF Counted
<1>5. ASSUME ~(Len(m) >= MaxMountedSaves) PROVE Counted(m, all, d + 1, f + 1, t)
  BY <1>1, <1>2, <1>5 DEF Counted
<1>6. ASSUME ~(Len(m) >= MaxMountedSaves), key \notin seen
      PROVE  Counted(Append(m, entry), all, d + 1, f, t)
  <2> DEFINE next == Append(m, entry)
  <2>1. entry \in [key : Keys, device : Nat] /\ entry.key = key /\ entry.device = Len(m)
    BY <1>2
  <2> HIDE DEF entry
  <2>2. /\ next \in Seq([key : Keys, device : Nat]) /\ Len(next) = Len(m) + 1
        /\ DOMAIN next = 1 .. Len(m) + 1 /\ DOMAIN m = 1 .. Len(m)
        /\ next[Len(m) + 1] = entry
        /\ \A i \in DOMAIN m : next[i] = m[i]
    BY <1>2, <2>1
  <2> HIDE DEF next
  <2>3. ASSUME NEW i \in DOMAIN next
        PROVE  /\ next[i].device = i - 1 /\ next[i].key \in all
               /\ i # Len(m) + 1 => i \in DOMAIN m /\ next[i] = m[i] /\ next[i].key # key
    <3>1. CASE i = Len(m) + 1
      BY <1>2, <2>1, <2>2, <3>1
    <3>2. CASE i # Len(m) + 1
      <4>1. i \in DOMAIN m /\ next[i] = m[i]
        BY <1>2, <2>2, <3>2
      <4> QED
        BY <1>1, <1>6, <3>2, <4>1 DEF Counted
    <3> QED
      BY <3>1, <3>2
  <2>4. ASSUME NEW i \in DOMAIN next, NEW j \in DOMAIN next, i # j
        PROVE  next[i].key # next[j].key
    <3>1. CASE i \in DOMAIN m /\ j \in DOMAIN m
      BY <1>1, <2>2, <2>4, <3>1 DEF Counted
    <3>2. CASE i = Len(m) + 1
      <4>1. j # Len(m) + 1 /\ next[i].key = key
        BY <2>1, <2>2, <2>4, <3>2
      <4> QED
        BY <2>3, <4>1
    <3>3. CASE j = Len(m) + 1
      <4>1. i # Len(m) + 1 /\ next[j].key = key
        BY <2>1, <2>2, <2>4, <3>3
      <4> QED
        BY <2>3, <4>1
    <3> QED
      BY <2>3, <3>1, <3>2, <3>3
  <2>5. Len(next) <= MaxMountedSaves /\ ~(t > 0) /\ d + 1 = Len(next) + f + t
    <3>1. Len(m) < MaxMountedSaves /\ Len(next) = Len(m) + 1
      BY <1>2, <1>6, <2>2
    <3>2. d = Len(m) + f + t /\ (t > 0 => Len(m) = MaxMountedSaves)
      BY <1>1 DEF Counted
    <3> QED
      BY <1>2, <3>1, <3>2
  <2> QED
    BY <1>2, <2>2, <2>3, <2>4, <2>5 DEF Counted, next
<1> QED
  BY <1>1, <1>3, <1>4, <1>5, <1>6 DEF TakenInv

(* The loop of mountAvailable(), however far the reader gets. *)
LEMMA MountedInv ==
    ASSUME NEW read \in 0 .. Len(Saves), NEW bad
    PROVE  TakenInv(MountSaves(read, bad))
<1> DEFINE Value(f, n) == IF n = 0 THEN Collected ELSE TakeSave(f[n - 1], n, bad)
           F == CHOOSE f : f = [n \in 0 .. read |-> Value(f, n)]
           Before(n) == \E f : f = [m \in 0 .. n |-> Value(f, m)]
           Reached == {n \in 0 .. read : Before(n)}
           Kept == {n \in 0 .. read : TakenInv(F[n])}
<1>1. read \in Nat /\ \A n \in 1 .. read : n \in DOMAIN Saves /\ n - 1 \in 0 .. read
  BY SessionAssumption
<1>2. MountSaves(read, bad) = F[read]
  BY DEF MountSaves
<1>3. 0 \in Reached
  <2> DEFINE f == [m \in 0 .. 0 |-> Collected]
  <2>1. f = [m \in 0 .. 0 |-> Value(f, m)]
    OBVIOUS
  <2>2. Before(0)
    <3> HIDE DEF Value, f
    <3> QED
      BY <2>1
  <2> HIDE DEF Before
  <2> QED
    BY <1>1, <2>2
<1>4. ASSUME NEW n \in 1 .. read, n - 1 \in Reached PROVE n \in Reached
  <2>1. PICK f : f = [m \in 0 .. n - 1 |-> Value(f, m)]
    BY <1>4
  <2> DEFINE g == [m \in 0 .. n |-> IF m = n THEN TakeSave(f[n - 1], n, bad) ELSE f[m]]
  <2>2. ASSUME NEW m \in 0 .. n PROVE g[m] = Value(g, m)
    <3>1. CASE m = n
      BY <3>1
    <3>2. CASE m # n
      <4>1. m \in 0 .. n - 1 /\ g[m] = f[m]
        BY <3>2
      <4>2. f[m] = Value(f, m)
        BY <2>1, <4>1
      <4>3. m # 0 => m - 1 \in 0 .. n /\ m - 1 # n /\ g[m - 1] = f[m - 1]
        BY <3>2
      <4> QED
        BY <4>1, <4>2, <4>3
    <3> QED
      BY <3>1, <3>2
  <2>3. g = [m \in 0 .. n |-> Value(g, m)]
    BY <2>2
  <2>4. Before(n)
    <3> HIDE DEF Value, g
    <3> QED
      BY <2>3
  <2> HIDE DEF Before
  <2> QED
    BY <1>1, <2>4
<1>5. F = [n \in 0 .. read |-> Value(F, n)]
  <2>1. read \in Reached
    <3> HIDE DEF Reached
    <3>1. Reached \in SUBSET (0 .. read)
      BY DEF Reached
    <3> QED
      BY <1>1, <1>3, <1>4, <3>1, NoFirst
  <2>2. \E f : f = [n \in 0 .. read |-> Value(f, n)]
    BY <2>1
  <2> HIDE DEF Value
  <2> QED
    BY <2>2
<1> HIDE DEF F
<1>6. 0 \in Kept
  BY <1>1, <1>5, CollectedInv
<1>7. ASSUME NEW n \in 1 .. read, n - 1 \in Kept PROVE n \in Kept
  <2>1. F[n] = TakeSave(F[n - 1], n, bad)
    BY <1>5
  <2>2. TakenInv(F[n])
    BY <1>1, <1>7, <2>1, TakeKeepsInv
  <2> QED
    BY <2>2
<1>8. read \in Kept
  <2>1. Kept \in SUBSET (0 .. read)
    OBVIOUS
  <2> HIDE DEF Kept
  <2> QED
    BY <1>1, <1>6, <1>7, <2>1, NoFirst
<1> QED
  BY <1>2, <1>8

(* Every save found is mounted once, failed or left out by the limit, in   *)
(* every session (the counters of SaveMounts::mountAvailable).             *)
THEOREM SavesCounted == Spec => []SavesAccounted
<1>1. Init => SavesAccounted
  BY SessionAssumption DEF Init, SavesAccounted, NoTally
<1>2. ASSUME SavesAccounted, [Next]_vars PROVE SavesAccounted'
  <2>1. CASE UNCHANGED <<saves, tally>>
    BY <1>2, <2>1 DEF SavesAccounted
  <2>2. CASE saves' = <<>> /\ tally' = NoTally
    BY <2>2, SessionAssumption DEF SavesAccounted, NoTally
  <2>3. CASE MountAll
    <3>1. PICK read \in 0 .. Len(Saves), bad \in SUBSET DOMAIN Saves :
            /\ saves' = MountSaves(read, bad).mounted
            /\ tally' = MountSaves(read, bad).tally
      BY <2>3, SessionAssumption DEF MountAll
    <3>2. TakenInv(MountSaves(read, bad))
      BY MountedInv
    <3>3. PICK m, seen, d, f, t :
            /\ MountSaves(read, bad) = Entry(m, seen, d, f, t)
            /\ Counted(m, seen, d, f, t)
      BY <3>2 DEF TakenInv
    <3>4. /\ saves' = m /\ tally'.detected = d
          /\ tally'.failed = f /\ tally'.truncated = t
      BY <3>1, <3>3 DEF Entry
    <3> QED
      BY <3>3, <3>4 DEF Counted, SavesAccounted
  <2>4. UNCHANGED <<saves, tally>> \/ (saves' = <<>> /\ tally' = NoTally) \/ MountAll
    BY <1>2 DEF Next, MainStep, Poll, Update, PrepareInbox, Mount, StartUsb, AddStorages,
           StartThreads, RunBegins, Turn, Read, Receive, JoinRender, JoinInput, Close,
           InputSees, RenderEnds, HostReads, PersonStep, Left, vars, devices, Unmount
  <2> QED
    BY <2>1, <2>2, <2>3, <2>4
<1> QED
  BY <1>1, <1>2, PTL DEF Spec
=============================================================================
