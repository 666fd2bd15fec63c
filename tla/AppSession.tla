----------------------------- MODULE AppSession -----------------------------
(***************************************************************************)
(* The application around the server: the menu, run_mtp() and its threads. *)
(* The main thread polls the pad, draws the menu and, when a card is       *)
(* confirmed, mounts what can be mounted, starts USB, gives the object     *)
(* database and the server their storages, starts two threads and serves   *)
(* until the input thread has seen a button.  Then it joins the threads,   *)
(* closes USB and unmounts.                                                *)
(*                                                                         *)
(* What a request does is left to MtpReceive and ObjectDatabase: here it   *)
(* is read, served, and answered to a host that may not read the answer.   *)
(***************************************************************************)
EXTENDS Integers, Sequences, SequencesExt, FiniteSets

CONSTANTS Saves,            \* what the reader of saves returns, in order
          MaxMountedSaves,  \* kMaximumMountedSaves
          Buttons,          \* those the person uses
          Touchable,        \* cards the person touches
          FailingCalls      \* calls that may fail

FallibleCalls == {"inbox", "albumSd", "albumNand", "nandUser", "nandSystem",
                  "saveReader", "save", "catalog", "usb"}

ASSUME SessionAssumption ==
    /\ Saves \in Seq({Saves[i] : i \in DOMAIN Saves})
    /\ \A i \in DOMAIN Saves : DOMAIN Saves[i] = {"key", "account"}
    /\ MaxMountedSaves \in Nat \ {0}
    /\ Buttons \subseteq {"A", "B", "Plus"}
    /\ FailingCalls \subseteq FallibleCalls

(* The cards of the menu and the arguments of run_mtp they stand for. *)
Cards == <<"main", "read", "inbox", "diagnosis", "leave">>
Modes == {"main", "read", "inbox"}
NoCard == "none"

ASSUME Touchable \subseteq Range(Cards)

VARIABLES
    pc,         \* where the main thread is
    held,       \* buttons the person holds down
    touch,      \* card under the person's finger
    closing,    \* the system has asked the application to close
    menuPad,    \* whether the PadState of the menu last saw A held
    selected,   \* index of the selected card
    mode,       \* of the session
    mounted,    \* devices of the console that are mounted
    saves,      \* of these, the saves: [key, device]
    tally,      \* of the saves: [detected, failed, truncated]
    catalog,    \* the catalog of installed titles is there
    usb,        \* USB is initialised
    exposed,    \* storages [database, server]
    running,    \* MtpServer::mRunning
    render,     \* render thread: "none", "on", "ended"
    input,      \* input thread: "none", "on", "ended"
    spent       \* buttons whose present press has already acted (history)

person == <<held, touch, closing>>
menu == <<menuPad, selected>>
devices == <<mounted, saves, tally, catalog>>
threads == <<running, render, input>>
vars == <<pc, person, menu, mode, devices, usb, exposed, threads, spent>>

(* Places of the main thread: in the menu, in run_mtp() before, while and  *)
(* after the server runs; Blocked are those where it waits.                *)
InMenu == {"poll", "update", "left"}
Serving == {"loop", "read", "receive", "answer"}
Blocked == {"read", "receive", "answer", "joinRender", "joinInput"}
Places == InMenu \cup {"prepare", "mount", "usb", "storages", "threads", "run"}
          \cup Serving \cup Blocked \cup {"close"}

NoStorages == [database |-> {}, server |-> {}]
NoTally == [detected |-> 0, failed |-> 0, truncated |-> 0]

Init ==
    /\ pc = "poll"
    /\ held = {} /\ touch = NoCard /\ closing = FALSE /\ spent = {}
    /\ menuPad = FALSE /\ selected = 1 /\ mode = "read"
    /\ mounted = {} /\ saves = <<>> /\ tally = NoTally /\ catalog = FALSE
    /\ usb = FALSE /\ exposed = NoStorages
    /\ running = FALSE /\ render = "none" /\ input = "none"

-----------------------------------------------------------------------------
(* The person and the system. *)

Press(b) ==
    /\ b \notin held
    /\ held' = held \cup {b}
    /\ UNCHANGED <<touch, closing, spent>>

Release(b) ==
    /\ b \in held
    /\ held' = held \ {b}
    /\ spent' = spent \ {b}
    /\ UNCHANGED <<touch, closing>>

Touch(c) ==
    /\ touch' = IF touch = NoCard THEN c ELSE NoCard
    /\ UNCHANGED <<held, closing, spent>>

AskToClose ==
    /\ ~closing
    /\ closing' = TRUE
    /\ UNCHANGED <<held, touch, spent>>

PersonStep ==
    /\ \/ \E b \in Buttons : Press(b) \/ Release(b)
       \/ \E c \in Touchable : Touch(c)
       \/ AskToClose
    /\ UNCHANGED <<pc, menu, mode, devices, usb, exposed, threads>>

-----------------------------------------------------------------------------
(* The menu. *)

(* The loop of main(): its PadState is new on every turn and has seen no   *)
(* button, so that one that is held counts as pressed.  The request to     *)
(* close is a message, gone once appletMainLoop() has returned it.         *)
Poll ==
    /\ pc = "poll"
    /\ pc' = IF closing \/ "Plus" \in held THEN "left" ELSE "update"
    /\ closing' = FALSE
    /\ UNCHANGED <<held, touch, menu, mode, devices, usb, exposed, threads, spent>>

(* The selection after one or two steps of the pad, round the row of cards. *)
Moved(step) == 1 + ((selected - 1 + step) % Len(Cards))

(* Mutant of Confirmed: a PadState that is new in every update. *)
ConfirmedWhileHeld(moved) ==
    IF touch # NoCard THEN touch
    ELSE IF "A" \in held THEN Cards[moved]
    ELSE NoCard

(* GraphicalMenu::update(): one or two steps of the selection, then A,     *)
(* then the finger, which selects and confirms while it rests on a card.   *)
(* The PadState is static: A counts when it was not held the last time.    *)
Confirmed(moved) ==
    IF touch # NoCard THEN touch
    ELSE IF "A" \in held /\ ~menuPad THEN Cards[moved]
    ELSE NoCard

Update ==
    /\ pc = "update"
    /\ \E step \in -2 .. 2 :
         LET choice == Confirmed(Moved(step)) IN
         /\ selected' = IF touch = NoCard THEN Moved(step)
                        ELSE CHOOSE i \in DOMAIN Cards : Cards[i] = touch
         /\ pc' = CASE choice \in Modes -> "prepare"
                    [] choice = "leave" -> "left"
                    [] OTHER -> "poll"
         /\ mode' = IF choice \in Modes THEN choice ELSE mode
         /\ spent' = IF choice # NoCard /\ touch = NoCard THEN spent \cup {"A"} ELSE spent
    /\ menuPad' = ("A" \in held)
    /\ UNCHANGED <<person, devices, usb, exposed, threads>>

-----------------------------------------------------------------------------
(* run_mtp() up to the server. *)

Fails(call) == call \in FailingCalls
MayPass(call, ok) == ok \/ Fails(call)

WriteEnabled == mode # "read"

PrepareInbox ==
    /\ pc = "prepare"
    /\ \E ok \in BOOLEAN :
         /\ MayPass("inbox", ok)
         /\ pc' = IF WriteEnabled /\ ~ok THEN "poll" ELSE "mount"
    /\ UNCHANGED <<person, menu, mode, devices, usb, exposed, threads, spent>>

(* SaveMounts::mountAvailable(): every account save once, as long as there *)
(* is room; bad are the positions whose mount fails, and the reader fails  *)
(* after the first "read" entries.  A device is named by the number of     *)
(* saves mounted before it.                                                *)
Collected == [mounted |-> <<>>, seen |-> {}, tally |-> NoTally]

(* Mutant of Full: one save too many. *)
FullLater(taken) == Len(taken.mounted) > MaxMountedSaves

Full(taken) == Len(taken.mounted) >= MaxMountedSaves

TakeSave(taken, i, bad) ==
    LET key == Saves[i].key
        known == [taken EXCEPT !.seen = @ \cup {key}]
        counted == [known EXCEPT !.tally.detected = @ + 1] IN
    IF ~Saves[i].account \/ key \in taken.seen THEN taken
    ELSE IF Full(taken) THEN [counted EXCEPT !.tally.truncated = @ + 1]
    ELSE IF i \in bad THEN [counted EXCEPT !.tally.failed = @ + 1]
    ELSE [counted EXCEPT !.mounted =
              Append(@, [key |-> key, device |-> Len(taken.mounted)])]

MountSaves(read, bad) ==
    LET taken[n \in 0 .. read] ==
          IF n = 0 THEN Collected ELSE TakeSave(taken[n - 1], n, bad) IN
    taken[read]

(* mountAvailable() of the three kinds of mounts, and the catalog. *)
Views == {"albumSd", "albumNand", "nandUser", "nandSystem"}

MountAll ==
    \E missing \in SUBSET (Views \cap FailingCalls),
       read \in IF Fails("saveReader") THEN 0 .. Len(Saves) ELSE {Len(Saves)},
       bad \in SUBSET (IF Fails("save") THEN DOMAIN Saves ELSE {}),
       generated \in BOOLEAN :
         LET taken == MountSaves(read, bad) IN
         /\ MayPass("catalog", generated)
         /\ mounted' = Views \ missing
         /\ saves' = taken.mounted
         /\ tally' = taken.tally
         /\ catalog' = generated

Mount ==
    /\ pc = "mount"
    /\ pc' = "usb"
    /\ IF mode = "main" THEN MountAll ELSE UNCHANGED devices
    /\ UNCHANGED <<person, menu, mode, usb, exposed, threads, spent>>

(* The destructors, and the end of run_mtp(), unmount what was mounted. *)
(* Mutant of Unmount: the saves are left to the next session. *)
UnmountViews ==
    /\ mounted' = {} /\ catalog' = FALSE
    /\ UNCHANGED <<saves, tally>>

Unmount ==
    /\ mounted' = {} /\ saves' = <<>> /\ tally' = NoTally /\ catalog' = FALSE

StartUsb ==
    /\ pc = "usb"
    /\ \/ /\ usb' = TRUE
          /\ pc' = "storages"
          /\ UNCHANGED devices
       \/ /\ Fails("usb")
          /\ Unmount
          /\ pc' = "poll"
          /\ UNCHANGED usb
    /\ UNCHANGED <<person, menu, mode, exposed, threads, spent>>

Optional(storage, there) == IF there THEN {storage} ELSE {}

(* What the database is told of; saves come with a directory for each.     *)
DatabaseStorages ==
    CASE mode = "read" -> {"sd"}
      [] mode = "inbox" -> {"inbox"}
      [] mode = "main" ->
           {"sd", "install", "inbox"} \cup mounted
           \cup Optional("saves", saves # <<>>) \cup Optional("installed", catalog)

(* Mutant of ServerStorages: the catalog is offered although it failed. *)
ServerStoragesAlways ==
    Optional("sd", mode # "inbox") \cup Optional("inbox", mode # "read")
    \cup mounted
    \cup Optional("saves", saves # <<>>)
    \cup Optional("installed", mode = "main") \cup Optional("install", mode = "main")

ServerStorages ==
    Optional("sd", mode # "inbox") \cup Optional("inbox", mode # "read")
    \cup mounted
    \cup Optional("saves", saves # <<>>) \cup Optional("installed", catalog)
    \cup Optional("install", mode = "main")

AddStorages ==
    /\ pc = "storages"
    /\ exposed' = [database |-> DatabaseStorages, server |-> ServerStorages]
    /\ pc' = "threads"
    /\ UNCHANGED <<person, menu, mode, devices, usb, threads, spent>>

StartThreads ==
    /\ pc = "threads"
    /\ render' = "on" /\ input' = "on"
    /\ pc' = "run"
    /\ UNCHANGED <<person, menu, mode, devices, usb, exposed, running, spent>>

-----------------------------------------------------------------------------
(* MtpServer::run(), on the main thread. *)

RunBegins ==
    /\ pc = "run"
    /\ running' = TRUE
    /\ pc' = "loop"
    /\ UNCHANGED <<person, menu, mode, devices, usb, exposed, render, input, spent>>

Turn ==
    /\ pc = "loop"
    /\ pc' = IF running THEN "read" ELSE "joinRender"
    /\ UNCHANGED <<person, menu, mode, devices, usb, exposed, threads, spent>>

(* A read ends with a request or after a second of silence; data are       *)
(* received from a host that sends them or falls silent.                   *)
Read ==
    /\ pc = "read"
    /\ pc' \in {"loop", "answer"} \cup Optional("receive", WriteEnabled)
    /\ UNCHANGED <<person, menu, mode, devices, usb, exposed, threads, spent>>

Receive ==
    /\ pc = "receive"
    /\ pc' = "answer"
    /\ UNCHANGED <<person, menu, mode, devices, usb, exposed, threads, spent>>

(* The host reads what the server writes, which has no timeout. *)
HostReads ==
    /\ pc = "answer"
    /\ pc' = "loop"
    /\ UNCHANGED <<person, menu, mode, devices, usb, exposed, threads, spent>>

-----------------------------------------------------------------------------
(* The threads, and the rest of run_mtp(). *)

(* New threads have a lower priority than the main thread, on its core:    *)
(* they run while it waits.                                                *)
(* Mutant of ThreadsRun: threads of the priority of the main thread. *)
ThreadsRunAtOnce == TRUE

ThreadsRun == pc \in Blocked

(* stop_server_on_input(): a PadState of its own that has seen no button,  *)
(* left at the first one it sees, so that a button held is a button down.  *)
InputSees ==
    /\ input = "on"
    /\ ThreadsRun
    /\ closing \/ held \cap {"B", "Plus"} # {}
    /\ input' = "ended"
    /\ running' = FALSE
    /\ closing' = FALSE
    /\ spent' = IF closing THEN spent ELSE spent \cup (held \cap {"Plus"})
    /\ UNCHANGED <<pc, held, touch, menu, mode, devices, usb, exposed, render>>

(* run() has returned: render_running is false from here on. *)
RenderEnds ==
    /\ render = "on"
    /\ pc = "joinRender"
    /\ render' = "ended"
    /\ UNCHANGED <<pc, person, menu, mode, devices, usb, exposed, running, input, spent>>

JoinRender ==
    /\ pc = "joinRender"
    /\ render = "ended"
    /\ pc' = "joinInput"
    /\ UNCHANGED <<person, menu, mode, devices, usb, exposed, threads, spent>>

JoinInput ==
    /\ pc = "joinInput"
    /\ input = "ended"
    /\ pc' = "close"
    /\ UNCHANGED <<person, menu, mode, devices, usb, exposed, threads, spent>>

Close ==
    /\ pc = "close"
    /\ usb' = FALSE
    /\ Unmount
    /\ exposed' = NoStorages
    /\ render' = "none" /\ input' = "none"
    /\ pc' = "poll"
    /\ UNCHANGED <<person, menu, mode, running, spent>>

-----------------------------------------------------------------------------
(* After the last turn the program stands still. *)
Left ==
    /\ pc = "left"
    /\ UNCHANGED vars

MainStep ==
    \/ Poll \/ Update
    \/ PrepareInbox \/ Mount \/ StartUsb \/ AddStorages \/ StartThreads
    \/ RunBegins \/ Turn \/ Read \/ Receive
    \/ JoinRender \/ JoinInput \/ Close

Next == MainStep \/ InputSees \/ RenderEnds \/ HostReads \/ PersonStep \/ Left

(* The threads run; neither the person nor the host is assumed to act. *)
Spec ==
    /\ Init /\ [][Next]_vars
    /\ WF_vars(MainStep) /\ WF_vars(InputSees) /\ WF_vars(RenderEnds)

-----------------------------------------------------------------------------
(* Properties. *)

(* Every variable has its type. *)
TypeOK ==
    /\ pc \in Places
    /\ held \subseteq Buttons /\ spent \subseteq held
    /\ touch \in Touchable \cup {NoCard}
    /\ closing \in BOOLEAN /\ menuPad \in BOOLEAN
    /\ selected \in DOMAIN Cards /\ mode \in Modes
    /\ mounted \subseteq Views /\ catalog \in BOOLEAN /\ usb \in BOOLEAN
    /\ saves \in Seq([key : {Saves[i].key : i \in DOMAIN Saves}, device : Nat])
    /\ tally \in [detected : Nat, failed : Nat, truncated : Nat]
    /\ running \in BOOLEAN
    /\ render \in {"none", "on", "ended"} /\ input \in {"none", "on", "ended"}

(* While the server runs, it offers the storages that the database knows,  *)
(* and what lies behind each of them is mounted (the two lists are filled  *)
(* in different places of run_mtp, under different conditions).            *)
StoragesAreServed ==
    pc \in Serving =>
        /\ exposed.database = exposed.server
        /\ exposed.server \cap Views \subseteq mounted
        /\ "saves" \in exposed.server => saves # <<>>
        /\ "installed" \in exposed.server => catalog
        /\ "install" \in exposed.server => WriteEnabled
        /\ usb

(* Whichever way run_mtp returned, it has left no device mounted, USB      *)
(* closed, and no thread that uses its server, presenter or screen.        *)
SessionCleansUp ==
    pc \in InMenu =>
        /\ mounted = {} /\ saves = <<>> /\ ~usb
        /\ render = "none" /\ input = "none"

(* Every save that was found is mounted once, under a device of its own,   *)
(* or counted as failed or left out (the counters on the screen).          *)
SavesAccounted ==
    /\ tally.detected = Len(saves) + tally.failed + tally.truncated
    /\ Len(saves) <= MaxMountedSaves
    /\ tally.truncated > 0 => Len(saves) = MaxMountedSaves
    /\ \A i, j \in DOMAIN saves :
         i # j => saves[i].device # saves[j].device /\ saves[i].key # saves[j].key

(* One press of A starts one session: a button that is still down when     *)
(* run_mtp returns does not start it again (the menu's static PadState).   *)
OneSessionPerPress ==
    [][pc = "update" /\ pc' = "prepare" /\ touch = NoCard => "A" \notin spent]_vars

(* Once the input thread has seen a button, run_mtp returns, if the host   *)
(* does not leave an answer unread for ever: the stop is never lost to a   *)
(* server that starts, and no join waits for ever.                         *)
PressEndsSession ==
    []<>(pc # "answer") => (input = "ended" ~> pc \in InMenu)
=============================================================================
