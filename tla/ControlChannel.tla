--------------------------- MODULE ControlChannel ---------------------------
(***************************************************************************)
(* The control channel: file imports that a Wine process asks of the host. *)
(* The client is wine/programs/juicegui/juicegui.c on top of               *)
(* wine/dlls/wineios.drv/control.c, the host JuiceReadControl              *)
(* (app/JuiceHostIOHardening.m) and the file picker of app/main.m.         *)
(*                                                                         *)
(* Every request has a connection of its own.  Requests and responses are  *)
(* records of two halves, each of which can be lost with the connection.   *)
(* Request ids start again when a process does, so they can collide; the   *)
(* histories `chosen' and `told' go by connection.                         *)
(***************************************************************************)
EXTENDS Integers, Sequences, FiniteSetsExt

CONSTANTS
    Processes,       \* Wine processes with an Install button
    Files,           \* what the user can pick
    Numbers,         \* descriptor numbers of the host
    MaxConnections,  \* bound on the connections made
    MaxCrashes,      \* bound on deaths of host and clients
    None

ASSUME NumbersAssumption == Numbers \subseteq Nat /\ None \notin Numbers
ASSUME FilesAssumption ==   \* a path is none of the codes a response can carry
    {"cancelled", "error", "hungup", "invalid", None} \cap Files = {}
ASSUME BoundsAssumption == MaxConnections \in Nat /\ MaxCrashes \in Nat

VARIABLES
    client,      \* process -> control.c's state and juicegui.c's import_request_id
    conn,        \* connection -> its two streams and who still has it
    number,      \* connection -> the host's descriptor number
    made,        \* connections made so far
    pickerFD,    \* controlPickerFD
    pickerID,    \* controlRequestID
    blocks,      \* presentControlPicker blocks on the main queue
    picker,      \* controlPicker
    screen,      \* the controller that is presented
    crashes,     \* deaths so far
    chosen,      \* history: connection -> the user's choice in its picker
    told         \* history: connection -> what the client reported for it

hostVars == <<number, pickerFD, pickerID, blocks, picker, screen>>
history == <<chosen, told>>
vars == <<client, conn, made, hostVars, crashes, history>>

Connections == 1..MaxConnections
Ids == 0..MaxConnections
Outcomes == Files \cup {"cancelled", "error"}
Halves == {1, 2}
Unit == [half : Halves, of : Connections, id : Ids, outcome : Outcomes]
Client == [fd : 0..MaxConnections, id : Ids, sequence : Ids, writing : BOOLEAN,
           response : Seq(Unit), gui : Ids]
\* The host's end: not accepted, with its reader, with the picker, with a writer
\* that has some halves left, closed.
Conn == [request : 0..2, id : Ids, kind : {"import", "action"}, client : BOOLEAN,
         host : {"none", "backlog", "reader", "picker", "writer", "closed"},
         left : Seq(Unit), back : Seq(Unit)]
Controller == [kind : {"control"}, for : Connections] \cup [kind : {"own"}]

ASSUME NoneAssumption == None \notin Controller \cup {"cancelled", "error", "hungup", "invalid"}

Fresh == [fd |-> 0, id |-> 0, sequence |-> 0, writing |-> FALSE,
          response |-> <<>>, gui |-> 0]
Unused == [request |-> 0, id |-> 0, kind |-> "import", client |-> FALSE,
           host |-> "none", left |-> <<>>, back |-> <<>>]

Init == /\ client = [p \in Processes |-> Fresh]
        /\ conn = [c \in Connections |-> Unused]
        /\ number = [c \in Connections |-> None]
        /\ made = 0 /\ crashes = 0 /\ blocks = 0
        /\ pickerFD = None /\ pickerID = 0 /\ picker = None /\ screen = None
        /\ chosen = [c \in Connections |-> None]
        /\ told = [c \in Connections |-> None]

-----------------------------------------------------------------------------
(* The client. *)

(* close_import *)
CloseImport(k) == [k EXCEPT !.fd = 0, !.id = 0, !.writing = FALSE, !.response = <<>>]

(* begin_install and begin_file_import, as far as the first half of the request;
   the lock is held until FinishBegin, and the process has one GUI thread. *)
Begin(p) ==
    LET k == client[p] IN
    /\ k.gui = 0 /\ k.fd = 0 /\ ~k.writing /\ made < MaxConnections
    /\ made' = made + 1
    /\ client' = [client EXCEPT ![p].fd = made', ![p].writing = TRUE,
                                ![p].sequence = @ + 1]
    /\ conn' = [conn EXCEPT ![made'] = [Unused EXCEPT !.request = 1, !.client = TRUE,
                                           !.id = k.sequence + 1, !.host = "backlog"]]
    /\ UNCHANGED <<hostVars, crashes, history>>

(* The rest of write_all; the host may have given the connection up. *)
FinishBegin(p) ==
    LET k == client[p] IN
    /\ k.writing
    /\ \/ /\ conn[k.fd].host # "closed"
          /\ conn' = [conn EXCEPT ![k.fd].request = 2]
          /\ client' = [client EXCEPT ![p].writing = FALSE, ![p].id = conn[k.fd].id,
                                      ![p].gui = conn[k.fd].id]
       \/ /\ conn[k.fd].host = "closed"
          /\ conn' = [conn EXCEPT ![k.fd].client = FALSE]
          /\ client' = [client EXCEPT ![p] = CloseImport(k)]
    /\ UNCHANGED <<made, hostVars, crashes, history>>

Received(k) == k.response \o conn[k.fd].back

Valid(k, r) == /\ \A i \in Halves : r[i].half = i /\ r[i].id = k.id
               /\ r[1].of = r[2].of

(* What poll_file_import answers once it does not answer "pending". *)
Answer(k) ==
    IF Len(Received(k)) < 2 THEN "hungup"
    ELSE IF Valid(k, Received(k)) THEN Received(k)[1].outcome
    ELSE "invalid"

PollDoneKeepsChannel(p) ==   \* mutant: a hung-up channel is not closed
    LET k == client[p] IN
    /\ told' = [told EXCEPT ![k.fd] = Answer(k)]
    /\ client' = [client EXCEPT ![p].gui = 0, ![p].response = Received(k)]
    /\ conn' = [conn EXCEPT ![k.fd].back = <<>>]

PollDone(p) ==
    LET k == client[p] IN
    /\ told' = [told EXCEPT ![k.fd] = Answer(k)]
    /\ client' = [client EXCEPT ![p] = [CloseImport(k) EXCEPT !.gui = 0]]
    /\ conn' = [conn EXCEPT ![k.fd].back = <<>>, ![k.fd].client = FALSE]

PollWholeOnly(p) ==   \* mutant: a channel that hung up is still pending
    LET k == client[p] IN
    /\ k.gui # 0 /\ Len(Received(k)) >= 2
    /\ PollDone(p)
    /\ UNCHANGED <<made, hostVars, crashes, chosen>>

(* poll_import, from a timer: everything there is to read is read at once. *)
PollAnswered(p) ==
    LET k == client[p] IN
    /\ k.gui # 0
    /\ Len(Received(k)) >= 2 \/ conn[k.fd].host = "closed"
    /\ PollDone(p)
    /\ UNCHANGED <<made, hostVars, crashes, chosen>>

PollPending(p) ==
    LET k == client[p] IN
    /\ k.gui # 0 /\ conn[k.fd].back # <<>>
    /\ Len(Received(k)) < 2 /\ conn[k.fd].host # "closed"
    /\ client' = [client EXCEPT ![p].response = Received(k)]
    /\ conn' = [conn EXCEPT ![k.fd].back = <<>>]
    /\ UNCHANGED <<made, hostVars, crashes, history>>

(* host_action: written and closed at once, nothing is waited for. *)
HostAction(p) ==
    /\ ~client[p].writing /\ made < MaxConnections
    /\ made' = made + 1
    /\ client' = [client EXCEPT ![p].sequence = @ + 1]
    /\ conn' = [conn EXCEPT ![made'] = [Unused EXCEPT !.request = 2, !.kind = "action",
                                           !.id = client'[p].sequence, !.host = "backlog"]]
    /\ UNCHANGED <<hostVars, crashes, history>>

(* The process dies; another one starts, perhaps with the same pid. *)
ClientDies(p) ==
    /\ crashes < MaxCrashes /\ crashes' = crashes + 1
    /\ client' = [client EXCEPT ![p] = Fresh]
    /\ conn' = [c \in Connections |->
                  IF c = client[p].fd THEN [conn[c] EXCEPT !.client = FALSE] ELSE conn[c]]
    /\ UNCHANGED <<made, hostVars, history>>

-----------------------------------------------------------------------------
(* The host. *)

FreeNumbers == Numbers \ {number[c] : c \in Connections}

(* JuiceAcceptLoop: the lowest free number. *)
Accept(c) ==
    /\ conn[c].host = "backlog" /\ FreeNumbers # {}
    /\ conn' = [conn EXCEPT ![c].host = "reader"]
    /\ number' = [number EXCEPT ![c] = Min(FreeNumbers)]
    /\ UNCHANGED <<client, made, pickerFD, pickerID, blocks, picker, screen,
                   crashes, history>>

CloseNumber(c) == number' = [number EXCEPT ![c] = None]

(* JuiceControlResponse: the writer has a duplicate, or could not be made. *)
Respond(c, id, outcome) ==
    /\ \/ conn' = [conn EXCEPT ![c].host = "writer",
                      ![c].left = [h \in Halves |-> [half |-> h, of |-> c, id |-> id,
                                                     outcome |-> outcome]]]
       \/ conn' = [conn EXCEPT ![c].host = "closed"]
    /\ CloseNumber(c)

(* JuiceReadControl: end of file or the five seconds pass before the record is
   complete. *)
RejectRequest(c) ==
    /\ conn[c].host = "reader" /\ conn[c].request < 2
    /\ conn' = [conn EXCEPT ![c].host = "closed"]
    /\ CloseNumber(c)
    /\ UNCHANGED <<client, made, pickerFD, pickerID, blocks, picker, screen,
                   crashes, history>>

HandleAction(c) ==
    /\ conn[c].host = "reader" /\ conn[c].request = 2 /\ conn[c].kind = "action"
    /\ conn' = [conn EXCEPT ![c].host = "closed"]
    /\ CloseNumber(c)
    /\ UNCHANGED <<client, made, pickerFD, pickerID, blocks, picker, screen,
                   crashes, history>>

Claim(c) ==
    /\ pickerFD = None
    /\ pickerFD' = number[c] /\ pickerID' = conn[c].id
    /\ blocks' = blocks + 1
    /\ conn' = [conn EXCEPT ![c].host = "picker"]
    /\ UNCHANGED number

Busy(c) ==
    /\ pickerFD # None
    /\ Respond(c, conn[c].id, "error")
    /\ UNCHANGED <<pickerFD, pickerID, blocks>>

HandleImport(c) ==
    /\ conn[c].host = "reader" /\ conn[c].request = 2 /\ conn[c].kind = "import"
    /\ Claim(c) \/ Busy(c)
    /\ UNCHANGED <<client, made, picker, screen, crashes, history>>

Holder == {c \in Connections : number[c] = pickerFD}

(* presentControlPicker: UIKit ignores the presentation while another controller is
   presented. *)
PresentControlPicker ==
    /\ blocks > 0 /\ blocks' = blocks - 1
    /\ \/ pickerFD = None /\ UNCHANGED <<picker, screen>>
       \/ /\ pickerFD # None
          /\ picker' = [kind |-> "control", for |-> CHOOSE c \in Holder : TRUE]
          /\ screen' = IF screen = None THEN picker' ELSE screen
    /\ UNCHANGED <<client, conn, number, made, pickerFD, pickerID, crashes, history>>

(* finishControlImport *)
FinishControlImport(outcome) ==
    /\ \/ /\ pickerFD # None
          /\ \E c \in Holder : Respond(c, pickerID, outcome)
       \/ pickerFD = None /\ UNCHANGED <<conn, number>>
    /\ pickerFD' = None /\ pickerID' = 0 /\ picker' = None

IsControlAlways == TRUE   \* mutant: the delegate does not ask which picker it was

(* controller == self.controlPicker *)
IsControl == screen = picker

(* The delegate's callbacks: a file, a file that is refused or cannot be copied, a
   cancellation. *)
PickerEnds(outcome) ==
    /\ screen # None
    /\ screen' = None
    /\ chosen' = IF screen.kind = "control"
                 THEN [chosen EXCEPT ![screen.for] = outcome] ELSE chosen
    /\ \/ IsControl /\ FinishControlImport(outcome)
       \/ ~IsControl /\ UNCHANGED <<conn, number, pickerFD, pickerID, picker>>
    /\ UNCHANGED <<client, made, blocks, crashes, told>>

(* The user opens the host's own EXE picker (or an alert, a chooser, an editor). *)
OwnPickerOpens ==
    /\ screen = None
    /\ screen' = [kind |-> "own"]
    /\ UNCHANGED <<client, conn, number, made, pickerFD, pickerID, blocks, picker,
                   crashes, history>>

WriterSends(c) ==
    /\ conn[c].host = "writer"
    /\ \/ /\ conn[c].left # <<>> /\ conn[c].client
          /\ conn' = [conn EXCEPT ![c].back = Append(@, Head(conn[c].left)),
                                  ![c].left = Tail(@)]
       \/ /\ conn[c].left = <<>> \/ ~conn[c].client
          /\ conn' = [conn EXCEPT ![c].host = "closed", ![c].left = <<>>]
    /\ UNCHANGED <<client, made, hostVars, crashes, history>>

(* The peer does not read for too long, or the system is out of resources. *)
WriterFails(c) ==
    /\ conn[c].host = "writer" /\ conn[c].left # <<>>
    /\ conn' = [conn EXCEPT ![c].host = "closed", ![c].left = <<>>]
    /\ UNCHANGED <<client, made, hostVars, crashes, history>>

(* The application is killed; its descriptors close, and it is started again. *)
HostDies ==
    /\ crashes < MaxCrashes /\ crashes' = crashes + 1
    /\ conn' = [c \in Connections |->
                  IF conn[c].host = "none" THEN conn[c]
                  ELSE [conn[c] EXCEPT !.host = "closed", !.left = <<>>]]
    /\ number' = [c \in Connections |-> None]
    /\ blocks' = 0
    /\ pickerFD' = None /\ pickerID' = 0 /\ picker' = None /\ screen' = None
    /\ UNCHANGED <<client, made, history>>

-----------------------------------------------------------------------------
ClientStep(p) == \/ Begin(p) \/ FinishBegin(p) \/ PollAnswered(p) \/ PollPending(p)
                 \/ HostAction(p) \/ ClientDies(p)

Reader(c) == RejectRequest(c) \/ HandleAction(c) \/ HandleImport(c)

Next == \/ \E p \in Processes : ClientStep(p)
        \/ \E c \in Connections : Accept(c) \/ Reader(c) \/ WriterSends(c) \/ WriterFails(c)
        \/ \E o \in Outcomes : PickerEnds(o)
        \/ PresentControlPicker \/ OwnPickerOpens \/ HostDies

Spec == Init /\ [][Next]_vars

(* JuiceGUI's timer fires, the host's queues run, reads and writes have deadlines,
   and the user does something about a picker on the screen. *)
Fairness ==
    /\ \A p \in Processes : WF_vars(FinishBegin(p)) /\ WF_vars(PollAnswered(p))
    /\ \A c \in Connections : WF_vars(Accept(c)) /\ WF_vars(Reader(c))
                              /\ WF_vars(WriterSends(c))
    /\ WF_vars(PresentControlPicker)
    /\ WF_vars(\E o \in Outcomes : PickerEnds(o))

FairSpec == Spec /\ Fairness

-----------------------------------------------------------------------------
TypeOK ==
    /\ client \in [Processes -> Client]
    /\ conn \in [Connections -> Conn]
    /\ number \in [Connections -> Numbers \cup {None}]
    /\ made \in 0..MaxConnections /\ crashes \in 0..MaxCrashes /\ blocks \in Nat
    /\ pickerFD \in Numbers \cup {None} /\ pickerID \in Ids
    /\ {picker, screen} \subseteq Controller \cup {None}
    /\ chosen \in [Connections -> Outcomes \cup {None}]
    /\ told \in [Connections -> Outcomes \cup {"hungup", "invalid", None}]

(* What an import reports is what the user chose in the picker of this very import:
   not the choice made in another picker, for another process or an earlier request
   with the same id, and not an invalid response put together from the halves of two
   (response_used in close_import). *)
AnswerIsTheUsersChoice ==
    \A c \in Connections :
        /\ told[c] # "invalid"
        /\ told[c] \in Files \cup {"cancelled"} => told[c] = chosen[c]

(* juicegui.c and control.c agree on the import that is pending: neither a button
   that stays disabled nor a channel that stays busy. *)
BothSidesPend ==
    \A p \in Processes : LET k == client[p] IN
        ~k.writing => k.gui = k.id /\ (k.gui # 0 <=> k.fd # 0)

(* presentControlPicker came while another controller was presented. *)
Ignored == picker # None /\ screen # picker

(* "JuiceGUI starts an import asynchronously, polls without blocking its Wine GUI
   thread, and receives a Windows Z: path or a cancellation/error result"
   (docs/ARCHITECTURE.md:71-72): every import that was begun ends, unless UIKit has
   ignored its picker. *)
ImportEnds == \A p \in Processes : client[p].gui # 0 ~> client[p].gui = 0 \/ Ignored
=============================================================================
