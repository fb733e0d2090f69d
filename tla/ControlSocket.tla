---------------------------- MODULE ControlSocket ----------------------------
(***************************************************************************)
(* Instances of the application that start, stop and start again on one    *)
(* machine, and the path of the control socket they share:                 *)
(* start_control_server and prepare_socket_path of                         *)
(* agenthouse/src/control_server.rs, called by run in agenthouse/src/lib.rs.*)
(*                                                                         *)
(* Every system call is a step of its own.  Nobody removes the file on the *)
(* way out, so a file that nobody listens on is what a start usually meets.*)
(***************************************************************************)
CONSTANT Instances

VARIABLES
  pc,         \* how far each instance is
  file,       \* what the path names
  overlapped  \* two instances were starting at the same time, once

socketVars == <<pc, file, overlapped>>

\* What a path can name: nothing, a file that nobody listens on, a socket.
NoFile == <<>>
StaleFile == <<{}>>
SocketOf(i) == <<{i}>>

Starting == {"exists", "connect", "remove", "bind"}
Live == \E i \in Instances : file = SocketOf(i)
Goto(i, step) == pc' = [pc EXCEPT ![i] = step]

Launch(i) ==
  /\ pc[i] = "off"
  /\ Goto(i, "exists")
  /\ overlapped' = (overlapped \/ \E j \in Instances \ {i} : pc[j] \in Starting)
  /\ UNCHANGED file

PathExists(i) ==
  /\ pc[i] = "exists"
  /\ Goto(i, IF file = NoFile THEN "bind" ELSE "connect")
  /\ UNCHANGED <<file, overlapped>>

\* Somebody accepts: SocketAlreadyRunning, and the application goes on without
\* a control server.  Nobody does: the file may go.
TakeOver(i) ==                                                              \* mutant
  /\ pc[i] = "connect" /\ Goto(i, "remove")
  /\ UNCHANGED <<file, overlapped>>
GiveUp(i) ==                                                                \* mutant
  /\ pc[i] = "connect" /\ Goto(i, "without")
  /\ UNCHANGED <<file, overlapped>>
TryConnect(i) ==
  /\ pc[i] = "connect"
  /\ Goto(i, IF Live THEN "without" ELSE "remove")
  /\ UNCHANGED <<file, overlapped>>

\* Whatever the path names by now is removed; if it names nothing, the call
\* fails and the start with it.
RemoveFile(i) ==
  /\ pc[i] = "remove"
  /\ Goto(i, IF file = NoFile THEN "without" ELSE "bind")
  /\ file' = NoFile
  /\ UNCHANGED overlapped

Bind(i) ==
  /\ pc[i] = "bind"
  /\ Goto(i, IF file = NoFile THEN "serving" ELSE "without")
  /\ file' = IF file = NoFile THEN SocketOf(i) ELSE file
  /\ UNCHANGED overlapped

\* The application quits or crashes; its socket file stays.
Exit(i) ==
  /\ pc[i] # "off"
  /\ Goto(i, "off")
  /\ file' = IF file = SocketOf(i) THEN StaleFile ELSE file
  /\ UNCHANGED overlapped

SocketInit ==
  /\ pc = [i \in Instances |-> "off"]
  /\ file \in {NoFile, StaleFile}
  /\ overlapped = FALSE

StartStep(i) == PathExists(i) \/ TryConnect(i) \/ RemoveFile(i) \/ Bind(i)
SocketNext == \E i \in Instances : Launch(i) \/ StartStep(i) \/ Exit(i)

SocketSpec == SocketInit /\ [][SocketNext]_socketVars

\* An instance that is starting goes on, as long as it runs.
SocketFairSpec == SocketSpec /\ \A i \in Instances : WF_socketVars(StartStep(i))
------------------------------------------------------------------------------
(***************************************************************************)
(* Properties.                                                             *)
(***************************************************************************)
Servers == {i \in Instances : pc[i] = "serving"}

\* Every variable has its type.
SocketTypeOK ==
  /\ pc \in [Instances -> Starting \cup {"off", "serving", "without"}]
  /\ file \in {NoFile, StaleFile} \cup {SocketOf(i) : i \in Instances}
  /\ overlapped \in BOOLEAN

\* As long as no two instances start at the same time, the path names the socket
\* of every instance that serves, through any number of exits that leave the
\* file behind: at most one instance serves, and clients reach it.
SerialStartsExclude ==
  ~overlapped => \A i \in Servers : file = SocketOf(i)

\* A file that an exit or a crash left behind does not keep the next instance
\* from serving.
StaleFileIsReplaced ==
  \A i \in Instances :
    (pc[i] = "exists" /\ \A j \in Instances \ {i} : pc[j] = "off")
      ~> (pc[i] \in {"serving", "off"} \/ \E j \in Instances \ {i} : pc[j] # "off")
==============================================================================
