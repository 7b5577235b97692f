------------------------------ MODULE MCServices ------------------------------
(***************************************************************************)
(* What serves an authenticated session: uploads and downloads, the search   *)
(* worker, copies and deletes in the background, the shell on POSIX and on    *)
(* Windows, and the endpoints they are registered with.  Each works on state  *)
(* of its own, so a behaviour is one of them at work, the others at rest.      *)
(***************************************************************************)
EXTENDS FileTransfer, SearchWorker, FileOp, Terminal, SessionEndpoints, ConPty

VARIABLE part   \* the one at work

Parts == {"files", "search", "op", "terminal", "endpoints", "conpty"}

MCInit ==
    /\ part \in Parts
    /\ FilesInit /\ SearchInit /\ OpInit /\ TermInit /\ EndpointsInit /\ ConPtyInit
    /\ part # "endpoints" => ~authed

(* A step of one part leaves the others alone.                               *)
Alone(p) ==
    /\ part = p /\ UNCHANGED part
    /\ p = "files" \/ UNCHANGED fileVars
    /\ p = "search" \/ UNCHANGED searchVars
    /\ p = "op" \/ UNCHANGED opVars
    /\ p = "terminal" \/ UNCHANGED termVars
    /\ p = "endpoints" \/ UNCHANGED epVars
    /\ p = "conpty" \/ UNCHANGED ptyVars

MCNext ==
    \/ part = "files" /\ FilesNext /\ Alone("files")
    \/ part = "search" /\ SearchNext /\ Alone("search")
    \/ part = "op" /\ OpNext /\ Alone("op")
    \/ part = "terminal" /\ TermNext /\ Alone("terminal")
    \/ part = "endpoints" /\ EndpointsNext /\ Alone("endpoints")
    \/ part = "conpty" /\ ConPtyNext /\ Alone("conpty")

partVars == <<part, fileVars, searchVars, opVars, termVars, epVars, ptyVars>>

(* The threads and the loop are scheduled; what is at rest has nothing to do. *)
MCSpec ==
    /\ MCInit /\ [][MCNext]_partVars
    /\ WF_searchVars(Worker) /\ WF_searchVars(SearchLoop) /\ TermFair

-----------------------------------------------------------------------------

(* A terminal works on what is its own: on POSIX a signal only ever goes to a *)
(* shell that was not reaped (term.c, ReapPending), on Windows no pump works   *)
(* on a handle that was closed under it (JoinPumps).                           *)
TerminalsKeepTheirOwn == OwnShellsOnly /\ PumpsKeepTheirHandles

(* Nothing is stuck: a search comes to its final word and a session that       *)
(* closes gets past its worker (search.c), what a shell prints is read however *)
(* far behind the link has been (term.c, ResumeRead), and every shell that was *)
(* hung up and found a slot in the reap queue is reaped in the end             *)
(* (ReapPending).                                                              *)
NothingIsStuck == SearchesEnd /\ OutputIsRead /\ ShellsAreReaped
===============================================================================
