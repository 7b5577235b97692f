------------------------------- MODULE FileOp -------------------------------
(* Copies and deletes of a file manager session that run on a detached     *)
(* worker (files.c, "directgate_fileop_t"): the session and the worker      *)
(* share the operation, either may let go of it first, and the answer comes *)
(* back through a pipe of the event loop.                                   *)
(*                                                                          *)
(* One session. What is copied or deleted is left out but for its outcome.  *)
EXTENDS Integers

CONSTANT MaxOps    \* bound: operations a session asks for

ASSUME FileOpAssumption == MaxOps \in Nat \ {0}

VARIABLES
    op,        \* per operation: the shared directgate_fileop_t
    thread,    \* per operation: what its worker is at
    cur,       \* pFileOp: the session's operation, 0 for none
    reg,       \* pFileOpSession: the operation whose endpoint is registered
    sopen,     \* open, releasing (in ReleaseOp), gone
    asked,     \* operations asked for
    answer,    \* per operation: answers the peer was sent
    harm       \* writes without a reader, uses after the last reference

opVars == <<op, thread, cur, reg, sopen, asked, answer, harm>>

Ops == 1 .. MaxOps
None == [live |-> FALSE, refs |-> 0, orphaned |-> FALSE, done |-> FALSE,
         rd |-> FALSE, byte |-> FALSE]
Shared == [live |-> TRUE, refs |-> 2, orphaned |-> FALSE, done |-> FALSE,
           rd |-> TRUE, byte |-> FALSE]

OpTypeOK ==
    /\ op \in [Ops -> [live : BOOLEAN, refs : 0 .. 2, orphaned : BOOLEAN,
                       done : BOOLEAN, rd : BOOLEAN, byte : BOOLEAN]]
    /\ thread \in [Ops -> {"none", "run", "unref", "exited"}]
    /\ cur \in 0 .. MaxOps /\ reg \in 0 .. MaxOps
    /\ sopen \in {"open", "orphaned", "gone"}
    /\ asked \in 0 .. MaxOps
    /\ answer \in [Ops -> 0 .. 2] /\ harm \in BOOLEAN

OpInit ==
    /\ op = [o \in Ops |-> None] /\ thread = [o \in Ops |-> "none"]
    /\ cur = 0 /\ reg = 0 /\ sopen = "open" /\ asked = 0
    /\ answer = [o \in Ops |-> 0] /\ harm = FALSE

(* DirectGate_FileOp_Unref                                                 *)
Unref(r) == [r EXCEPT !.refs = @ - 1, !.live = r.refs > 1]
Orphan(r) == [r EXCEPT !.orphaned = TRUE]
Answered(o) == answer' = [answer EXCEPT ![o] = @ + 1]

(* StartOp: refused while another runs, run in place without an event loop *)
(* or a pipe, refused when the endpoint or the thread cannot be had; what   *)
(* was built by then is released again.                                     *)
StartOp ==
    /\ sopen = "open" /\ asked < MaxOps /\ asked' = asked + 1
    /\ LET o == asked + 1 IN
       \/ /\ \/ cur # 0
             \/ TRUE                             \* in place, no endpoint, no thread
          /\ Answered(o) /\ UNCHANGED <<op, thread, cur, reg>>
       \/ /\ cur = 0
          /\ op' = [op EXCEPT ![o] = Shared]
          /\ thread' = [thread EXCEPT ![o] = "run"]
          /\ cur' = o /\ reg' = o /\ UNCHANGED answer
    /\ UNCHANGED <<sopen, harm>>

(* The worker, done: the outcome, and the byte unless nobody reads, under  *)
(* the lock.                                                               *)
FinishOp(o) ==
    /\ thread[o] = "run"
    /\ thread' = [thread EXCEPT ![o] = "unref"]
    /\ op' = [op EXCEPT ![o].done = TRUE, ![o].byte = ~op[o].orphaned]
    /\ harm' = (harm \/ ~op[o].live \/ (~op[o].orphaned /\ ~op[o].rd))
    /\ UNCHANGED <<cur, reg, sopen, asked, answer>>

LetGo(o) ==
    /\ thread[o] = "unref"
    /\ thread' = [thread EXCEPT ![o] = "exited"]
    /\ op' = [op EXCEPT ![o] = Unref(@)]
    /\ harm' = (harm \/ ~op[o].live)
    /\ UNCHANGED <<cur, reg, sopen, asked, answer>>

(* DetachOp: the session lets go. The read end goes with the endpoint.     *)
Detach(o) == [Unref(Orphan(op[o])) EXCEPT !.rd = FALSE]

(* ProcessOp and, as it asks for a disconnect, OnOpClosed.                 *)
ProcessOp ==
    /\ sopen = "open" /\ reg # 0 /\ op[reg].byte
    /\ Answered(reg)
    /\ op' = [op EXCEPT ![reg] = Detach(reg)]
    /\ cur' = 0 /\ reg' = 0
    /\ UNCHANGED <<thread, sopen, asked, harm>>

(* Mutant: the operation is orphaned only with the endpoint already gone.  *)
OrphanOpLate ==
    /\ sopen = "open" /\ sopen' = "orphaned"
    /\ op' = IF cur = 0 THEN op ELSE [op EXCEPT ![cur].rd = FALSE]
    /\ UNCHANGED <<thread, cur, reg, asked, answer, harm>>

(* ReleaseOp, at the session's end: the worker is told first that nobody   *)
(* reads, ...                                                              *)
OrphanOp ==
    /\ sopen = "open" /\ sopen' = "orphaned"
    /\ op' = IF cur = 0 THEN op ELSE [op EXCEPT ![cur] = Orphan(@)]
    /\ UNCHANGED <<thread, cur, reg, asked, answer, harm>>

(* ... then the endpoint is disconnected: its close callback, OnOpClosed,  *)
(* lets go of the operation.                                               *)
ReleaseOp ==
    /\ sopen = "orphaned" /\ sopen' = "gone"
    /\ op' = IF cur = 0 THEN op ELSE [op EXCEPT ![cur] = Detach(cur)]
    /\ cur' = 0 /\ reg' = 0
    /\ UNCHANGED <<thread, asked, answer, harm>>

OpWorker == \E o \in Ops : FinishOp(o) \/ LetGo(o)
OpNext == OpWorker \/ StartOp \/ ProcessOp \/ OrphanOp \/ ReleaseOp

OpSpec == OpInit /\ [][OpNext]_opVars

-----------------------------------------------------------------------------

(* An operation is there as long as the session or its worker holds it and *)
(* not a moment longer, whoever lets go first; the worker touches no freed  *)
(* one and writes to no pipe without a reader, which is SIGPIPE; and an     *)
(* open session's operation is answered once, by the time it is let go.     *)
Holders(o) == (IF cur = o THEN 1 ELSE 0) + (IF thread[o] \in {"run", "unref"} THEN 1 ELSE 0)
SharedSafely ==
    /\ \A o \in Ops : op[o].refs = Holders(o) /\ op[o].live = (Holders(o) > 0)
    /\ ~harm
    /\ \A o \in Ops : answer[o] <= 1
    /\ sopen = "open" => \A o \in 1 .. asked : answer[o] = IF cur = o THEN 0 ELSE 1

=============================================================================
