---------------------------- MODULE SearchWorker ----------------------------
(* The search of a file manager session (search.c): a worker walks the tree *)
(* and queues what it finds, the event loop sends it in batches, and the    *)
(* session may be cancelled or torn down while both are at it.              *)
(*                                                                          *)
(* A match is its number in the order the walk finds them. The payload of a *)
(* batch is its matches, the queue's two limits are one, and memory does    *)
(* not run out.                                                             *)
EXTENDS Integers, Sequences

CONSTANTS
    MaxSearches,  \* bound: searches asked for
    Matches,      \* matches in the tree
    QueueEvents,  \* room of the event queue
    BatchEvents,  \* matches of a batch
    MaxBreaks     \* bound: sends or walks that fail

ASSUME SearchAssumption ==
    /\ MaxSearches \in Nat \ {0} /\ Matches \in Nat
    /\ QueueEvents \in Nat \ {0} /\ BatchEvents \in Nat \ {0} /\ MaxBreaks \in Nat

VARIABLES
    search,   \* directgate_search_t: flags, queue, the number of the search
    worker,   \* the worker thread
    pipe,     \* the notification descriptors and whether a byte waits in them
    loop,     \* what the event loop is doing with the search
    told,     \* what the peer was told, in order
    sess,     \* the session: open, closing (in Search_Clear), closed
    tries     \* searches asked for, the last to clear the queue, failures

searchVars == <<search, worker, pipe, loop, told, sess, tries>>

Searches == 1 .. MaxSearches
Words == {"ok", "cancelled", "failed"}
NoWorker == [pc |-> "none", bad |-> FALSE, found |-> 0, word |-> "ok"]
NotBusy == [pc |-> "idle", then |-> "idle", batch |-> <<>>, broken |-> FALSE]

SearchTypeOK ==
    /\ search \in [id : 0 .. MaxSearches, running : BOOLEAN, cancel : BOOLEAN,
                   stop : BOOLEAN, q : Seq([kind : Words \cup {"match"}, n : 0 .. Matches])]
    /\ Len(search.q) <= QueueEvents + 1
    /\ worker \in [pc : {"none", "walk", "offer", "tell", "decide", "end", "bye", "exited"},
                   bad : BOOLEAN, found : 0 .. Matches, word : Words]
    /\ pipe \in [byte : BOOLEAN, rd : BOOLEAN, wr : BOOLEAN]
    /\ loop.pc \in {"idle", "process", "checked", "join"}
    /\ sess \in {"open", "closing", "closed"}

SearchInit ==
    /\ search = [id |-> 0, running |-> FALSE, cancel |-> FALSE, stop |-> FALSE, q |-> <<>>]
    /\ worker = NoWorker
    /\ pipe = [byte |-> FALSE, rd |-> TRUE, wr |-> TRUE]
    /\ loop = NotBusy /\ told = <<>> /\ sess = "open"
    /\ tries = [asks |-> 0, reset |-> 0, breaks |-> 0]

Breaks == {b \in BOOLEAN : b => tries.breaks < MaxBreaks}
SpendBreak(b) == tries' = [tries EXCEPT !.breaks = IF b THEN @ + 1 ELSE @]
Tell(kind, n) == [kind |-> kind, id |-> search.id, n |-> n]

-----------------------------------------------------------------------------
(* The worker.                                                             *)

WorkerOnly == UNCHANGED <<loop, told, sess>>
Notify == pipe' = [pipe EXCEPT !.byte = pipe.wr]

(* XSearch visits the next entry, or the walk ends: everything was seen, it *)
(* was interrupted, or it failed.                                          *)
Walk ==
    /\ worker.pc = "walk"
    /\ \/ /\ worker.bad
          /\ worker' = [worker EXCEPT !.pc = "end", !.word = "failed"]
          /\ UNCHANGED tries
       \/ /\ ~worker.bad /\ ~search.stop /\ worker.found < Matches
          /\ worker' = [worker EXCEPT !.pc = "offer", !.found = @ + 1]
          /\ UNCHANGED tries
       \/ /\ ~worker.bad /\ (search.stop \/ worker.found = Matches)
          /\ worker' = [worker EXCEPT !.pc = "decide"]
          /\ UNCHANGED tries
       \/ /\ ~worker.bad /\ tries.breaks < MaxBreaks /\ SpendBreak(TRUE)
          /\ worker' = [worker EXCEPT !.pc = "decide", !.word = "failed"]
    /\ UNCHANGED <<search, pipe>> /\ WorkerOnly

(* QueueEntry: a match waits for room, waking the loop, until it is        *)
(* interrupted.                                                            *)
QueueEntry ==
    /\ worker.pc = "offer"
    /\ \/ /\ Len(search.q) < QueueEvents
          /\ search' = [search EXCEPT !.q = Append(@, [kind |-> "match", n |-> worker.found])]
          /\ worker' = [worker EXCEPT !.pc = "tell"] /\ UNCHANGED pipe
       \/ /\ Len(search.q) >= QueueEvents /\ search.stop
          /\ worker' = [worker EXCEPT !.pc = "decide", !.word = "failed"]
          /\ UNCHANGED <<search, pipe>>
       \/ /\ Len(search.q) >= QueueEvents /\ ~search.stop
          /\ Notify /\ UNCHANGED <<search, worker>>
    /\ UNCHANGED tries /\ WorkerOnly

(* The byte is written after the lock is let go.                           *)
NotifyMatch ==
    /\ worker.pc \in {"tell", "bye"}
    /\ Notify
    /\ worker' = [worker EXCEPT !.pc = IF @ = "tell" THEN "walk" ELSE "exited"]
    /\ UNCHANGED <<search, tries>> /\ WorkerOnly

(* A cancellation outranks how the walk ended.                             *)
DecideWord ==
    /\ worker.pc = "decide"
    /\ worker' = [worker EXCEPT !.pc = "end", !.word = IF search.cancel THEN "cancelled" ELSE @]
    /\ UNCHANGED <<search, pipe, tries>> /\ WorkerOnly

(* Search_Finish: the last event always gets in, and ends the search.      *)
Finish ==
    /\ worker.pc = "end"
    /\ search' = [search EXCEPT !.running = FALSE, !.q = Append(@, [kind |-> worker.word, n |-> 0])]
    /\ worker' = [worker EXCEPT !.pc = "bye"]
    /\ UNCHANGED <<pipe, tries>> /\ WorkerOnly

Worker == Walk \/ QueueEntry \/ NotifyMatch \/ DecideWord \/ Finish

-----------------------------------------------------------------------------
(* The loop: Search_Start, Search_Cancel, Search_Process, Search_Clear.    *)

Join(then) == [loop EXCEPT !.pc = "join", !.then = then]

(* ResetResult and the new request, once the last worker is joined. A      *)
(* request without criteria is refused only now.                           *)
Begin(criteria) ==
    LET cleared == [search EXCEPT !.q = <<>>, !.cancel = FALSE, !.stop = FALSE] IN
    IF criteria = "none"
    THEN search' = cleared /\ worker' = NoWorker /\ UNCHANGED pipe
    ELSE /\ search' = [cleared EXCEPT !.running = TRUE, !.id = tries.asks]
         /\ worker' = [NoWorker EXCEPT !.pc = "walk", !.bad = criteria = "bad"]
         /\ pipe' = [pipe EXCEPT !.byte = FALSE]

(* A search is refused while one runs, when the descriptors are gone or    *)
(* when its path is no directory: nothing but the answer.                  *)
StartSearch ==
    /\ sess = "open" /\ loop.pc = "idle" /\ tries.asks < MaxSearches
    /\ tries' = [tries EXCEPT !.asks = @ + 1]
    /\ \/ UNCHANGED <<search, worker, pipe, loop>>
       \/ /\ pipe.rd /\ ~search.running
          /\ loop' = Join("start")
          /\ UNCHANGED <<search, worker, pipe>>
    /\ UNCHANGED <<told, sess>>

Cancel ==
    /\ sess = "open" /\ loop.pc = "idle" /\ search.running
    /\ search' = [search EXCEPT !.cancel = TRUE, !.stop = TRUE]
    /\ UNCHANGED <<worker, pipe, loop, told, sess, tries>>

(* The endpoint is readable: the pipe is drained before the queue is.      *)
Wake ==
    /\ sess = "open" /\ loop.pc = "idle" /\ pipe.rd /\ pipe.byte
    /\ pipe' = [pipe EXCEPT !.byte = FALSE]
    /\ loop' = [NotBusy EXCEPT !.pc = "process"]
    /\ UNCHANGED <<search, worker, told, sess, tries>>

(* SendBatch, and after it the final word when there is one.               *)
SentWith(word) == told \o loop.batch \o word

Broken == loop' = [loop EXCEPT !.pc = "checked", !.broken = TRUE, !.batch = <<>>]

(* Mutant: the final word goes out ahead of the matches before it.         *)
TakeWordFirst ==
    /\ loop.pc = "process" /\ search.q # <<>>
    /\ search' = [search EXCEPT !.q = Tail(@)]
    /\ LET event == Head(search.q) IN
       \/ /\ event.kind = "match"
          /\ loop' = [loop EXCEPT !.batch = Append(@, Tell("match", event.n))]
          /\ UNCHANGED <<told, tries>>
       \/ /\ event.kind # "match"
          /\ told' = Append(told, Tell(event.kind, 0))
          /\ UNCHANGED <<loop, tries>>
    /\ UNCHANGED <<worker, pipe, sess>>

(* One event off the queue: matches join the batch, which goes out when    *)
(* full; a final event goes out behind it.                                 *)
Take ==
    /\ loop.pc = "process" /\ search.q # <<>>
    /\ search' = [search EXCEPT !.q = Tail(@)]
    /\ LET event == Head(search.q) IN
       \/ /\ event.kind = "match" /\ Len(loop.batch) < BatchEvents
          /\ loop' = [loop EXCEPT !.batch = Append(@, Tell("match", event.n))]
          /\ UNCHANGED <<told, tries>>
       \/ /\ event.kind = "match" /\ Len(loop.batch) >= BatchEvents
          /\ \E breaks \in Breaks :
                /\ SpendBreak(breaks)
                /\ IF breaks THEN Broken /\ UNCHANGED told
                   ELSE /\ told' = SentWith(<<>>)
                        /\ loop' = [loop EXCEPT !.batch = <<Tell("match", event.n)>>]
       \/ /\ event.kind # "match"
          /\ \E breaks \in Breaks :
                /\ SpendBreak(breaks)
                /\ IF breaks THEN Broken /\ told' \in {told, SentWith(<<>>)}
                   ELSE /\ told' = SentWith(<<Tell(event.kind, 0)>>)
                        /\ loop' = [loop EXCEPT !.batch = <<>>]
    /\ UNCHANGED <<worker, pipe, sess>>

(* The queue is empty: the rest of the batch goes out.                     *)
Emptied ==
    /\ loop.pc = "process" /\ search.q = <<>>
    /\ \E breaks \in Breaks :
          /\ SpendBreak(breaks)
          /\ IF breaks THEN Broken /\ UNCHANGED told
             ELSE told' = SentWith(<<>>) /\ loop' = [loop EXCEPT !.pc = "checked", !.batch = <<>>]
    /\ UNCHANGED <<search, worker, pipe, sess>>

(* Mutant: the pipe is drained when the work is done.                      *)
ProcessedDrains ==
    /\ loop.pc = "checked"
    /\ loop' = IF search.running THEN NotBusy ELSE Join("processed")
    /\ pipe' = [pipe EXCEPT !.byte = FALSE, !.rd = @ /\ ~(search.running /\ loop.broken)]
    /\ UNCHANGED <<search, worker, told, sess, tries>>

(* A finished worker is joined; a failed send closes the endpoint, and the *)
(* read end with it, but leaves the write end to the worker.               *)
Processed ==
    /\ loop.pc = "checked"
    /\ loop' = IF search.running THEN NotBusy ELSE Join("processed")
    /\ pipe' = IF search.running /\ loop.broken THEN [pipe EXCEPT !.rd = FALSE] ELSE pipe
    /\ UNCHANGED <<search, worker, told, sess, tries>>

(* Session_Destroy: the endpoint is closed, then Search_Clear interrupts   *)
(* the worker and waits for it.                                            *)
Clear ==
    /\ sess = "open" /\ loop.pc = "idle"
    /\ sess' = "closing" /\ pipe' = [pipe EXCEPT !.rd = FALSE]
    /\ search' = [search EXCEPT !.cancel = TRUE, !.stop = TRUE]
    /\ loop' = Join("clear")
    /\ UNCHANGED <<worker, told, tries>>

(* JoinWorker blocks until the worker, if there is one, is gone.           *)
JoinWorker ==
    /\ loop.pc = "join" /\ worker.pc \in {"none", "exited"}
    /\ loop' = NotBusy
    /\ \/ /\ loop.then = "start"
          /\ \/ \E criteria \in {"none", "bad", "good"} : Begin(criteria)
             \/ /\ search' = [search EXCEPT !.q = <<>>, !.cancel = FALSE, !.stop = FALSE]
                /\ worker' = NoWorker /\ pipe' = [pipe EXCEPT !.byte = FALSE]
          /\ tries' = [tries EXCEPT !.reset = tries.asks]
          /\ UNCHANGED sess
       \/ /\ loop.then = "processed"
          /\ worker' = NoWorker /\ pipe' = [pipe EXCEPT !.rd = @ /\ ~loop.broken]
          /\ UNCHANGED <<search, sess, tries>>
       \/ /\ loop.then = "clear"
          /\ worker' = NoWorker /\ sess' = "closed"
          /\ search' = [search EXCEPT !.q = <<>>, !.running = FALSE]
          /\ pipe' = [pipe EXCEPT !.wr = FALSE] /\ UNCHANGED tries
    /\ UNCHANGED told

SearchLoop == Wake \/ Take \/ Emptied \/ Processed \/ JoinWorker
SearchNext == Worker \/ SearchLoop \/ StartSearch \/ Cancel \/ Clear

SearchSpec == SearchInit /\ [][SearchNext]_searchVars

(* Both threads are scheduled, and poll reports a readable pipe.           *)
SearchFairSpec == SearchSpec /\ WF_searchVars(Worker) /\ WF_searchVars(SearchLoop)

-----------------------------------------------------------------------------

(* The peer is told of a search's matches in order and without a gap, of   *)
(* all of them before "ok", of none after its final word, and of nothing   *)
(* of a search once a later one was heard of.                              *)
Before(j) == {i \in 1 .. j - 1 : told[i].id = told[j].id}
Numbers(I) == {told[i].n : i \in I}
ToldInOrder ==
    \A j \in DOMAIN told :
       /\ \A i \in Before(j) : told[i].kind = "match"
       /\ told[j].kind = "match" => told[j].n > 0 /\ Numbers(Before(j)) = 1 .. told[j].n - 1
       /\ told[j].kind = "ok" => Numbers(Before(j)) = 1 .. Matches
       /\ \A i \in 1 .. j - 1 : told[i].id <= told[j].id

(* Every search comes to its final word, unless a later request takes its  *)
(* place or the endpoint is gone; and a session that closes is closed, for *)
(* all that the worker may be waiting for room.                            *)
Worded(s) == \E i \in DOMAIN told : told[i].id = s /\ told[i].kind \in Words
SearchesEnd ==
    /\ \A s \in Searches :
          (search.id = s /\ search.running)
             ~> (Worded(s) \/ tries.reset > s \/ ~pipe.rd)
    /\ (sess = "closing") ~> (sess = "closed")

=============================================================================
