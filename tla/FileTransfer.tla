---------------------------- MODULE FileTransfer ----------------------------
(* Uploads and downloads of a file manager session: the peer asks where a   *)
(* file is to be saved, sends it in chunks into a temporary file, and the   *)
(* end renames it into place (transfer.c, files.c).                         *)
(*                                                                          *)
(* A file is whose bytes it holds and whether they are all there. A chunk   *)
(* is its index. What a download sends is left out but for its state.       *)
EXTENDS Integers, Sequences

CONSTANTS
    Targets,      \* paths a peer may save to
    MaxUploads,   \* bound: uploads of a session
    Chunks,       \* nTotalChunks of every file
    MaxFaults,    \* bound: failures of the disk or the transport
    MaxForeign,   \* bound: files that other processes create
    MaxOpens      \* bound: downloads the peer asks for or cancels

ASSUME FileTransferAssumption ==
    /\ MaxUploads \in Nat \ {0} /\ Chunks \in Nat \ {0} /\ Targets # {}
    /\ MaxFaults \in Nat /\ MaxForeign \in Nat /\ MaxOpens \in Nat

VARIABLES
    ft,        \* the session's directgate_transfer_t
    save,      \* sSavePath, sSaveTempPath and bSaveForce
    fs,        \* the files
    up,        \* the session is open
    inbox,     \* messages to the agent
    outbox,    \* messages to the peer
    peer,      \* what the peer is doing
    saved,     \* per upload: where the agent put what it acknowledged
    budget     \* faults, foreign files and downloads left

fileVars == <<ft, save, fs, up, inbox, outbox, peer, saved, budget>>
agent == <<ft, save, fs>>

Uploads == 1 .. MaxUploads
Download == 0                      \* the transfer id of a download
Nowhere == "nowhere"
Cwd == "cwd"                       \* the name the peer gave, in the agent's directory
Temp(u) == <<"temp", u>>
Temps == {Temp(u) : u \in Uploads}

Absent == [of |-> 0, whole |-> FALSE]
Foreign == [of |-> 0, whole |-> TRUE]
Part(u) == [of |-> u, whole |-> FALSE]
Whole(u) == [of |-> u, whole |-> TRUE]

(* Places are told apart by their kind.                                    *)
Target(p) == <<"target", p>>
Places == Temps \cup {Target(p) : p \in Targets} \cup {<<Cwd, u>> : u \in Uploads}
NoPlace == <<Nowhere, 0>>

States == {"idle", "sending", "receiving", "done", "error", "cancelled"}
Idle == [state |-> "idle", id |-> -1, path |-> NoPlace, owns |-> FALSE, chunk |-> 0]
NoSave == [path |-> NoPlace, temp |-> NoPlace, force |-> FALSE]

FilesTypeOK ==
    /\ ft \in [state : States, id : -1 .. MaxUploads, path : Places \cup {NoPlace},
               owns : BOOLEAN, chunk : 0 .. Chunks]
    /\ save \in [path : Places \cup {NoPlace}, temp : Places \cup {NoPlace}, force : BOOLEAN]
    /\ fs \in [Places -> [of : 0 .. MaxUploads, whole : BOOLEAN]]
    /\ up \in BOOLEAN
    /\ saved \in [Uploads -> Places \cup {NoPlace}]

FilesInit ==
    /\ ft = Idle /\ save = NoSave
    /\ fs = [p \in Places |-> Absent]
    /\ up = TRUE /\ inbox = <<>> /\ outbox = <<>>
    /\ peer = [phase |-> "rest", up |-> 0, path |-> NoPlace, force |-> FALSE, chunk |-> 0]
    /\ saved = [u \in Uploads |-> NoPlace]
    /\ budget = [faults |-> MaxFaults, foreign |-> MaxForeign, opens |-> MaxOpens]

(* Whether something fails, as long as failures are left.                  *)
May == {b \in BOOLEAN : b => budget.faults > 0}
Spend(b) == budget' = [budget EXCEPT !.faults = IF b THEN @ - 1 ELSE @]

-----------------------------------------------------------------------------
(* transfer.c, as functions of the agent's files.                          *)

IsActive(t) == t.state \in {"sending", "receiving"}
Removed(t) == IF t.owns THEN [fs EXCEPT ![t.path] = Absent] ELSE fs

(* DirectGate_Transfer_Destroy                                             *)
Destroy == fs' = Removed(ft) /\ ft' = Idle

(* Mutant: the state is asked for the direction, which an error hides.     *)
HandleCancelByState(t) ==
    /\ fs' = IF t.state = "receiving" THEN Removed(t) ELSE fs
    /\ ft' = [t EXCEPT !.state = "cancelled", !.owns = FALSE]

(* DirectGate_Transfer_HandleCancel: whatever the state, an inbound file   *)
(* that is not committed is removed.                                       *)
HandleCancel(t) ==
    /\ fs' = Removed(t)
    /\ ft' = [t EXCEPT !.state = "cancelled", !.owns = FALSE]

Failed(t) == [t EXCEPT !.state = IF @ = "receiving" THEN "error" ELSE @]

ClearPendingSave == save' = NoSave
Reply(type, id) == outbox' = Append(outbox, [type |-> type, id |-> id])
Silent == UNCHANGED outbox

-----------------------------------------------------------------------------
(* DirectGate_Files_HandleManager: save and open.                          *)

HandleSave(m) ==
    /\ m.type = "save"
    /\ \/ /\ IsActive(ft) \/ (~m.force /\ fs[m.path] # Absent)
          /\ Reply("refused", m.id) /\ UNCHANGED save
       \/ /\ ~IsActive(ft) /\ (m.force \/ fs[m.path] = Absent)
          /\ save' = [path |-> m.path, temp |-> Temp(m.id), force |-> m.force]
          /\ Reply("saveok", m.id)
    /\ UNCHANGED <<ft, fs, saved, budget>>

(* Transfer_Send drops what the last transfer left.                        *)
HandleOpen(m) ==
    /\ m.type = "open"
    /\ \/ /\ IsActive(ft) \/ fs[m.path] = Absent
          /\ Reply("refused", Download) /\ UNCHANGED <<ft, fs, budget>>
       \/ /\ ~IsActive(ft) /\ fs[m.path] # Absent
          /\ \E fails \in May :
                /\ Spend(fails)
                /\ fs' = Removed(ft)
                /\ IF fails THEN ft' = Idle /\ Reply("refused", Download)
                   ELSE /\ ft' = [Idle EXCEPT !.state = "sending", !.id = Download, !.path = m.path]
                        /\ Silent
    /\ UNCHANGED <<save, saved>>

(* ProcessTransfer: the next chunk of a download, its end, or its failure. *)
ProcessTransfer ==
    /\ up /\ ft.state = "sending"
    /\ \E fails \in May :
          /\ Spend(fails)
          /\ IF fails \/ fs[ft.path] = Absent
             THEN Destroy
             ELSE /\ UNCHANGED fs
                  /\ ft' = IF ft.chunk = Chunks THEN [ft EXCEPT !.state = "done"]
                                                ELSE [ft EXCEPT !.chunk = @ + 1]
    /\ UNCHANGED <<save, up, inbox, outbox, peer, saved>>

-----------------------------------------------------------------------------
(* DirectGate_Files_HandleFile: an upload.                                 *)

Path(u) == IF save.temp # NoPlace THEN save.temp
           ELSE IF save.path # NoPlace THEN save.path ELSE <<Cwd, u>>

(* HandleStartPath: the destination is created and may not exist.          *)
HandleStart(m) ==
    /\ m.type = "start"
    /\ \/ /\ IsActive(ft)
          /\ Reply("cancel", m.id) /\ UNCHANGED <<ft, save, fs, budget>>
       \/ /\ ~IsActive(ft)
          /\ LET left == Removed(ft) IN
             \E fails \in May :
                /\ Spend(fails)
                /\ IF fails \/ left[Path(m.id)] # Absent
                   THEN /\ fs' = left
                        /\ ft' = [Idle EXCEPT !.state = "error", !.id = m.id, !.path = Path(m.id)]
                        /\ ClearPendingSave /\ Reply("cancel", m.id)
                   ELSE /\ fs' = [left EXCEPT ![Path(m.id)] = Part(m.id)]
                        /\ ft' = [state |-> "receiving", id |-> m.id, path |-> Path(m.id),
                                  owns |-> TRUE, chunk |-> 0]
                        /\ UNCHANGED save /\ Silent
    /\ UNCHANGED saved

(* A message of another transfer is not for this one.                      *)
HandleOther(m) ==
    /\ m.type \in {"chunk", "end", "cancel"} /\ m.id # ft.id
    /\ Silent /\ UNCHANGED <<ft, save, fs, saved, budget>>

HandleChunk(m) ==
    /\ m.type = "chunk" /\ m.id = ft.id
    /\ \E fails \in May :
          /\ Spend(fails)
          /\ IF ft.state = "receiving" /\ m.index = ft.chunk /\ ft.chunk < Chunks /\ ~fails
             THEN ft' = [ft EXCEPT !.chunk = @ + 1] /\ Silent /\ UNCHANGED <<save, fs>>
             ELSE HandleCancel(Failed(ft)) /\ ClearPendingSave /\ Reply("cancel", m.id)
    /\ UNCHANGED saved

(* Mutant: whatever the target is by now, it is replaced.                  *)
RenamesReplace(force, target) == TRUE

(* The rename that commits replaces only what the peer meant to replace.   *)
Renames(force, target) == force \/ fs[target] = Absent

(* Transfer_HandleEnd, and the rename of the temporary file into place. A  *)
(* right transfer that cannot be committed loses its temporary file.       *)
Commit(m) ==
    LET done == [ft EXCEPT !.state = "done", !.owns = FALSE] IN
    IF save.temp # NoPlace /\ save.path # NoPlace
    THEN IF Renames(save.force, save.path)
         THEN /\ fs' = [fs EXCEPT ![save.path] = Whole(fs[save.temp].of), ![save.temp] = Absent]
              /\ ft' = [done EXCEPT !.path = save.path]
              /\ saved' = [saved EXCEPT ![m.id] = save.path] /\ Reply("ack", m.id)
         ELSE /\ fs' = [fs EXCEPT ![save.temp] = Absent]
              /\ ft' = done /\ UNCHANGED saved /\ Reply("cancel", m.id)
    ELSE /\ fs' = [fs EXCEPT ![ft.path] = Whole(m.id)]
         /\ ft' = done
         /\ saved' = [saved EXCEPT ![m.id] = ft.path] /\ Reply("ack", m.id)

HandleEnd(m) ==
    /\ m.type = "end" /\ m.id = ft.id
    /\ \/ /\ ft.state # "receiving"
          /\ Reply("cancel", m.id) /\ UNCHANGED <<ft, save, fs, saved, budget>>
       \/ /\ ft.state = "receiving"
          /\ \E fails \in May :
                /\ Spend(fails) /\ ClearPendingSave
                /\ IF ft.chunk = Chunks /\ ~fails
                   THEN Commit(m)
                   ELSE HandleCancel(Failed(ft)) /\ Reply("cancel", m.id) /\ UNCHANGED saved

HandleCancelled(m) ==
    /\ m.type = "cancel" /\ m.id = ft.id
    /\ HandleCancel(ft) /\ ClearPendingSave /\ Silent
    /\ UNCHANGED <<saved, budget>>

Handle ==
    /\ up /\ inbox # <<>> /\ inbox' = Tail(inbox)
    /\ LET m == Head(inbox) IN
       \/ HandleSave(m) \/ HandleOpen(m) \/ HandleStart(m) \/ HandleOther(m)
       \/ HandleChunk(m) \/ HandleEnd(m) \/ HandleCancelled(m)
    /\ UNCHANGED <<up, peer>>

(* The session ends, wherever it is.                                       *)
Close ==
    /\ up /\ up' = FALSE
    /\ Destroy /\ ClearPendingSave
    /\ inbox' = <<>> /\ outbox' = <<>>
    /\ UNCHANGED <<peer, saved, budget>>

(* Another process creates or removes a file.                              *)
OtherProcess ==
    /\ budget.foreign > 0 /\ budget' = [budget EXCEPT !.foreign = @ - 1]
    /\ \E p \in Targets :
          fs' = [fs EXCEPT ![Target(p)] = IF @ = Absent THEN Foreign ELSE Absent]
    /\ UNCHANGED <<ft, save, up, inbox, outbox, peer, saved>>

-----------------------------------------------------------------------------
(* The peer: it asks, sends everything, and waits for the end of it. It may *)
(* give up at any time.                                                    *)

Sends(m) == inbox' = Append(inbox, m)
PeerOnly == UNCHANGED <<ft, save, fs, up, saved, budget>>

AskSave ==
    /\ up /\ peer.phase = "rest" /\ peer.up < MaxUploads
    /\ \E p \in Targets, force \in BOOLEAN :
          /\ Sends([type |-> "save", id |-> peer.up + 1, path |-> Target(p), force |-> force])
          /\ peer' = [phase |-> "asked", up |-> peer.up + 1, path |-> Target(p), force |-> force, chunk |-> 0]
    /\ UNCHANGED outbox /\ PeerOnly

SendOn ==
    /\ up /\ peer.phase = "sending"
    /\ \/ /\ peer.chunk < Chunks
          /\ Sends([type |-> "chunk", id |-> peer.up, index |-> peer.chunk])
          /\ peer' = [peer EXCEPT !.chunk = @ + 1]
       \/ /\ peer.chunk = Chunks
          /\ Sends([type |-> "end", id |-> peer.up])
          /\ peer' = [peer EXCEPT !.phase = "sent"]
    /\ UNCHANGED outbox /\ PeerOnly

GiveUp ==
    /\ up /\ peer.phase \in {"sending", "sent"}
    /\ Sends([type |-> "cancel", id |-> peer.up])
    /\ peer' = [peer EXCEPT !.phase = "rest"]
    /\ UNCHANGED outbox /\ PeerOnly

(* The peer takes the agent's next answer.                                 *)
Hear ==
    /\ up /\ outbox # <<>> /\ outbox' = Tail(outbox)
    /\ LET m == Head(outbox) IN
       \/ /\ m.type = "saveok" /\ m.id = peer.up /\ peer.phase = "asked"
          /\ peer' = [peer EXCEPT !.phase = "sending"]
          /\ Sends([type |-> "start", id |-> peer.up])
       \/ /\ m.type \in {"refused", "cancel", "ack"} /\ m.id = peer.up
          /\ peer' = [peer EXCEPT !.phase = "rest"] /\ UNCHANGED inbox
       \/ /\ m.id # peer.up /\ UNCHANGED <<peer, inbox>>
    /\ PeerOnly

(* It asks for a file, or no longer wants it.                              *)
AskOpen ==
    /\ up /\ budget.opens > 0 /\ budget' = [budget EXCEPT !.opens = @ - 1]
    /\ \/ \E p \in Targets : Sends([type |-> "open", id |-> Download, path |-> Target(p)])
       \/ Sends([type |-> "cancel", id |-> Download])
    /\ UNCHANGED <<ft, save, fs, up, outbox, peer, saved>>

FilesNext ==
    \/ Handle \/ ProcessTransfer \/ Close \/ OtherProcess
    \/ AskSave \/ SendOn \/ GiveUp \/ Hear \/ AskOpen

FilesSpec == FilesInit /\ [][FilesNext]_fileVars

-----------------------------------------------------------------------------

(* What the agent acknowledges lies where the peer asked for it            *)
(* (HandleFile: "a delayed message from a previous transfer must not ...   *)
(* clear its pending commit path").                                        *)
AckedIsWhereAsked ==
    \A u \in Uploads : saved[u] # NoPlace /\ u = peer.up => saved[u] = peer.path

(* A temporary file belongs to the transfer under way: whatever fails, and *)
(* when the session ends, none is left behind.                             *)
NoLitter ==
    \A t \in Temps : fs[t] # Absent => ft.owns /\ ft.path = t /\ ft.state = "receiving"

(* A target changes in one step from what it was to a whole file, and      *)
(* without force only from nothing: no reader ever sees half an upload,    *)
(* and no file that appeared meanwhile is lost.                            *)
CommitsAreAtomic ==
    [][\A p \in Targets : LET t == Target(p) IN
         fs'[t] # fs[t] /\ fs'[t].of # 0 => fs'[t].whole /\ (fs[t] = Absent \/ save.force)]_fileVars

=============================================================================
