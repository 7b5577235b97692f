--------------------------- MODULE Services_proofs ---------------------------
(***************************************************************************)
(* What serves an authenticated session, for any number of uploads, of       *)
(* operations, of shells and of descriptors: uploads are committed at once    *)
(* and leave no litter, the record a file operation shares with its worker is *)
(* freed by its last holder, no signal goes to a shell that was reaped and no *)
(* pump works on a closed handle.                                             *)
(***************************************************************************)
EXTENDS MCServices, FiniteSetTheorems, SequenceTheorems, WellFoundedInduction, TLAPS

-----------------------------------------------------------------------------
(* Uploads.                                                                *)

TargetPlaces == {Target(p) : p \in Targets}
CwdPlaces == {<<Cwd, u>> : u \in Uploads}

Files == [of : 0 .. MaxUploads, whole : BOOLEAN]
Transfers == [state : States, id : -1 .. MaxUploads, path : Places \cup {NoPlace},
              owns : BOOLEAN, chunk : 0 .. Chunks]
Saves == [path : Places \cup {NoPlace}, temp : Places \cup {NoPlace}, force : BOOLEAN]

Messages ==
    [type : {"save"}, id : Uploads, path : TargetPlaces, force : BOOLEAN]
    \cup [type : {"open"}, id : {Download}, path : TargetPlaces]
    \cup [type : {"start", "end", "cancel"}, id : Uploads]
    \cup [type : {"cancel"}, id : {Download}]
    \cup [type : {"chunk"}, id : Uploads, index : 0 .. Chunks]

Peers == [phase : {"rest", "asked", "sending", "sent"}, up : 0 .. MaxUploads,
          path : TargetPlaces \cup {NoPlace}, force : BOOLEAN, chunk : 0 .. Chunks]

AgentTyped ==
    /\ ft \in Transfers /\ save \in Saves /\ fs \in [Places -> Files]
    /\ saved \in [Uploads -> Places \cup {NoPlace}]

(* What the peer sends names an upload it has begun.                        *)
PeerTyped ==
    /\ inbox \in Seq(Messages) /\ peer \in Peers
    /\ peer.phase # "rest" => peer.up \in Uploads

(* A granted path comes with its temporary file.                            *)
GrantHolds ==
    \/ save.path = NoPlace /\ save.temp = NoPlace
    \/ save.path \in TargetPlaces /\ save.temp \in Temps

(* What is being received is in the transfer's own file, which is the one   *)
(* granted, or one in the agent's directory.                                *)
OwnHolds ==
    /\ ft.owns <=> ft.state = "receiving"
    /\ ft.owns => IF save.temp = NoPlace THEN ft.path \in CwdPlaces ELSE ft.path = save.temp

AgentInv == AgentTyped /\ GrantHolds /\ OwnHolds /\ NoLitter
FilesInv == AgentInv /\ PeerTyped /\ up \in BOOLEAN

(* What a step may do to a target.                                          *)
Atomic ==
    \A t \in TargetPlaces :
       fs'[t] # fs[t] /\ fs'[t].of # 0 => fs'[t].whole /\ (fs[t] = Absent \/ save.force)

-----------------------------------------------------------------------------
(* Places and files.                                                        *)

LEMMA PlacesApart ==
    /\ Places = Temps \cup TargetPlaces \cup CwdPlaces
    /\ \A t \in Temps : t \notin TargetPlaces /\ t \notin CwdPlaces /\ t # NoPlace
    /\ \A t \in TargetPlaces : t \notin CwdPlaces /\ t # NoPlace
    /\ \A t \in CwdPlaces : t # NoPlace
    /\ \A u \in Uploads : Temp(u) \in Temps /\ <<Cwd, u>> \in CwdPlaces
  BY DEF Places, Temps, TargetPlaces, CwdPlaces, NoPlace, Temp, Target, Cwd, Nowhere

LEMMA Counting ==
    /\ Uploads \subseteq 0 .. MaxUploads /\ 0 \in 0 .. MaxUploads
    /\ \A u \in Uploads \cup {Download} : u \in -1 .. MaxUploads
    /\ 0 \in 0 .. Chunks /\ Download = 0
  BY FileTransferAssumption DEF Uploads, Download

LEMMA FilesTyped ==
    /\ Absent \in Files /\ Foreign \in Files
    /\ Absent.of = 0 /\ Foreign.of = 0
    /\ \A u \in 0 .. MaxUploads : Part(u) \in Files /\ Whole(u) \in Files /\ Whole(u).whole
  BY Counting DEF Absent, Foreign, Part, Whole, Files

(* Destroying or cancelling removes the file being received and no other.   *)
LEMMA Removing ==
    ASSUME AgentInv
    PROVE  /\ Removed(ft) \in [Places -> Files]
           /\ \A t \in Temps : Removed(ft)[t] = Absent
           /\ \A t \in TargetPlaces : Removed(ft)[t] = fs[t]
  <1>1. CASE ft.owns
    <2>1. ft.path \in Places /\ ft.path \notin TargetPlaces
      BY <1>1, PlacesApart DEF AgentInv, OwnHolds, GrantHolds
    <2>2. Removed(ft) = [fs EXCEPT ![ft.path] = Absent]
      BY <1>1 DEF Removed
    <2>3. \A t \in Temps : t # ft.path => fs[t] = Absent
      BY DEF AgentInv, NoLitter
    <2> QED
      BY <2>1, <2>2, <2>3, FilesTyped, PlacesApart DEF AgentInv, AgentTyped
  <1>2. CASE ~ft.owns
    <2>1. Removed(ft) = fs
      BY <1>2 DEF Removed
    <2>2. \A t \in Temps : fs[t] = Absent
      BY <1>2 DEF AgentInv, NoLitter
    <2> QED
      BY <2>1, <2>2 DEF AgentInv, AgentTyped
  <1> QED
    BY <1>1, <1>2

(* A transfer that has let go of its file needs no more than its types.     *)
LEMMA Released ==
    ASSUME AgentInv, ft' \in Transfers, ~ft'.owns, ft'.state # "receiving",
           save' \in Saves, GrantHolds',
           saved' \in [Uploads -> Places \cup {NoPlace}],
           fs' = Removed(ft)
    PROVE  AgentInv' /\ Atomic
  <1>1. AgentTyped' /\ OwnHolds'
    BY Removing DEF AgentTyped, OwnHolds
  <1>2. NoLitter'
    BY Removing DEF NoLitter
  <1>3. Atomic
    BY Removing DEF Atomic
  <1> QED
    BY <1>1, <1>2, <1>3 DEF AgentInv

LEMMA IdleTyped == Idle \in Transfers /\ Idle.owns = FALSE /\ Idle.state = "idle"
                   /\ NoSave \in Saves /\ NoSave.path = NoPlace /\ NoSave.temp = NoPlace
  BY Counting, FileTransferAssumption DEF Idle, NoSave, Transfers, Saves, States

-----------------------------------------------------------------------------
(* One lemma per message.                                                   *)

LEMMA SaveStep ==
    ASSUME AgentInv, NEW m \in Messages, HandleSave(m)
    PROVE  AgentInv' /\ Atomic
  <1>1. m.id \in Uploads /\ m.path \in TargetPlaces /\ m.force \in BOOLEAN
    BY DEF HandleSave, Messages
  <1>2. save' \in Saves /\ GrantHolds'
    <2>1. CASE save' = save
      BY <2>1 DEF AgentInv, AgentTyped, GrantHolds
    <2>2. CASE save' = [path |-> m.path, temp |-> Temp(m.id), force |-> m.force]
      <3>1. Temp(m.id) \in Temps /\ Temp(m.id) \in Places /\ m.path \in Places
        BY <1>1, PlacesApart
      <3> QED
        BY <1>1, <2>2, <3>1 DEF GrantHolds, Saves
    <2> QED
      BY <2>1, <2>2 DEF HandleSave
  <1>3. IsActive(ft) => save' = save
    BY DEF HandleSave
  <1>4. OwnHolds'
    BY <1>3 DEF HandleSave, AgentInv, OwnHolds, IsActive
  <1> QED
    BY <1>2, <1>4 DEF HandleSave, AgentInv, AgentTyped, NoLitter, Atomic

LEMMA OpenStep ==
    ASSUME AgentInv, NEW m \in Messages, HandleOpen(m)
    PROVE  AgentInv' /\ Atomic
  <1>1. m.path \in TargetPlaces
    BY DEF HandleOpen, Messages
  <1>2. CASE UNCHANGED <<ft, fs>>
    BY <1>2 DEF HandleOpen, AgentInv, AgentTyped, GrantHolds, OwnHolds, NoLitter, Atomic
  <1>3. CASE fs' = Removed(ft) /\ ft' \in
             {Idle, [Idle EXCEPT !.state = "sending", !.id = Download, !.path = m.path]}
    <2>1. ft' \in Transfers /\ ~ft'.owns /\ ft'.state # "receiving"
      <3>1. m.path \in Places
        BY <1>1, PlacesApart
      <3> QED
        BY <1>3, <3>1, IdleTyped, Counting DEF Transfers, Idle, States
    <2>2. save' \in Saves /\ GrantHolds' /\ saved' \in [Uploads -> Places \cup {NoPlace}]
      BY DEF HandleOpen, AgentInv, AgentTyped, GrantHolds
    <2> QED
      BY <1>3, <2>1, <2>2, Released
  <1> QED
    BY <1>2, <1>3 DEF HandleOpen

LEMMA PathIs ==
    ASSUME AgentInv, NEW u \in Uploads
    PROVE  /\ Path(u) \in Places /\ Path(u) \notin TargetPlaces
           /\ IF save.temp = NoPlace THEN Path(u) \in CwdPlaces ELSE Path(u) = save.temp
  BY PlacesApart DEF Path, AgentInv, GrantHolds

LEMMA StartStep ==
    ASSUME AgentInv, NEW m \in Messages, HandleStart(m)
    PROVE  AgentInv' /\ Atomic
  <1>1. m.id \in Uploads
    BY DEF HandleStart, Messages
  <1>2. CASE UNCHANGED <<ft, save, fs>>
    BY <1>2 DEF HandleStart, AgentInv, AgentTyped, GrantHolds, OwnHolds, NoLitter, Atomic
  <1>3. CASE /\ fs' = Removed(ft) /\ save' = NoSave
             /\ ft' = [Idle EXCEPT !.state = "error", !.id = m.id, !.path = Path(m.id)]
    <2>1. ft' \in Transfers /\ ~ft'.owns /\ ft'.state # "receiving"
      <3>1. Path(m.id) \in Places /\ m.id \in -1 .. MaxUploads
        BY <1>1, PathIs, Counting
      <3> QED
        BY <1>3, <3>1, IdleTyped DEF Transfers, Idle, States
    <2>2. save' \in Saves /\ GrantHolds' /\ saved' \in [Uploads -> Places \cup {NoPlace}]
      BY <1>3, IdleTyped DEF HandleStart, AgentInv, AgentTyped, GrantHolds
    <2> QED
      BY <1>3, <2>1, <2>2, Released
  <1>4. CASE /\ fs' = [Removed(ft) EXCEPT ![Path(m.id)] = Part(m.id)] /\ save' = save
             /\ ft' = [state |-> "receiving", id |-> m.id, path |-> Path(m.id),
                       owns |-> TRUE, chunk |-> 0]
    <2>1. ft' \in Transfers /\ ft'.owns /\ ft'.state = "receiving" /\ ft'.path = Path(m.id)
      <3>1. Path(m.id) \in Places /\ m.id \in -1 .. MaxUploads
        BY <1>1, PathIs, Counting
      <3> QED
        BY <1>4, <3>1, Counting DEF Transfers, States
    <2>2. fs' \in [Places -> Files]
      BY <1>1, <1>4, PathIs, Removing, FilesTyped, Counting
    <2>3. AgentTyped' /\ GrantHolds'
      BY <1>4, <2>1, <2>2 DEF HandleStart, AgentInv, AgentTyped, GrantHolds
    <2>4. OwnHolds'
      BY <1>1, <1>4, <2>1, PathIs DEF OwnHolds
    <2>5. NoLitter'
      BY <1>1, <1>4, <2>1, PathIs, Removing DEF NoLitter
    <2>6. Atomic
      BY <1>1, <1>4, PathIs, Removing, PlacesApart DEF Atomic
    <2> QED
      BY <2>3, <2>4, <2>5, <2>6 DEF AgentInv
  <1> QED
    BY <1>2, <1>3, <1>4 DEF HandleStart, ClearPendingSave

(* Cancelling what failed, and what did not.                                *)
LEMMA Cancelling ==
    ASSUME AgentInv, NEW t, t \in {ft, Failed(ft)}, HandleCancel(t), save' = NoSave,
           saved' = saved
    PROVE  AgentInv' /\ Atomic
  <1>1. t \in Transfers /\ t.owns = ft.owns /\ t.path = ft.path
    BY DEF AgentInv, AgentTyped, Transfers, Failed, States
  <1>2. fs' = Removed(ft)
    BY <1>1 DEF HandleCancel, Removed
  <1>3. ft' \in Transfers /\ ~ft'.owns /\ ft'.state # "receiving"
    BY <1>1 DEF HandleCancel, Transfers, States
  <1>4. save' \in Saves /\ GrantHolds' /\ saved' \in [Uploads -> Places \cup {NoPlace}]
    BY IdleTyped DEF AgentInv, AgentTyped, GrantHolds
  <1> QED
    BY <1>2, <1>3, <1>4, Released

LEMMA ChunkStep ==
    ASSUME AgentInv, NEW m \in Messages, HandleChunk(m)
    PROVE  AgentInv' /\ Atomic
  <1>1. CASE /\ ft' = [ft EXCEPT !.chunk = @ + 1] /\ ft.chunk < Chunks
             /\ UNCHANGED <<save, fs>>
    <2>1. ft' \in Transfers /\ ft'.owns = ft.owns /\ ft'.state = ft.state /\ ft'.path = ft.path
      BY <1>1, FileTransferAssumption DEF AgentInv, AgentTyped, Transfers
    <2> QED
      BY <1>1, <2>1 DEF HandleChunk, AgentInv, AgentTyped, GrantHolds, OwnHolds, NoLitter, Atomic
  <1>2. CASE HandleCancel(Failed(ft)) /\ ClearPendingSave
    BY <1>2, Cancelling DEF HandleChunk, ClearPendingSave
  <1> QED
    BY <1>1, <1>2 DEF HandleChunk

LEMMA CancelledStep ==
    ASSUME AgentInv, NEW m \in Messages, HandleCancelled(m)
    PROVE  AgentInv' /\ Atomic
  BY Cancelling DEF HandleCancelled, ClearPendingSave

(* The rename, the failed rename, and the file in the agent's directory.    *)
LEMMA CommitStep ==
    ASSUME AgentInv, NEW m \in Messages, m.type = "end", ft.state = "receiving",
           Commit(m), save' = NoSave
    PROVE  AgentInv' /\ Atomic
  <1>0. m.id \in Uploads
    BY DEF Messages
  <1> DEFINE done == [ft EXCEPT !.state = "done", !.owns = FALSE]
  <1>1. ft.owns
    BY DEF AgentInv, OwnHolds
  <1>2. done \in Transfers /\ ~done.owns /\ done.state = "done"
    BY DEF AgentInv, AgentTyped, Transfers, States
  <1>3. GrantHolds' /\ save' \in Saves
    BY IdleTyped DEF GrantHolds
  <1>4. CASE save.temp # NoPlace /\ save.path # NoPlace
    <2>0. /\ save.path \in TargetPlaces /\ save.temp \in Temps /\ ft.path = save.temp
          /\ save.path \in Places /\ save.temp \in Places /\ save.path # save.temp
      BY <1>1, <1>4, PlacesApart DEF AgentInv, GrantHolds, OwnHolds
    <2>1. CASE Renames(save.force, save.path)
      <3>1. fs' = [fs EXCEPT ![save.path] = Whole(fs[save.temp].of), ![save.temp] = Absent]
            /\ ft' = [done EXCEPT !.path = save.path] /\ saved' = [saved EXCEPT ![m.id] = save.path]
        BY <1>4, <2>1 DEF Commit
      <3>2. fs[save.temp].of \in 0 .. MaxUploads
        BY <2>0 DEF AgentInv, AgentTyped, Files
      <3>3. Whole(fs[save.temp].of) \in Files /\ Whole(fs[save.temp].of).whole
        BY <3>2, FilesTyped
      <3>4. ft' \in Transfers /\ ~ft'.owns /\ ft'.state = "done"
        BY <1>2, <2>0, <3>1 DEF Transfers
      <3>5. AgentTyped'
        BY <1>0, <1>3, <2>0, <3>1, <3>3, <3>4, FilesTyped DEF AgentInv, AgentTyped
      <3>6. \A t \in Temps : fs'[t] = Absent
        BY <2>0, <3>1, PlacesApart DEF AgentInv, AgentTyped, NoLitter
      <3>7. Atomic
        BY <2>0, <2>1, <3>1, <3>3, PlacesApart DEF AgentInv, AgentTyped, Atomic, Renames
      <3> QED
        BY <1>3, <3>4, <3>5, <3>6, <3>7 DEF AgentInv, OwnHolds, NoLitter
    <2>2. CASE ~Renames(save.force, save.path)
      <3>1. fs' = [fs EXCEPT ![save.temp] = Absent] /\ ft' = done /\ saved' = saved
        BY <1>4, <2>2 DEF Commit
      <3>2. fs' = Removed(ft)
        BY <1>1, <2>0, <3>1 DEF Removed
      <3> QED
        BY <1>2, <1>3, <3>1, <3>2, Released DEF AgentInv, AgentTyped
    <2> QED
      BY <2>1, <2>2
  <1>5. CASE ~(save.temp # NoPlace /\ save.path # NoPlace)
    <2>0. ft.path \in CwdPlaces /\ ft.path \in Places
      BY <1>1, <1>5, PlacesApart DEF AgentInv, GrantHolds, OwnHolds
    <2>1. /\ fs' = [fs EXCEPT ![ft.path] = Whole(m.id)] /\ ft' = done
          /\ saved' = [saved EXCEPT ![m.id] = ft.path]
      BY <1>5 DEF Commit
    <2>2. AgentTyped'
      BY <1>0, <1>2, <1>3, <2>0, <2>1, FilesTyped, Counting DEF AgentInv, AgentTyped
    <2>3. \A t \in Temps : fs'[t] = Absent
      BY <2>0, <2>1, PlacesApart DEF AgentInv, AgentTyped, NoLitter
    <2>4. Atomic
      BY <2>0, <2>1, PlacesApart DEF AgentInv, AgentTyped, Atomic
    <2> QED
      BY <1>2, <1>3, <2>1, <2>2, <2>3, <2>4 DEF AgentInv, OwnHolds, NoLitter
  <1> QED
    BY <1>4, <1>5

LEMMA EndStep ==
    ASSUME AgentInv, NEW m \in Messages, HandleEnd(m)
    PROVE  AgentInv' /\ Atomic
  <1>1. CASE UNCHANGED <<ft, save, fs, saved>>
    BY <1>1 DEF AgentInv, AgentTyped, GrantHolds, OwnHolds, NoLitter, Atomic
  <1>2. CASE ft.state = "receiving" /\ ClearPendingSave /\ Commit(m)
    BY <1>2, CommitStep DEF HandleEnd, ClearPendingSave
  <1>3. CASE ClearPendingSave /\ HandleCancel(Failed(ft)) /\ UNCHANGED saved
    BY <1>3, Cancelling DEF ClearPendingSave
  <1> QED
    BY <1>1, <1>2, <1>3 DEF HandleEnd

LEMMA OtherStep ==
    ASSUME AgentInv, NEW m \in Messages, HandleOther(m)
    PROVE  AgentInv' /\ Atomic
  BY DEF HandleOther, AgentInv, AgentTyped, GrantHolds, OwnHolds, NoLitter, Atomic

-----------------------------------------------------------------------------
(* The peer's side, and whole steps.                                        *)

LEMMA Posting ==
    ASSUME inbox \in Seq(Messages), NEW m \in Messages, Sends(m)
    PROVE  inbox' \in Seq(Messages)
  BY DEF Sends

LEMMA Reading ==
    ASSUME inbox \in Seq(Messages), inbox # <<>>
    PROVE  Head(inbox) \in Messages /\ Tail(inbox) \in Seq(Messages)
  OBVIOUS

LEMMA PeerStep ==
    ASSUME PeerTyped, AskSave \/ SendOn \/ GiveUp \/ Hear \/ AskOpen
    PROVE  PeerTyped'
  <1>1. CASE AskSave
    <2>1. PICK p \in Targets, force \in BOOLEAN :
             /\ Sends([type |-> "save", id |-> peer.up + 1, path |-> Target(p), force |-> force])
             /\ peer' = [phase |-> "asked", up |-> peer.up + 1, path |-> Target(p),
                         force |-> force, chunk |-> 0]
      BY <1>1 DEF AskSave
    <2>2. peer.up + 1 \in Uploads
      BY <1>1, FileTransferAssumption DEF AskSave, PeerTyped, Peers, Uploads
    <2>3. Target(p) \in TargetPlaces
      BY DEF TargetPlaces
    <2>4. [type |-> "save", id |-> peer.up + 1, path |-> Target(p), force |-> force] \in Messages
      BY <2>2, <2>3 DEF Messages
    <2>5. peer' \in Peers /\ peer'.up \in Uploads
      BY <2>1, <2>2, <2>3, Counting DEF Peers
    <2> QED
      BY <2>1, <2>4, <2>5, Posting DEF PeerTyped
  <1>2. CASE SendOn
    <2>1. peer \in Peers /\ peer.up \in Uploads /\ peer.chunk \in 0 .. Chunks
      BY <1>2 DEF SendOn, PeerTyped, Peers
    <2>2. CASE /\ peer.chunk < Chunks
               /\ Sends([type |-> "chunk", id |-> peer.up, index |-> peer.chunk])
               /\ peer' = [peer EXCEPT !.chunk = @ + 1]
      <3>1. [type |-> "chunk", id |-> peer.up, index |-> peer.chunk] \in Messages
        BY <2>1 DEF Messages
      <3>2. peer' \in Peers /\ peer'.up = peer.up
        BY <2>1, <2>2, FileTransferAssumption DEF Peers
      <3> QED
        BY <2>1, <2>2, <3>1, <3>2, Posting DEF PeerTyped
    <2>3. CASE /\ Sends([type |-> "end", id |-> peer.up])
               /\ peer' = [peer EXCEPT !.phase = "sent"]
      <3>1. [type |-> "end", id |-> peer.up] \in Messages
        BY <2>1 DEF Messages
      <3>2. peer' \in Peers /\ peer'.up = peer.up
        BY <2>1, <2>3 DEF Peers
      <3> QED
        BY <2>1, <2>3, <3>1, <3>2, Posting DEF PeerTyped
    <2> QED
      BY <1>2, <2>2, <2>3 DEF SendOn
  <1>3. CASE GiveUp
    <2>1. peer \in Peers /\ peer.up \in Uploads
      BY <1>3 DEF GiveUp, PeerTyped
    <2>2. [type |-> "cancel", id |-> peer.up] \in Messages
      BY <2>1 DEF Messages
    <2>3. peer' \in Peers /\ peer'.phase = "rest"
      BY <1>3, <2>1 DEF GiveUp, Peers
    <2> QED
      BY <1>3, <2>2, <2>3, Posting DEF GiveUp, PeerTyped
  <1>4. CASE Hear
    <2>1. CASE /\ peer.phase = "asked" /\ peer' = [peer EXCEPT !.phase = "sending"]
               /\ Sends([type |-> "start", id |-> peer.up])
      <3>1. peer \in Peers /\ peer.up \in Uploads
        BY <2>1 DEF PeerTyped
      <3>2. [type |-> "start", id |-> peer.up] \in Messages
        BY <3>1 DEF Messages
      <3>3. peer' \in Peers /\ peer'.up = peer.up
        BY <2>1, <3>1 DEF Peers
      <3> QED
        BY <2>1, <3>1, <3>2, <3>3, Posting DEF PeerTyped
    <2>2. CASE peer' = [peer EXCEPT !.phase = "rest"] /\ UNCHANGED inbox
      BY <2>2 DEF PeerTyped, Peers
    <2>3. CASE UNCHANGED <<peer, inbox>>
      BY <2>3 DEF PeerTyped
    <2> QED
      BY <1>4, <2>1, <2>2, <2>3 DEF Hear
  <1>5. CASE AskOpen
    <2>1. UNCHANGED peer
      BY <1>5 DEF AskOpen
    <2>2. CASE \E p \in Targets : Sends([type |-> "open", id |-> Download, path |-> Target(p)])
      <3>1. PICK p \in Targets : Sends([type |-> "open", id |-> Download, path |-> Target(p)])
        BY <2>2
      <3>2. [type |-> "open", id |-> Download, path |-> Target(p)] \in Messages
        BY DEF Messages, TargetPlaces
      <3> QED
        BY <2>1, <3>1, <3>2, Posting DEF PeerTyped
    <2>3. CASE Sends([type |-> "cancel", id |-> Download])
      <3>1. [type |-> "cancel", id |-> Download] \in Messages
        BY DEF Messages
      <3> QED
        BY <2>1, <2>3, <3>1, Posting DEF PeerTyped
    <2> QED
      BY <1>5, <2>2, <2>3 DEF AskOpen
  <1> QED
    BY <1>1, <1>2, <1>3, <1>4, <1>5

LEMMA HandleStep ==
    ASSUME FilesInv, Handle
    PROVE  FilesInv' /\ Atomic
  <1> DEFINE m == Head(inbox)
  <1>1. m \in Messages /\ Tail(inbox) \in Seq(Messages)
    BY Reading DEF Handle, FilesInv, PeerTyped
  <1>2. AgentInv' /\ Atomic
    <2>1. AgentInv
      BY DEF FilesInv
    <2>2. \/ HandleSave(m) \/ HandleOpen(m) \/ HandleStart(m) \/ HandleOther(m)
          \/ HandleChunk(m) \/ HandleEnd(m) \/ HandleCancelled(m)
      BY DEF Handle
    <2> HIDE DEF m
    <2> QED
      BY <1>1, <2>1, <2>2, SaveStep, OpenStep, StartStep, OtherStep, ChunkStep, EndStep,
         CancelledStep
  <1>3. PeerTyped' /\ up' \in BOOLEAN
    BY <1>1 DEF Handle, FilesInv, PeerTyped
  <1> QED
    BY <1>2, <1>3 DEF FilesInv

(* ProcessTransfer and the end of the session.                              *)
LEMMA SendingStep ==
    ASSUME FilesInv, ProcessTransfer
    PROVE  FilesInv' /\ Atomic
  <1>1. AgentInv /\ ft \in Transfers
    BY DEF FilesInv, AgentInv, AgentTyped
  <1>2. AgentInv' /\ Atomic
    <2>1. CASE Destroy
      <3>1. save' \in Saves /\ GrantHolds' /\ saved' \in [Uploads -> Places \cup {NoPlace}]
        BY <1>1 DEF ProcessTransfer, AgentInv, AgentTyped, GrantHolds
      <3> QED
        BY <1>1, <2>1, <3>1, IdleTyped, Released DEF Destroy
    <2>2. CASE /\ UNCHANGED fs
               /\ ft' = IF ft.chunk = Chunks THEN [ft EXCEPT !.state = "done"]
                                             ELSE [ft EXCEPT !.chunk = @ + 1]
      <3>1. ft' \in Transfers
        BY <1>1, <2>2, FileTransferAssumption DEF Transfers, States
      <3>2. ~ft.owns /\ ~ft'.owns /\ ft'.state # "receiving"
        BY <1>1, <2>2 DEF ProcessTransfer, AgentInv, OwnHolds, Transfers
      <3> QED
        BY <1>1, <2>2, <3>1, <3>2
           DEF ProcessTransfer, AgentInv, AgentTyped, GrantHolds, OwnHolds, NoLitter, Atomic
    <2> QED
      BY <2>1, <2>2 DEF ProcessTransfer
  <1> QED
    BY <1>2 DEF ProcessTransfer, FilesInv, PeerTyped

LEMMA CloseStep ==
    ASSUME FilesInv, Close
    PROVE  FilesInv' /\ Atomic
  <1>1. save' \in Saves /\ GrantHolds' /\ saved' \in [Uploads -> Places \cup {NoPlace}]
    BY IdleTyped DEF Close, ClearPendingSave, FilesInv, AgentInv, AgentTyped, GrantHolds
  <1>2. AgentInv' /\ Atomic
    BY <1>1, IdleTyped, Released DEF FilesInv, Close, Destroy
  <1>3. PeerTyped' /\ up' \in BOOLEAN
    <2>1. <<>> \in Seq(Messages)
      OBVIOUS
    <2>2. inbox' = <<>> /\ peer' = peer /\ up' = FALSE
      BY DEF Close
    <2> QED
      BY <2>1, <2>2 DEF FilesInv, PeerTyped
  <1> QED
    BY <1>2, <1>3 DEF FilesInv

LEMMA OtherProcessStep ==
    ASSUME FilesInv, OtherProcess
    PROVE  FilesInv' /\ Atomic
  <1>1. PICK p \in Targets :
           fs' = [fs EXCEPT ![Target(p)] = IF @ = Absent THEN Foreign ELSE Absent]
    BY DEF OtherProcess
  <1>2. Target(p) \in TargetPlaces /\ Target(p) \in Places
    BY PlacesApart DEF TargetPlaces
  <1>3. fs \in [Places -> Files]
    BY DEF FilesInv, AgentInv, AgentTyped
  <1>4. fs' \in [Places -> Files] /\ \A t \in Temps : fs'[t] = fs[t]
    BY <1>1, <1>2, <1>3, FilesTyped, PlacesApart
  <1>5. Atomic
    BY <1>1, <1>2, <1>3, FilesTyped, PlacesApart DEF Atomic
  <1> QED
    BY <1>4, <1>5
       DEF OtherProcess, FilesInv, AgentInv, AgentTyped, GrantHolds, OwnHolds, NoLitter, PeerTyped

LEMMA FilesStepHolds ==
    ASSUME FilesInv, [FilesNext]_fileVars
    PROVE  FilesInv' /\ Atomic
  <1>1. CASE UNCHANGED <<ft, save, fs, up, saved>> /\ PeerTyped'
    BY <1>1 DEF FilesInv, AgentInv, AgentTyped, GrantHolds, OwnHolds, NoLitter, Atomic
  <1>2. CASE AskSave \/ SendOn \/ GiveUp \/ Hear \/ AskOpen
    <2>1. UNCHANGED <<ft, save, fs, up, saved>>
      BY <1>2 DEF AskSave, SendOn, GiveUp, Hear, AskOpen, PeerOnly
    <2> QED
      BY <1>1, <1>2, <2>1, PeerStep DEF FilesInv
  <1>3. CASE UNCHANGED fileVars
    BY <1>1, <1>3 DEF fileVars, FilesInv, PeerTyped
  <1> QED
    BY <1>2, <1>3, HandleStep, SendingStep, CloseStep, OtherProcessStep DEF FilesNext

LEMMA FilesInitHolds == FilesInit => FilesInv
  <1> SUFFICES ASSUME FilesInit PROVE FilesInv
    OBVIOUS
  <1>1. AgentInv
    BY IdleTyped, FilesTyped, PlacesApart
       DEF FilesInit, AgentInv, AgentTyped, GrantHolds, OwnHolds, NoLitter
  <1>2. PeerTyped
    BY Counting DEF FilesInit, PeerTyped, Peers
  <1> QED
    BY <1>1, <1>2 DEF FilesInit, FilesInv

LEMMA FilesInvariance == FilesSpec => []FilesInv
  BY FilesInitHolds, FilesStepHolds, PTL DEF FilesSpec

-----------------------------------------------------------------------------

(* Transfer, grant, files and acknowledgements are what the code can hold   *)
(* (directgate_transfer_t and the save fields of a session).                *)
THEOREM FileTypesHold == FilesSpec => []FilesTypeOK
  <1>1. FilesInv => FilesTypeOK
    BY DEF FilesInv, AgentInv, AgentTyped, Transfers, Saves, Files, FilesTypeOK
  <1> QED
    BY <1>1, FilesInvariance, PTL

(* Whatever fails or is cancelled, and when the session ends, the only      *)
(* temporary file there is belongs to the upload under way                  *)
(* (DirectGate_Transfer_HandleCancel, _Destroy and the commit in files.c).  *)
THEOREM LeavesNoLitter == FilesSpec => []NoLitter
  <1>1. FilesInv => NoLitter
    BY DEF FilesInv, AgentInv
  <1> QED
    BY <1>1, FilesInvariance, PTL

(* A target changes in one step to a whole file, and without force only     *)
(* from nothing (DirectGate_Files_HandleFile and its rename).               *)
THEOREM CommitsAtOnce == FilesSpec => CommitsAreAtomic
  <1> DEFINE Step ==
        \A p \in Targets : LET t == Target(p) IN
          fs'[t] # fs[t] /\ fs'[t].of # 0 => fs'[t].whole /\ (fs[t] = Absent \/ save.force)
  <1>1. FilesInv /\ [FilesNext]_fileVars => [Step]_fileVars
    BY FilesStepHolds DEF Atomic, TargetPlaces
  <1> QED
    BY <1>1, FilesInvariance, PTL DEF FilesSpec, CommitsAreAtomic

-----------------------------------------------------------------------------
(* The operation a file manager session shares with its worker.            *)

Records == [live : BOOLEAN, refs : 0 .. 2, orphaned : BOOLEAN,
            done : BOOLEAN, rd : BOOLEAN, byte : BOOLEAN]

\* The references are those of the session and of the worker.
CountsHold(o) == op[o].refs = Holders(o) /\ (op[o].live <=> Holders(o) > 0)

\* Until it is told that nobody reads, the worker has a reader.
HasReader(o) == thread[o] # "none" /\ ~op[o].orphaned => op[o].rd

\* What was not asked for is not there.
Untouched(o) == thread[o] = "none" /\ answer[o] = 0

\* An open session has answered what it has let go of.
Answers(o) == answer[o] = IF cur = o THEN 0 ELSE 1

\* The type invariant but for the flag of what must not happen.
OpTyped ==
    /\ op \in [Ops -> Records]
    /\ thread \in [Ops -> {"none", "run", "unref", "exited"}]
    /\ cur \in 0 .. MaxOps /\ reg \in 0 .. MaxOps
    /\ sopen \in {"open", "orphaned", "gone"}
    /\ asked \in 0 .. MaxOps
    /\ answer \in [Ops -> 0 .. 2]

OpInv ==
    /\ OpTyped
    /\ reg = cur /\ cur <= asked
    /\ harm = FALSE
    /\ \A o \in Ops : CountsHold(o) /\ HasReader(o) /\ answer[o] <= 1
    /\ \A o \in Ops : o > asked => Untouched(o)
    /\ sopen = "open" => \A o \in 1 .. asked : Answers(o)

-----------------------------------------------------------------------------

LEMMA OpInitHolds == OpInit => OpInv
  <1> SUFFICES ASSUME OpInit PROVE OpInv
    OBVIOUS
  <1>1. OpTyped
    BY FileOpAssumption DEF OpInit, OpTyped, None, Records
  <1>2. \A o \in Ops : CountsHold(o) /\ HasReader(o) /\ answer[o] <= 1 /\ Untouched(o)
    BY FileOpAssumption DEF OpInit, Ops, None, CountsHold, HasReader, Untouched, Holders
  <1> QED BY <1>1, <1>2 DEF OpInit, OpInv

\* What a reference given back leaves.
LEMMA Unreferencing ==
    ASSUME NEW r \in Records, r.refs > 0
    PROVE  /\ Unref(r) \in Records
           /\ Unref(r).refs = r.refs - 1 /\ (Unref(r).live <=> r.refs > 1)
           /\ Unref(r).orphaned = r.orphaned /\ Unref(r).rd = r.rd
  <1>1. r.refs - 1 \in 0 .. 2 /\ (r.refs > 1) \in BOOLEAN
    BY DEF Records
  <1>2. \A n \in 0 .. 2, b \in BOOLEAN : [r EXCEPT !.refs = n, !.live = b] \in Records
    BY DEF Records
  <1>3. Unref(r) \in Records
    BY <1>1, <1>2 DEF Unref
  <1> QED BY <1>3 DEF Unref, Records

LEMMA Detaching ==
    ASSUME NEW o \in Ops, op[o] \in Records, op[o].refs > 0
    PROVE  /\ Detach(o) \in Records
           /\ Detach(o).refs = op[o].refs - 1 /\ (Detach(o).live <=> op[o].refs > 1)
           /\ Detach(o).orphaned
  <1>1. /\ Orphan(op[o]) \in Records /\ Orphan(op[o]).refs = op[o].refs
        /\ Orphan(op[o]).orphaned
    BY DEF Orphan, Records
  <1>2. /\ Unref(Orphan(op[o])) \in Records
        /\ Unref(Orphan(op[o])).refs = op[o].refs - 1
        /\ Unref(Orphan(op[o])).live <=> op[o].refs > 1
        /\ Unref(Orphan(op[o])).orphaned
    BY <1>1, Unreferencing
  <1> HIDE DEF Orphan, Unref
  <1> QED BY <1>2 DEF Detach, Records

LEMMA OpStepHolds == OpInv /\ [OpNext]_opVars => OpInv'
  <1> SUFFICES ASSUME OpInv, [OpNext]_opVars PROVE OpInv'
    OBVIOUS
  <1> USE FileOpAssumption
  <1>0. /\ op \in [Ops -> Records] /\ asked \in 0 .. MaxOps /\ cur \in 0 .. MaxOps
        /\ answer \in [Ops -> 0 .. 2] /\ thread \in [Ops -> {"none", "run", "unref", "exited"}]
    BY DEF OpInv, OpTyped
  <1>1. CASE StartOp
    <2> DEFINE o == asked + 1
    <2>1. o \in Ops /\ cur # o /\ Untouched(o)
      BY <1>0, <1>1 DEF StartOp, OpInv, Ops
    <2>2. CASE Answered(o) /\ UNCHANGED <<op, thread, cur, reg>>
      <3>1. answer' = [answer EXCEPT ![o] = 1]
        BY <2>1, <2>2 DEF Answered, Untouched
      <3>2. OpTyped'
        BY <1>0, <1>1, <2>1, <2>2, <3>1 DEF StartOp, OpInv, OpTyped, Ops
      <3>3. \A p \in Ops : (CountsHold(p) /\ HasReader(p) /\ answer[p] <= 1)'
        BY <1>0, <2>1, <2>2, <3>1 DEF OpInv, Ops, CountsHold, HasReader, Holders
      <3>4. (sopen = "open" => \A p \in 1 .. asked : Answers(p))'
        BY <1>0, <1>1, <2>1, <2>2, <3>1 DEF StartOp, OpInv, Ops, Answers
      <3> QED BY <1>0, <1>1, <2>1, <2>2, <3>1, <3>2, <3>3, <3>4
              DEF StartOp, OpInv, Ops, Untouched
    <2>3. CASE /\ cur = 0
               /\ op' = [op EXCEPT ![o] = Shared]
               /\ thread' = [thread EXCEPT ![o] = "run"]
               /\ cur' = o /\ reg' = o /\ UNCHANGED answer
      <3>1. /\ Shared \in Records /\ Shared.live /\ Shared.refs = 2 /\ Shared.rd
            /\ ~Shared.orphaned
        BY DEF Shared, Records
      <3>2. OpTyped'
        BY <1>0, <1>1, <2>1, <2>3, <3>1 DEF StartOp, OpInv, OpTyped, Ops
      <3>3. \A p \in Ops : (CountsHold(p) /\ HasReader(p) /\ answer[p] <= 1)'
        BY <1>0, <2>1, <2>3, <3>1 DEF OpInv, Ops, CountsHold, HasReader, Holders, Untouched
      <3>4. (sopen = "open" => \A p \in 1 .. asked : Answers(p))'
        BY <1>0, <1>1, <2>1, <2>3 DEF StartOp, OpInv, Ops, Answers, Untouched
      <3> QED BY <1>0, <1>1, <2>1, <2>3, <3>2, <3>3, <3>4 DEF StartOp, OpInv, Ops, Untouched
    <2> QED BY <1>1, <2>2, <2>3 DEF StartOp
  <1>2. ASSUME NEW o \in Ops, FinishOp(o) PROVE OpInv'
    <2>1. op[o].live
      BY <1>0, <1>2 DEF FinishOp, OpInv, CountsHold, Holders, Ops
    <2>2. harm' = FALSE
      BY <1>2, <2>1 DEF FinishOp, OpInv, HasReader
    <2> DEFINE r == [op[o] EXCEPT !.done = TRUE, !.byte = ~op[o].orphaned]
    <2>5. r \in Records
      BY <1>0 DEF Records
    <2>6. op' = [op EXCEPT ![o] = r]
      BY <1>0, <1>2 DEF FinishOp
    <2> HIDE DEF r
    <2>3. OpTyped'
      BY <1>0, <1>2, <2>5, <2>6 DEF FinishOp, OpInv, OpTyped
    <2>4. \A p \in Ops : (CountsHold(p) /\ HasReader(p) /\ answer[p] <= 1)'
      BY <1>0, <1>2 DEF FinishOp, OpInv, CountsHold, HasReader, Holders, Records, Ops
    <2> QED BY <1>0, <1>2, <2>2, <2>3, <2>4 DEF FinishOp, OpInv, Untouched, Answers, Ops
  <1>3. ASSUME NEW o \in Ops, LetGo(o) PROVE OpInv'
    <2>1. op[o].refs > 0 /\ op[o].live
      BY <1>0, <1>3 DEF LetGo, OpInv, CountsHold, Holders, Ops
    <2>2. /\ Unref(op[o]) \in Records
          /\ Unref(op[o]).refs = op[o].refs - 1 /\ (Unref(op[o]).live <=> op[o].refs > 1)
          /\ Unref(op[o]).orphaned = op[o].orphaned /\ Unref(op[o]).rd = op[o].rd
      BY <1>0, <2>1, Unreferencing
    <2>3. op' = [op EXCEPT ![o] = Unref(op[o])] /\ harm' = FALSE
      BY <1>3, <2>1 DEF LetGo, OpInv
    <2> HIDE DEF Unref
    <2>4. OpTyped'
      BY <1>0, <1>3, <2>2, <2>3 DEF LetGo, OpInv, OpTyped, Records
    <2>5. \A p \in Ops : (CountsHold(p) /\ HasReader(p) /\ answer[p] <= 1)'
      BY <1>0, <1>3, <2>1, <2>2, <2>3 DEF LetGo, OpInv, CountsHold, HasReader, Holders, Ops
    <2> QED BY <1>0, <1>3, <2>3, <2>4, <2>5 DEF LetGo, OpInv, Untouched, Answers, Ops
  <1>4. CASE ProcessOp
    <2>1. cur \in Ops /\ cur # 0 /\ reg = cur
      BY <1>0, <1>4 DEF ProcessOp, OpInv, Ops
    <2>2. op[cur].refs > 0
      BY <1>0, <2>1 DEF OpInv, CountsHold, Holders, Ops
    <2>3. /\ Detach(cur) \in Records
          /\ Detach(cur).refs = op[cur].refs - 1 /\ (Detach(cur).live <=> op[cur].refs > 1)
          /\ Detach(cur).orphaned
      BY <1>0, <2>1, <2>2, Detaching
    <2>4. op' = [op EXCEPT ![cur] = Detach(cur)] /\ answer[cur] = 0
      BY <1>0, <1>4, <2>1 DEF ProcessOp, OpInv, Answers, Ops
    <2> HIDE DEF Detach
    <2>5. OpTyped'
      BY <1>0, <1>4, <2>1, <2>3, <2>4 DEF ProcessOp, Answered, OpInv, OpTyped, Records
    <2>6. \A p \in Ops : (CountsHold(p) /\ HasReader(p) /\ answer[p] <= 1)'
      BY <1>0, <1>4, <2>1, <2>3, <2>4
         DEF ProcessOp, Answered, OpInv, CountsHold, HasReader, Holders, Ops
    <2> QED BY <1>0, <1>4, <2>1, <2>4, <2>5, <2>6
            DEF ProcessOp, Answered, OpInv, Untouched, Answers, Ops
  <1>5. CASE OrphanOp
    <2>1. CASE cur = 0
      BY <1>5, <2>1 DEF OrphanOp, OpInv, OpTyped, CountsHold, HasReader, Holders, Untouched
    <2>2. CASE cur # 0
      <3>1. cur \in Ops /\ op' = [op EXCEPT ![cur] = Orphan(op[cur])]
        BY <1>0, <1>5, <2>2 DEF OrphanOp, Ops
      <3>2. /\ Orphan(op[cur]) \in Records /\ Orphan(op[cur]).refs = op[cur].refs
            /\ Orphan(op[cur]).live = op[cur].live /\ Orphan(op[cur]).orphaned
        BY <1>0, <3>1 DEF Orphan, Records
      <3> HIDE DEF Orphan
      <3>3. OpTyped'
        BY <1>0, <1>5, <3>1, <3>2 DEF OrphanOp, OpInv, OpTyped, Records
      <3>4. \A p \in Ops : (CountsHold(p) /\ HasReader(p) /\ answer[p] <= 1)'
        BY <1>0, <1>5, <3>1, <3>2 DEF OrphanOp, OpInv, CountsHold, HasReader, Holders, Ops
      <3> QED BY <1>5, <3>3, <3>4 DEF OrphanOp, OpInv, Untouched
    <2> QED BY <2>1, <2>2
  <1>6. CASE ReleaseOp
    <2>1. CASE cur = 0
      BY <1>6, <2>1 DEF ReleaseOp, OpInv, OpTyped, CountsHold, HasReader, Holders, Untouched
    <2>2. CASE cur # 0
      <3>1. cur \in Ops /\ op' = [op EXCEPT ![cur] = Detach(cur)]
        BY <1>0, <1>6, <2>2 DEF ReleaseOp, Ops
      <3>2. op[cur].refs > 0
        BY <1>0, <3>1 DEF OpInv, CountsHold, Holders, Ops
      <3>3. /\ Detach(cur) \in Records
            /\ Detach(cur).refs = op[cur].refs - 1 /\ (Detach(cur).live <=> op[cur].refs > 1)
            /\ Detach(cur).orphaned
        BY <1>0, <3>1, <3>2, Detaching
      <3> HIDE DEF Detach
      <3>4. OpTyped'
        BY <1>0, <1>6, <3>1, <3>3 DEF ReleaseOp, OpInv, OpTyped, Records
      <3>5. \A p \in Ops : (CountsHold(p) /\ HasReader(p) /\ answer[p] <= 1)'
        BY <1>0, <1>6, <3>1, <3>3 DEF ReleaseOp, OpInv, CountsHold, HasReader, Holders, Ops
      <3> QED BY <1>0, <1>6, <3>4, <3>5 DEF ReleaseOp, OpInv, Untouched
    <2> QED BY <2>1, <2>2
  <1>7. CASE UNCHANGED opVars
    BY <1>7 DEF opVars, OpInv, OpTyped, CountsHold, HasReader, Holders, Untouched, Answers
  <1> QED BY <1>1, <1>2, <1>3, <1>4, <1>5, <1>6, <1>7 DEF OpNext, OpWorker

LEMMA OpInvariance == OpSpec => []OpInv
  BY OpInitHolds, OpStepHolds, PTL DEF OpSpec

-----------------------------------------------------------------------------

\* Every variable stays in its range (files.c, "directgate_fileop_t").
THEOREM OpTypesHold == OpSpec => []OpTypeOK
  <1>1. OpInv => OpTypeOK
    BY DEF OpInv, OpTyped, Records, OpTypeOK
  <1> QED BY <1>1, OpInvariance, PTL

\* An operation lives exactly as long as one side holds it, no freed one is
\* used, nobody writes to a pipe without a reader, and an open session's
\* operation is answered once (DetachOp, ReleaseOp, Unref and the worker).
THEOREM OperationsAreSharedSafely == OpSpec => []SharedSafely
  <1>1. ASSUME OpInv, NEW o \in Ops PROVE op[o].live = (Holders(o) > 0)
    <2>1. op[o].live \in BOOLEAN
      BY <1>1 DEF OpInv, OpTyped, Records
    <2>2. op[o].live <=> Holders(o) > 0
      BY <1>1 DEF OpInv, CountsHold
    <2>3. (Holders(o) > 0) \in BOOLEAN
      BY DEF Holders
    <2>4. \A a, b \in BOOLEAN : (a <=> b) => a = b
      OBVIOUS
    <2> HIDE DEF Holders
    <2> QED BY <2>1, <2>2, <2>3, <2>4
  <1>2. OpInv => SharedSafely
    BY <1>1 DEF OpInv, SharedSafely, CountsHold, Answers
  <1> QED BY <1>2, OpInvariance, PTL

-----------------------------------------------------------------------------
(* The terminal, on Windows and on POSIX.                                   *)

(* What the pumps left running when they were to be joined keep.            *)
PipeEnds == Handles \ {"console", "process"}

ConPtyInv ==
    /\ ptyPump \in [Pumps -> {"none", "run", "exited"}]
    /\ ptyStep \in {"idle", "up", "closing", "killed", "joined"}
    /\ ptyHeld \subseteq ptyOpen /\ ptyOpen \subseteq Handles
    /\ \A p \in Pumps : ptyPump[p] = "run" => Works[p] \subseteq ptyOpen
    /\ ptyStep = "idle" => ptyHeld = {} /\ ptyOpen \subseteq Dropped(Pumps)
    /\ ptyStep \in {"up", "closing"} => ptyHeld = Handles /\ ptyOpen = Handles
    /\ ptyStep = "killed" => ptyHeld = PipeEnds /\ ptyOpen = PipeEnds
    /\ ptyStep = "joined" =>
          /\ ptyOpen = PipeEnds /\ ptyOpen \ ptyHeld \subseteq Dropped(Pumps)
          /\ \A p \in Pumps : ptyPump[p] = "run" => Works[p] \cap ptyHeld = {}

LEMMA PumpWorks ==
    /\ Pumps = {"out", "in"}
    /\ Works["out"] = {"read", "bridge"} /\ Works["in"] = {"write", "bridge"}
    /\ \A p \in Pumps : Works[p] \subseteq PipeEnds /\ Works[p] # {}
  BY DEF Pumps, Works, PipeEnds, Handles

LEMMA ConPtyStepHolds == ConPtyInv /\ [ConPtyNext]_ptyVars => ConPtyInv'
  <1> SUFFICES ASSUME ConPtyInv, [ConPtyNext]_ptyVars PROVE ConPtyInv'
    OBVIOUS
  <1> USE DEF ConPtyInv
  <1>1. CASE ptyOpen = {} /\ Spawn
    BY <1>1, PumpWorks DEF Spawn, PipeEnds
  <1>2. ASSUME NEW p \in Pumps, PumpLeaves(p) PROVE ConPtyInv'
    BY <1>2 DEF PumpLeaves
  <1>3. CASE CloseShell
    BY <1>3, PumpWorks DEF CloseShell, PipeEnds
  <1>4. CASE JoinPumps
    <2>1. \A P \in SUBSET Pumps : Dropped(P) \subseteq Dropped(Pumps)
      BY DEF Dropped
    <2>2. \A p \in Pumps : ptyPump[p] = "run" =>
             Works[p] \subseteq Dropped({q \in Pumps : ptyPump[q] = "run"})
      BY DEF Dropped
    <2> QED BY <1>4, <2>1, <2>2 DEF JoinPumps
  <1>5. CASE CloseWinHandles
    BY <1>5 DEF CloseWinHandles
  <1>6. CASE UNCHANGED ptyVars
    BY <1>6 DEF ptyVars
  <1> QED BY <1>1, <1>2, <1>3, <1>4, <1>5, <1>6 DEF ConPtyNext

LEMMA ConPtyInvariance == ConPtySpec => []ConPtyInv
  <1>1. ConPtyInit => ConPtyInv
    BY DEF ConPtyInit, ConPtyInv
  <1> QED BY <1>1, ConPtyStepHolds, PTL DEF ConPtySpec

LEMMA PumpsHold == ConPtyInv => PumpsKeepTheirHandles
  <1> SUFFICES ASSUME ConPtyInv, ptyStep = "idle", ptyOpen # {}
               PROVE  \E p \in Pumps : Works[p] \cap ptyOpen # {}
    BY DEF ConPtyInv, PumpsKeepTheirHandles
  <1> QED BY PumpWorks DEF ConPtyInv, Dropped

-----------------------------------------------------------------------------

(* A shell that the terminal or a slot holds was not reaped, and one is in  *)
(* one of them only; reading is off only while the terminal runs.           *)
TermInv ==
    /\ TermTypeOK /\ IsFiniteSet(reap)
    /\ OwnShellsOnly
    /\ ~Running => pty = "off"

LEMMA TermInitHolds == TermInit => TermInv
  <1> SUFFICES ASSUME TermInit PROVE TermInv
    OBVIOUS
  <1>1. IsFiniteSet(reap) /\ Cardinality(reap) <= ReapSlots
    BY FS_EmptySet, TerminalAssumption DEF TermInit
  <1>2. OwnShellsOnly /\ (~Running => pty = "off")
    BY DEF TermInit, OwnShellsOnly, Running
  <1>3. TermTypeOK
    <2>1. pid \in 0 .. MaxShells /\ printed \in 0 .. MaxOutput /\ unread \in 0 .. printed
          /\ backlog \in 0 .. HighWater + 1
      BY TerminalAssumption DEF TermInit
    <2>2. proc \in [Shells -> {"none", "alive", "zombie", "reaped"}]
      BY DEF TermInit
    <2> QED BY <1>1, <2>1, <2>2 DEF TermInit, TermTypeOK
  <1> QED BY <1>1, <1>2, <1>3 DEF TermInv

(* A shell is hung up: the others are as they were.                         *)
LEMMA KillStep ==
    ASSUME TermInv, NEW s \in Shells, s \notin reap, proc[s] \in {"alive", "zombie"},
           KillChild(s)
    PROVE  /\ proc' \in [Shells -> {"none", "alive", "zombie", "reaped"}]
           /\ \A t \in Shells \ {s} : proc'[t] = proc[t]
           /\ killed' \subseteq Shells /\ lost' \subseteq Shells
           /\ reap \subseteq reap' /\ reap' \subseteq reap \cup {s}
           /\ IsFiniteSet(reap') /\ Cardinality(reap') <= ReapSlots
           /\ s \in reap' => proc'[s] \in {"alive", "zombie"}
           /\ stray' = FALSE
  <1>1. stray = FALSE
    BY DEF TermInv, TermTypeOK, OwnShellsOnly
  <1>2. CASE /\ proc' = [proc EXCEPT ![s] = "reaped"]
             /\ stray' = stray /\ UNCHANGED <<killed, reap, lost>>
    BY <1>1, <1>2 DEF TermInv, TermTypeOK
  <1>3. CASE proc[s] = "alive" /\ Signal(s) /\ DeferReap(s)
    <2>1. stray' = FALSE
      BY <1>1, <1>3 DEF Signal
    <2>2. CASE /\ Cardinality(reap) < ReapSlots
               /\ reap' = reap \cup {s} /\ UNCHANGED <<proc, killed, lost>>
      <3>1. IsFiniteSet(reap') /\ Cardinality(reap') = Cardinality(reap) + 1
        BY <2>2, FS_AddElement DEF TermInv
      <3>2. Cardinality(reap) \in Nat /\ ReapSlots \in Nat
        BY FS_CardinalityType, TerminalAssumption DEF TermInv
      <3> QED BY <1>3, <2>1, <2>2, <3>1, <3>2 DEF TermInv, TermTypeOK
    <2>3. CASE /\ Cardinality(reap) >= ReapSlots
               /\ killed' = killed \cup {s} /\ UNCHANGED reap
               /\ \/ proc' = [proc EXCEPT ![s] = "reaped"] /\ UNCHANGED lost
                  \/ lost' = lost \cup {s} /\ UNCHANGED proc
      BY <2>1, <2>3 DEF TermInv, TermTypeOK
    <2> QED BY <1>3, <2>2, <2>3 DEF DeferReap
  <1> QED BY <1>2, <1>3 DEF KillChild

LEMMA ReadStep ==
    ASSUME TermInv
    PROVE  Rounds \in Nat /\ Rounds <= unread /\ backlog + Rounds <= HighWater + 1
  <1>1. /\ unread \in Nat /\ backlog \in Nat /\ HighWater \in Nat /\ ReadBudget \in Nat
        /\ backlog <= HighWater + 1
    BY TerminalAssumption DEF TermInv, TermTypeOK
  <1> QED BY <1>1 DEF Rounds, Backlogged, Least

LEMMA TermStepHolds == TermInv /\ [TermNext]_termVars => TermInv'
  <1> SUFFICES ASSUME TermInv, [TermNext]_termVars PROVE TermInv'
    OBVIOUS
  <1> USE DEF TermInv, TermTypeOK, OwnShellsOnly, Running, Flow
  <1>1. ASSUME NEW s \in Shells, Exit(s) PROVE TermInv'
    BY <1>1 DEF Exit
  <1>2. CASE Prints
    BY <1>2, TerminalAssumption DEF Prints
  <1>3. CASE GraceOver
    BY <1>3 DEF GraceOver
  <1>4. CASE ReapPending
    <2> PICK s \in reap :
          /\ IF proc[s] = "zombie"
             THEN /\ proc' = [proc EXCEPT ![s] = "reaped"]
                  /\ reap' = reap \ {s} /\ due' = due \ {s} /\ UNCHANGED <<killed, stray>>
             ELSE /\ s \in due \ killed /\ killed' = killed \cup {s} /\ Signal(s)
                  /\ UNCHANGED <<proc, reap, due>>
          /\ UNCHANGED <<pid, pty, paused, lost, Flow>>
      BY <1>4 DEF ReapPending
    <2>1. CASE proc[s] = "zombie"
      <3>1. IsFiniteSet(reap \ {s}) /\ Cardinality(reap \ {s}) = Cardinality(reap) - 1
        BY FS_RemoveElement
      <3>2. Cardinality(reap) \in Nat /\ ReapSlots \in Nat
        BY FS_CardinalityType, TerminalAssumption
      <3>3. reap' = reap \ {s} /\ due' = due \ {s} /\ UNCHANGED <<killed, stray>>
            /\ proc' = [proc EXCEPT ![s] = "reaped"]
        BY <2>1
      <3>6. Cardinality(reap') <= ReapSlots
        BY <3>1, <3>2, <3>3
      <3>4. \A r \in reap' : proc'[r] \in {"alive", "zombie"}
        BY <3>3
      <3>5. pid # 0 => pid # s /\ proc'[pid] \in {"alive", "zombie"}
        BY <3>3, TerminalAssumption DEF Shells
      <3> QED BY <3>1, <3>3, <3>4, <3>5, <3>6 DEF Flow
    <2>2. CASE proc[s] # "zombie"
      BY <2>2 DEF Signal
    <2> QED BY <2>1, <2>2
  <1>5. CASE StartTerminal
    <2> PICK s \in Shells : proc[s] = "none" /\ proc' = [proc EXCEPT ![s] = "alive"] /\ pid' = s
      BY <1>5 DEF StartTerminal
    <2>1. s \in 0 .. MaxShells /\ s # 0 /\ s \notin reap
      BY DEF Shells
    <2>2. UNCHANGED <<killed, pty, paused, reap, due, backlog, stray, lost>>
          /\ printed' = 0 /\ unread' = 0 /\ ~Running
      BY <1>5 DEF StartTerminal
    <2> QED BY <2>1, <2>2, TerminalAssumption
  <1>6. CASE AttachEvent
    BY <1>6 DEF AttachEvent
  <1>7. CASE Shutdown
    <2>1. /\ pid \in Shells /\ pid \notin reap /\ proc[pid] \in {"alive", "zombie"} /\ KillChild(pid)
          /\ pid # 0 /\ 0 \notin reap
      BY <1>7 DEF Shutdown, Shells
    <2>2. /\ pid' = 0 /\ pty' = "off" /\ paused' = FALSE /\ unread' = 0
          /\ UNCHANGED <<due, printed, backlog>>
      BY <1>7 DEF Shutdown
    <2> HIDE DEF TermInv
    <2>3. /\ proc' \in [Shells -> {"none", "alive", "zombie", "reaped"}]
          /\ \A t \in Shells \ {pid} : proc'[t] = proc[t]
          /\ killed' \subseteq Shells /\ lost' \subseteq Shells
          /\ reap \subseteq reap' /\ reap' \subseteq reap \cup {pid}
          /\ IsFiniteSet(reap') /\ Cardinality(reap') <= ReapSlots
          /\ pid \in reap' => proc'[pid] \in {"alive", "zombie"}
          /\ stray' = FALSE
      BY <2>1, KillStep
    <2> USE DEF TermInv
    <2>4. \A t \in reap' : proc'[t] \in {"alive", "zombie"}
      BY <2>1, <2>3
    <2>5. OwnShellsOnly'
      <3>1. pid' \notin reap' /\ paused' = FALSE /\ pty' = "off"
        BY <2>1, <2>2, <2>3
      <3> QED BY <2>2, <2>3, <2>4, <3>1
    <2>6. TermTypeOK'
      <3>1. pid' \in 0 .. MaxShells /\ unread' \in 0 .. printed' /\ printed' \in 0 .. MaxOutput
        BY <2>2, TerminalAssumption
      <3>2. due' \subseteq reap' /\ reap' \subseteq Shells
        BY <2>1, <2>2, <2>3
      <3> QED BY <2>2, <2>3, <3>1, <3>2
    <2> QED BY <2>2, <2>3, <2>5, <2>6
  <1>8. CASE OnRead
    <2>1. unread' \in 0 .. printed' /\ backlog' \in 0 .. HighWater + 1
      BY <1>8, ReadStep, TerminalAssumption DEF OnRead
    <2>2. /\ pid # 0 /\ pty = "on" /\ pid' = pid
          /\ \/ paused' = TRUE /\ pty' = "off-in"
             \/ UNCHANGED <<paused, pty>>
      BY <1>8 DEF OnRead
    <2>3. UNCHANGED <<proc, killed, reap, due, printed, stray, lost>>
      BY <1>8 DEF OnRead
    <2>4. TermTypeOK'
      BY <2>1, <2>2, <2>3
    <2>5. OwnShellsOnly'
      BY <2>2, <2>3
    <2> QED BY <2>2, <2>3, <2>4, <2>5
  <1>9. CASE ResumeRead
    BY <1>9 DEF ResumeRead
  <1>10. CASE Drain
    BY <1>10, TerminalAssumption DEF Drain
  <1>11. CASE UNCHANGED termVars
    BY <1>11 DEF termVars
  <1> QED BY <1>1, <1>2, <1>3, <1>4, <1>5, <1>6, <1>7, <1>8, <1>9, <1>10, <1>11 DEF TermNext

LEMMA TermInvariance == TermSpec => []TermInv
  BY TermInitHolds, TermStepHolds, PTL DEF TermSpec

-----------------------------------------------------------------------------

(* Shells, slots and counters are what the code can hold                    *)
(* (directgate_term_t and g_termReap).                                      *)
THEOREM TermTypesHold == TermSpec => []TermTypeOK
  <1>1. TermInv => TermTypeOK
    BY DEF TermInv
  <1> QED BY <1>1, TermInvariance, PTL

(* For any number of shells and of slots: no signal goes to a pid whose     *)
(* shell was reaped, what is held is held once (KillChild, DeferReap and    *)
(* ReapPending of term.c); and whatever a stuck pump works on stays open    *)
(* when its terminal stops (JoinPumps, CloseWinHandles).                    *)
THEOREM TerminalsAreSafe == TermSpec /\ ConPtySpec => []TerminalsKeepTheirOwn
  <1>1. TermInv /\ ConPtyInv => TerminalsKeepTheirOwn
    BY PumpsHold DEF TermInv, TerminalsKeepTheirOwn
  <1> QED BY <1>1, TermInvariance, ConPtyInvariance, PTL

-----------------------------------------------------------------------------
(* The descriptors of a session and their endpoints.                        *)

(* A nonempty set of numbers has a least one.                               *)
LEMMA LeastNumber ==
    ASSUME NEW S, S \subseteq Nat, S # {}
    PROVE  \E m \in S : \A n \in S : m <= n
  <1> DEFINE R == OpToRel(<, Nat)
  <1>1. IsWellFoundedOn(R, Nat)
    BY NatLessThanWellFounded
  <1> HIDE DEF R
  <1>2. PICK m \in S : \A n \in S : ~ (<<n, m>> \in R)
    BY <1>1, WFMin
  <1>3. ASSUME NEW n \in S PROVE m <= n
    <2>1. n \in Nat /\ m \in Nat
      OBVIOUS
    <2>2. n < m => <<n, m>> \in R
      BY <2>1 DEF R, OpToRel
    <2> QED BY <1>2, <2>1, <2>2
  <1> QED BY <1>3

LEMMA LowestIsFree ==
    ASSUME HasFree
    PROVE  Lowest \in Fds /\ holder[Lowest] = "free"
  <1> DEFINE F == {f \in Fds : holder[f] = "free"}
  <1>1. F \subseteq Nat /\ F # {}
    BY DEF HasFree, Fds
  <1>2. \E m \in F : \A n \in F : m <= n
    BY <1>1, LeastNumber
  <1>3. \E m \in Fds : holder[m] = "free" /\ \A g \in Fds : holder[g] = "free" => m <= g
    BY <1>2
  <1> QED BY <1>3 DEF Lowest

(* What the session holds is open for it and nothing else is; what is        *)
(* registered is what it holds; and the steps of Session_Destroy that are     *)
(* past have unregistered theirs.                                            *)
Registered == \A k \in Kinds : endpoint[k] # 0 => endpoint[k] = field[k]
Holds ==
    /\ \A k \in Kinds : field[k] # 0 => holder[field[k]] = k
    /\ \A f \in Fds : holder[f] \in Kinds => field[holder[f]] = f
Unregistered ==
    /\ \A i \in 1 .. 5 : life > i => endpoint[Ending[i]] = 0
    /\ life = 7 => \A k \in Kinds : field[k] = 0

EndpointsInv == EndpointsTypeOK /\ foul = FALSE /\ Registered /\ Holds /\ Unregistered

LEMMA EndingIs ==
    /\ Len(Ending) = 7
    /\ Ending[1] = "pty" /\ Ending[2] = "rtc" /\ Ending[3] = "search" /\ Ending[4] = "desktop"
    /\ Ending[5] = "op" /\ Ending[6] = "clear" /\ Ending[7] = "gone"
  BY DEF Ending

LEMMA NeedsAre ==
    /\ DOMAIN Needs = Modes \cup {"op", "none"}
    /\ \A w \in DOMAIN Needs : \A i \in DOMAIN Needs[w] : Needs[w][i] \in Kinds
  BY DEF Needs, Modes, Kinds

LEMMA EndpointsInitHolds == EndpointsInit => EndpointsInv
  <1> SUFFICES ASSUME EndpointsInit PROVE EndpointsInv
    OBVIOUS
  <1>1. 1 \in Fds /\ 2 \in Fds /\ MaxFd \in Nat
    BY EndpointsAssumption DEF Fds
  <1>2. \A f \in Fds : f \in Nat
    BY DEF Fds
  <1>3. \A f \in Fds : holder[f] = IF f = 1 THEN "rtc" ELSE IF f = 2 THEN "search" ELSE "free"
    BY DEF EndpointsInit
  <1>4. \A k \in Kinds : field[k] = IF k = "rtc" THEN 1 ELSE IF k = "search" THEN 2 ELSE 0
    BY DEF EndpointsInit
  <1>5. holder \in [Fds -> Kinds \cup {"free", "loop", "other"}]
    BY <1>3 DEF EndpointsInit, Kinds
  <1>6. field \in [Kinds -> 0 .. MaxFd]
    BY <1>1, <1>4, EndpointsAssumption DEF EndpointsInit
  <1>7. EndpointsTypeOK
    <2>1. endpoint \in [Kinds -> 0 .. MaxFd]
      BY EndpointsAssumption DEF EndpointsInit
    <2>2. "none" \in Modes \cup {"none"} /\ 0 \in Starting .. Len(Ending)
      BY EndingIs DEF Starting
    <2> QED BY <1>5, <1>6, <2>1, <2>2, NeedsAre DEF EndpointsInit, EndpointsTypeOK, Open
  <1>8. Holds
    BY <1>1, <1>3, <1>4 DEF Holds, Kinds
  <1> QED
    BY <1>7, <1>8 DEF EndpointsInit, EndpointsInv, Registered, Unregistered, Open

(* The number of what the session holds tells whose it is.                   *)
LEMMA WhoseIs ==
    ASSUME Holds, NEW k \in Kinds, field[k] # 0
    PROVE  Whose(field[k]) = k
  BY DEF Holds, Whose

(* What closing the endpoint of one kind leaves.                             *)
LEMMA ClosedStep ==
    ASSUME EndpointsTypeOK, foul = FALSE, Registered, Holds,
           NEW k \in Kinds, endpoint[k] # 0, HandleClosed(k)
    PROVE  /\ holder' \in [Fds -> Kinds \cup {"free", "loop", "other"}]
           /\ field' = [field EXCEPT ![k] = 0] /\ endpoint' = [endpoint EXCEPT ![k] = 0]
           /\ foul' = FALSE /\ Registered' /\ Holds'
  <1>1. endpoint[k] = field[k] /\ field[k] # 0 /\ holder[field[k]] = k /\ Whose(endpoint[k]) = k
    BY WhoseIs DEF Registered, Holds
  <1>2. field[k] \in Fds
    BY <1>1, EndpointsAssumption DEF EndpointsTypeOK, Fds
  <1>3. /\ holder' = [holder EXCEPT ![field[k]] = "loop"] /\ foul' = FALSE
        /\ field' = [field EXCEPT ![k] = 0] /\ endpoint' = [endpoint EXCEPT ![k] = 0]
    BY <1>1 DEF HandleClosed
  <1>4. Registered'
    BY <1>3 DEF Registered, EndpointsTypeOK
  <1>5. \A j \in Kinds : field'[j] # 0 => holder'[field'[j]] = j
    BY <1>1, <1>2, <1>3 DEF Holds, EndpointsTypeOK
  <1>6. \A f \in Fds : holder'[f] \in Kinds => field'[holder'[f]] = f
    BY <1>1, <1>2, <1>3 DEF Holds, EndpointsTypeOK, Kinds
  <1> QED
    BY <1>2, <1>3, <1>4, <1>5, <1>6 DEF Holds, EndpointsTypeOK

(* What closing the descriptor of a kind that is not registered leaves.      *)
LEMMA ClosesStep ==
    ASSUME EndpointsTypeOK, foul = FALSE, Registered, Holds,
           NEW k \in Kinds, endpoint[k] = 0, Closes(k), field' = [field EXCEPT ![k] = 0],
           UNCHANGED endpoint
    PROVE  /\ holder' \in [Fds -> Kinds \cup {"free", "loop", "other"}]
           /\ foul' = FALSE /\ Registered' /\ Holds'
  <1>1. foul' = FALSE /\ (field[k] # 0 => holder[field[k]] = k)
    BY DEF Closes, Holds
  <1>2. field[k] # 0 => field[k] \in Fds
    BY EndpointsAssumption DEF EndpointsTypeOK, Fds
  <1>3. holder' = IF field[k] = 0 THEN holder ELSE [holder EXCEPT ![field[k]] = "free"]
    BY DEF Closes
  <1>4. Registered'
    BY DEF Registered, EndpointsTypeOK
  <1>5. \A j \in Kinds : field'[j] # 0 => holder'[field'[j]] = j
    BY <1>1, <1>2, <1>3 DEF Holds, EndpointsTypeOK
  <1>6. \A f \in Fds : holder'[f] \in Kinds => field'[holder'[f]] = f
    BY <1>1, <1>2, <1>3 DEF Holds, EndpointsTypeOK, Kinds
  <1> QED
    BY <1>1, <1>2, <1>3, <1>4, <1>5, <1>6 DEF Holds, EndpointsTypeOK

LEMMA OthersStep ==
    ASSUME EndpointsInv, OtherOpens \/ OthersClose
    PROVE  EndpointsInv'
  <1> USE DEF EndpointsInv, EndpointsTypeOK, Registered, Holds, Unregistered, Session
  <1>1. CASE OtherOpens
    <2>1. Lowest \in Fds /\ holder[Lowest] = "free" /\ holder' = [holder EXCEPT ![Lowest] = "other"]
      BY <1>1, LowestIsFree DEF OtherOpens
    <2>2. UNCHANGED Session
      BY <1>1 DEF OtherOpens
    <2>3. Holds'
      BY <2>1, <2>2 DEF Kinds
    <2> QED BY <2>1, <2>2, <2>3
  <1>2. CASE OthersClose
    <2>1. PICK f \in Fds : holder[f] \in {"other", "loop"} /\ holder' = [holder EXCEPT ![f] = "free"]
      BY <1>2 DEF OthersClose
    <2>2. UNCHANGED Session
      BY <1>2 DEF OthersClose
    <2>3. Holds'
      BY <2>1, <2>2 DEF Kinds
    <2> QED BY <2>1, <2>2, <2>3
  <1> QED BY <1>1, <1>2

(* A descriptor or a registration of kind k is due while the session starts. *)
LEMMA DueIs ==
    ASSUME EndpointsInv, NEW k, Due(k)
    PROVE  k \in Kinds /\ endpoint[k] = 0 /\ life = -1
  BY NeedsAre DEF Due, Pending, Missing, EndpointsInv, EndpointsTypeOK, Starting

LEMMA OpensStep ==
    ASSUME EndpointsInv, NEW k, Opens(k)
    PROVE  EndpointsInv'
  <1>1. k \in Kinds /\ endpoint[k] = 0 /\ life = -1 /\ field[k] = 0
    BY DueIs DEF Opens
  <1>2. /\ endpoint' = endpoint /\ mode' = mode /\ authed' = authed /\ foul' = foul
        /\ life' \in {-1, 0, 1} /\ want' \in {want, "none"}
    BY <1>1 DEF Opens, Closed, Open
  <1>3. life' \in Starting .. Len(Ending) /\ want' \in DOMAIN Needs
    BY <1>2, EndingIs, NeedsAre DEF Starting, EndpointsInv, EndpointsTypeOK
  <1>4. Unregistered'
    BY <1>2 DEF Unregistered
  <1>5. CASE UNCHANGED <<holder, field>>
    BY <1>2, <1>3, <1>4, <1>5 DEF EndpointsInv, EndpointsTypeOK, Registered, Holds
  <1>6. CASE /\ HasFree /\ holder' = [holder EXCEPT ![Lowest] = k]
             /\ field' = [field EXCEPT ![k] = Lowest]
    <2>1. Lowest \in Fds /\ holder[Lowest] = "free" /\ Lowest \in 0 .. MaxFd
      BY <1>6, LowestIsFree DEF Fds
    <2>2. holder' \in [Fds -> Kinds \cup {"free", "loop", "other"}] /\ field' \in [Kinds -> 0 .. MaxFd]
      BY <1>1, <1>6, <2>1 DEF EndpointsInv, EndpointsTypeOK
    <2>3. EndpointsTypeOK'
      BY <1>2, <1>3, <2>2 DEF EndpointsInv, EndpointsTypeOK
    <2>4. Registered'
      BY <1>1, <1>2, <1>6 DEF EndpointsInv, EndpointsTypeOK, Registered
    <2>5. \A j \in Kinds : field'[j] # 0 => holder'[field'[j]] = j
      <3> SUFFICES ASSUME NEW j \in Kinds, field'[j] # 0 PROVE holder'[field'[j]] = j
        OBVIOUS
      <3>1. CASE j = k
        BY <1>1, <1>6, <2>1, <3>1 DEF EndpointsInv, EndpointsTypeOK
      <3>2. CASE j # k
        <4>1. field'[j] = field[j] /\ holder[field[j]] = j
          BY <1>1, <1>6, <3>2 DEF EndpointsInv, EndpointsTypeOK, Holds
        <4>2. field[j] # Lowest
          BY <2>1, <4>1 DEF Kinds
        <4>3. field[j] \in Fds
          BY <4>1, EndpointsAssumption DEF EndpointsInv, EndpointsTypeOK, Fds
        <4> QED BY <1>6, <2>1, <4>1, <4>2, <4>3 DEF EndpointsInv, EndpointsTypeOK
      <3> QED BY <3>1, <3>2
    <2>6. \A f \in Fds : holder'[f] \in Kinds => field'[holder'[f]] = f
      <3> SUFFICES ASSUME NEW f \in Fds, holder'[f] \in Kinds PROVE field'[holder'[f]] = f
        OBVIOUS
      <3>1. CASE f = Lowest
        BY <1>1, <1>6, <2>1, <3>1 DEF EndpointsInv, EndpointsTypeOK
      <3>2. CASE f # Lowest
        <4>1. holder'[f] = holder[f] /\ field[holder[f]] = f
          BY <1>6, <2>1, <3>2 DEF EndpointsInv, EndpointsTypeOK, Holds
        <4>2. holder[f] # k
          BY <1>1, <4>1 DEF Fds
        <4> QED BY <1>1, <1>6, <4>1, <4>2 DEF EndpointsInv, EndpointsTypeOK
      <3> QED BY <3>1, <3>2
    <2> QED BY <1>2, <1>4, <2>3, <2>4, <2>5, <2>6 DEF EndpointsInv, Holds
  <1> QED BY <1>5, <1>6 DEF Opens

LEMMA AddStep ==
    ASSUME EndpointsInv, NEW k, AddEndpoint(k)
    PROVE  EndpointsInv'
  <1>1. k \in Kinds /\ endpoint[k] = 0 /\ life = -1 /\ field[k] # 0 /\ Whose(field[k]) = k
    BY DueIs, WhoseIs DEF AddEndpoint, EndpointsInv
  <1>2. /\ mode' = mode /\ authed' = authed
        /\ life' \in {-1, 0, 1} /\ want' \in {want, "none"}
    BY <1>1 DEF AddEndpoint, Closed, Open
  <1>3. life' \in Starting .. Len(Ending) /\ want' \in DOMAIN Needs
    BY <1>2, EndingIs, NeedsAre DEF Starting, EndpointsInv, EndpointsTypeOK
  <1>4. Unregistered'
    BY <1>2 DEF Unregistered
  <1>5. CASE RegistrationFails(k)
    <2>1. /\ holder' \in [Fds -> Kinds \cup {"free", "loop", "other"}]
          /\ foul' = FALSE /\ Registered' /\ Holds'
      BY <1>1, <1>5, ClosesStep DEF RegistrationFails, EndpointsInv
    <2>2. field' \in [Kinds -> 0 .. MaxFd] /\ endpoint' = endpoint
      BY <1>1, <1>5, EndpointsAssumption DEF RegistrationFails, EndpointsInv, EndpointsTypeOK
    <2> QED BY <1>2, <1>3, <1>4, <2>1, <2>2 DEF EndpointsInv, EndpointsTypeOK
  <1>6. CASE endpoint' = [endpoint EXCEPT ![Whose(field[k])] = field[k]]
             /\ UNCHANGED <<holder, field, life, want, foul>>
    <2>1. endpoint' = [endpoint EXCEPT ![k] = field[k]]
      BY <1>1, <1>6
    <2>2. Registered' /\ Holds'
      BY <1>1, <1>6, <2>1 DEF EndpointsInv, EndpointsTypeOK, Registered, Holds
    <2> QED BY <1>1, <1>2, <1>3, <1>4, <1>6, <2>1, <2>2 DEF EndpointsInv, EndpointsTypeOK
  <1> QED BY <1>5, <1>6 DEF AddEndpoint

(* An endpoint of an open session closes: what is left is a session that      *)
(* goes on or one that ends.                                                 *)
LEMMA OpenClosedStep ==
    ASSUME EndpointsInv, NEW k \in Kinds, endpoint[k] # 0, HandleClosed(k),
           life' \in {0, 1}, want' \in DOMAIN Needs, mode' \in Modes \cup {"none"},
           authed' = authed
    PROVE  EndpointsInv'
  <1>1. /\ holder' \in [Fds -> Kinds \cup {"free", "loop", "other"}]
        /\ field' = [field EXCEPT ![k] = 0] /\ endpoint' = [endpoint EXCEPT ![k] = 0]
        /\ foul' = FALSE /\ Registered' /\ Holds'
    BY ClosedStep DEF EndpointsInv
  <1>2. field' \in [Kinds -> 0 .. MaxFd] /\ endpoint' \in [Kinds -> 0 .. MaxFd]
    BY <1>1, EndpointsAssumption DEF EndpointsInv, EndpointsTypeOK
  <1>3. Unregistered' /\ life' \in Starting .. Len(Ending)
    BY EndingIs DEF Unregistered, Starting
  <1> QED BY <1>1, <1>2, <1>3 DEF EndpointsInv, EndpointsTypeOK

(* A step that opens and closes nothing leaves the session open, starting or  *)
(* about to end.                                                             *)
LEMMA ModeStep ==
    ASSUME EndpointsInv, UNCHANGED <<holder, field, endpoint, authed, foul>>,
           life' \in {-1, 0, 1}, want' \in DOMAIN Needs, mode' \in Modes \cup {"none"}
    PROVE  EndpointsInv'
  <1>1. Unregistered' /\ life' \in Starting .. Len(Ending)
    BY EndingIs DEF Unregistered, Starting
  <1> QED BY <1>1 DEF EndpointsInv, EndpointsTypeOK, Registered, Holds

LEMMA OpenSessionStep ==
    ASSUME EndpointsInv,
           \/ \E m \in Modes \cup {"op"} : Start(m)
           \/ Started \/ \E m \in Modes : Request(m)
           \/ EndpointEnds \/ HandleStop \/ Session_Close
    PROVE  EndpointsInv'
  <1>1. ASSUME NEW m \in Modes \cup {"op"}, Start(m) PROVE EndpointsInv'
    BY <1>1, ModeStep, NeedsAre DEF Start, Starting, EndpointsInv, EndpointsTypeOK
  <1>2. CASE Started
    <2>1. want = "op" \/ want \in Modes \cup {"none"}
      BY NeedsAre DEF EndpointsInv, EndpointsTypeOK
    <2> QED BY <1>2, <2>1, ModeStep, NeedsAre DEF Started, Open, EndpointsInv, EndpointsTypeOK
  <1>3. ASSUME NEW m \in Modes, Request(m) PROVE EndpointsInv'
    <2>1. foul' = foul /\ life' \in {0, 1} /\ want' \in {want, "none"}
      BY <1>3 DEF Request, EnsureMode, Closed, Open, EndpointsInv, EndpointsTypeOK
    <2> QED BY <1>3, <2>1, ModeStep, NeedsAre DEF Request, EndpointsInv, EndpointsTypeOK
  <1>4. CASE EndpointEnds
    <2>1. PICK k \in Kinds : endpoint[k] # 0 /\ HandleClosed(k)
      BY <1>4 DEF EndpointEnds
    <2>2. life' \in {0, 1} /\ want' \in DOMAIN Needs /\ mode' = mode /\ authed' = authed
      BY <1>4, NeedsAre DEF EndpointEnds, Closed, Open, EndpointsInv, EndpointsTypeOK
    <2> QED BY <2>1, <2>2, OpenClosedStep DEF EndpointsInv, EndpointsTypeOK
  <1>5. CASE HandleStop
    <2>1. /\ life' \in {0, 1} /\ want' \in DOMAIN Needs /\ mode' \in Modes \cup {"none"}
          /\ authed' = authed /\ "pty" \in Kinds
      BY <1>5, NeedsAre DEF HandleStop, Closed, Open, EndpointsInv, EndpointsTypeOK, Kinds
    <2>2. CASE UNCHANGED <<holder, field, endpoint, foul>>
      BY <2>1, <2>2, ModeStep
    <2>3. CASE endpoint["pty"] # 0 /\ HandleClosed("pty")
      BY <2>1, <2>3, OpenClosedStep
    <2> QED BY <1>5, <2>2, <2>3 DEF HandleStop
  <1>6. CASE Session_Close
    BY <1>6, ModeStep, NeedsAre DEF Session_Close, Closed, EndpointsInv, EndpointsTypeOK
  <1> QED BY <1>1, <1>2, <1>3, <1>4, <1>5, <1>6

LEMMA DestroyStep ==
    ASSUME EndpointsInv, Session_Destroy
    PROVE  EndpointsInv'
  <1> DEFINE k == Ending[life]
  <1>1. /\ life \in 1 .. 6 /\ life' = life + 1 /\ UNCHANGED <<mode, want, authed>>
        /\ life' \in Starting .. Len(Ending)
    BY EndingIs DEF Session_Destroy, Starting
  <1>2. CASE k = "clear"
    <2>1. life = 6
      BY <1>1, <1>2, EndingIs
    <2>2. /\ holder' = [f \in Fds |-> IF \E j \in Kinds : field[j] = f THEN "free" ELSE holder[f]]
          /\ foul' = (foul \/ \E j \in Kinds : field[j] # 0 /\ holder[field[j]] # j)
          /\ field' = [j \in Kinds |-> 0] /\ endpoint' = endpoint
      BY <1>2 DEF Session_Destroy
    <2>3. foul' = FALSE
      BY <2>2 DEF EndpointsInv, Holds
    <2>4. \A j \in Kinds : endpoint[j] = 0
      BY <2>1, EndingIs DEF EndpointsInv, Unregistered, Kinds
    <2>5. \A f \in Fds : holder'[f] \notin Kinds
      BY <2>2 DEF EndpointsInv, Holds, Kinds
    <2>6. holder' \in [Fds -> Kinds \cup {"free", "loop", "other"}] /\ field' \in [Kinds -> 0 .. MaxFd]
      BY <2>2, EndpointsAssumption DEF EndpointsInv, EndpointsTypeOK
    <2>7. Unregistered'
      BY <1>1, <2>1, <2>2, <2>4, EndingIs DEF Unregistered, Kinds
    <2> QED BY <1>1, <2>2, <2>3, <2>4, <2>5, <2>6, <2>7
            DEF EndpointsInv, EndpointsTypeOK, Registered, Holds
  <1>3. CASE k # "clear"
    <2>1. life \in 1 .. 5 /\ k \in Kinds
      BY <1>1, <1>3, EndingIs DEF Kinds
    <2>2. CASE endpoint[k] # 0
      <3>1. HandleClosed(k)
        BY <1>3, <2>2 DEF Session_Destroy
      <3>2. /\ holder' \in [Fds -> Kinds \cup {"free", "loop", "other"}]
            /\ field' = [field EXCEPT ![k] = 0] /\ endpoint' = [endpoint EXCEPT ![k] = 0]
            /\ foul' = FALSE /\ Registered' /\ Holds'
        BY <2>1, <2>2, <3>1, ClosedStep DEF EndpointsInv
      <3>3. field' \in [Kinds -> 0 .. MaxFd] /\ endpoint' \in [Kinds -> 0 .. MaxFd]
        <4>1. /\ field \in [Kinds -> 0 .. MaxFd] /\ endpoint \in [Kinds -> 0 .. MaxFd]
              /\ 0 \in 0 .. MaxFd
          BY EndpointsAssumption DEF EndpointsInv, EndpointsTypeOK
        <4> QED BY <3>2, <4>1
      <3>4. Unregistered'
        BY <1>1, <2>1, <3>2, EndingIs DEF EndpointsInv, EndpointsTypeOK, Unregistered, Kinds
      <3> QED BY <1>1, <3>2, <3>3, <3>4 DEF EndpointsInv, EndpointsTypeOK
    <2>3. CASE endpoint[k] = 0
      <3>1. Unregistered' \/ endpoint' # endpoint
        BY <1>1, <2>1, <2>3, EndingIs DEF EndpointsInv, Unregistered
      <3>2. CASE k \in {"op", "pty"}
        <4>1. Closes(k) /\ field' = [field EXCEPT ![k] = 0] /\ endpoint' = endpoint
          BY <1>3, <2>3, <3>2 DEF Session_Destroy
        <4>2. /\ holder' \in [Fds -> Kinds \cup {"free", "loop", "other"}]
              /\ foul' = FALSE /\ Registered' /\ Holds'
          BY <2>1, <2>3, <4>1, ClosesStep DEF EndpointsInv
        <4>3. field' \in [Kinds -> 0 .. MaxFd]
          <5>1. field \in [Kinds -> 0 .. MaxFd] /\ 0 \in 0 .. MaxFd
            BY EndpointsAssumption DEF EndpointsInv, EndpointsTypeOK
          <5> QED BY <4>1, <5>1
        <4> QED BY <1>1, <3>1, <4>1, <4>2, <4>3 DEF EndpointsInv, EndpointsTypeOK
      <3>3. CASE k \notin {"op", "pty"}
        <4>1. UNCHANGED <<holder, field, endpoint, foul>>
          BY <1>3, <2>3, <3>3 DEF Session_Destroy
        <4> QED BY <1>1, <3>1, <4>1 DEF EndpointsInv, EndpointsTypeOK, Registered, Holds
      <3> QED BY <3>2, <3>3
    <2> QED BY <2>2, <2>3
  <1> QED BY <1>2, <1>3

LEMMA EndpointsStepHolds == EndpointsInv /\ [EndpointsNext]_epVars => EndpointsInv'
  <1> SUFFICES ASSUME EndpointsInv, [EndpointsNext]_epVars PROVE EndpointsInv'
    OBVIOUS
  <1>1. CASE UNCHANGED epVars
    BY <1>1 DEF epVars, EndpointsInv, EndpointsTypeOK, Registered, Holds, Unregistered
  <1> QED
    BY <1>1, OthersStep, OpensStep, AddStep, OpenSessionStep, DestroyStep DEF EndpointsNext

LEMMA EndpointsInvariance == EndpointsSpec => []EndpointsInv
  BY EndpointsInitHolds, EndpointsStepHolds, PTL DEF EndpointsSpec

-----------------------------------------------------------------------------

(* For any number of descriptors and of threads that open them: nobody       *)
(* closes a descriptor he does not hold, what is registered is what the      *)
(* session names, no handler goes on with a freed session, and a session     *)
(* that is gone leaves nothing open (HandleClosed, AddEndpoint and           *)
(* DirectGate_Session_Destroy).                                              *)
THEOREM DescriptorsHold == EndpointsSpec => []DescriptorsAreOurs
  <1>1. EndpointsInv => DescriptorsAreOurs
    <2> SUFFICES ASSUME EndpointsInv PROVE DescriptorsAreOurs
      OBVIOUS
    <2>1. foul = FALSE /\ Registered /\ \A k \in Kinds : field[k] # 0 => holder[field[k]] = k
      BY DEF EndpointsInv, Holds
    <2>2. ASSUME life = 7, NEW f \in Fds PROVE holder[f] \notin Kinds
      BY <2>2 DEF EndpointsInv, Holds, Unregistered, Fds
    <2> QED BY <2>1, <2>2, EndingIs DEF Registered, DescriptorsAreOurs
  <1> QED BY <1>1, EndpointsInvariance, PTL

-----------------------------------------------------------------------------
(* The search worker.                                                       *)

Notes == [kind : Words \cup {"match"}, id : 0 .. MaxSearches, n : 0 .. Matches]
Events == [kind : Words \cup {"match"}, n : 0 .. Matches]

SearchTyped ==
    /\ search \in [id : 0 .. MaxSearches, running : BOOLEAN, cancel : BOOLEAN,
                   stop : BOOLEAN, q : Seq(Events)]
    /\ worker \in [pc : {"none", "walk", "offer", "tell", "decide", "end", "bye", "exited"},
                   bad : BOOLEAN, found : 0 .. Matches, word : Words]
    /\ pipe \in [byte : BOOLEAN, rd : BOOLEAN, wr : BOOLEAN]
    /\ loop \in [pc : {"idle", "process", "checked", "join"},
                 then : {"idle", "start", "processed", "clear"}, batch : Seq(Notes), broken : BOOLEAN]
    /\ told \in Seq(Notes)
    /\ sess \in {"open", "closing", "closed"}
    /\ tries \in [asks : 0 .. MaxSearches, reset : 0 .. MaxSearches, breaks : 0 .. MaxBreaks]

Working == worker.pc \in {"walk", "offer", "tell", "decide", "end"}
Going == pipe.rd /\ ~loop.broken

(* The worker's word is "ok" only at the end of the walk, or to be replaced. *)
WordHolds ==
    /\ search.stop => search.cancel
    /\ worker.pc = "decide" /\ worker.word = "ok" => worker.found = Matches \/ search.cancel
    /\ worker.pc = "end" /\ worker.word = "ok" => worker.found = Matches

(* The batch and the descriptors belong to what the loop is at.              *)
LoopHolds ==
    /\ loop.pc = "process" => Going
    /\ loop.batch # <<>> => loop.pc = "process"
    /\ loop.broken => loop.pc = "checked" \/ (loop.pc = "join" /\ loop.then = "processed")
    /\ search.id <= tries.asks
    /\ loop.pc = "join" /\ loop.then = "start" => search.id < tries.asks
    /\ Len(search.q) <= IF Working THEN QueueEvents ELSE QueueEvents + 1

(* The same of any sequence of notes as ToldInOrder says of told; and one    *)
(* that ends in the first a matches of the search s, its latest.              *)
Ordered(t) ==
    \A j \in DOMAIN t :
       LET before == {i \in 1 .. j - 1 : t[i].id = t[j].id} IN
       /\ \A i \in before : t[i].kind = "match"
       /\ t[j].kind = "match" => t[j].n > 0 /\ {t[i].n : i \in before} = 1 .. t[j].n - 1
       /\ t[j].kind = "ok" => {t[i].n : i \in before} = 1 .. Matches
       /\ \A i \in 1 .. j - 1 : t[i].id <= t[j].id
Latest(t, s) == t \in Seq(Notes) /\ Ordered(t) /\ \A i \in DOMAIN t : t[i].id <= s
Sent(t, s, a) ==
    /\ Latest(t, s)
    /\ \A i \in DOMAIN t : t[i].id = s => t[i].kind = "match"
    /\ {t[i].n : i \in {j \in DOMAIN t : t[j].id = s}} = 1 .. a

(* What was told of the current search, the batch, the queue and the match   *)
(* the worker is offering follow on one another: a matches were told.        *)
Queued ==
    \/ worker.pc \in {"walk", "tell"}
    \/ worker.pc \in {"decide", "end"} /\ worker.word = "ok"
Stream(a) ==
    /\ Sent(told, search.id, a)
    /\ \A i \in DOMAIN loop.batch :
          loop.batch[i] = [kind |-> "match", id |-> search.id, n |-> a + i]
    /\ \A i \in DOMAIN search.q :
          IF search.q[i].kind = "match" THEN search.q[i].n = a + Len(loop.batch) + i
          ELSE /\ i = Len(search.q) /\ ~Working
               /\ search.q[i].kind = "ok" => a + Len(loop.batch) + i = Matches + 1
    /\ Queued => a + Len(loop.batch) + Len(search.q) = worker.found
    /\ worker.pc = "offer" => a + Len(loop.batch) + Len(search.q) + 1 = worker.found
Told == loop.batch = <<>> /\ search.q = <<>> /\ ~Working

SearchInv ==
    /\ SearchTyped /\ WordHolds /\ LoopHolds
    /\ Latest(told, search.id)
    /\ Going => Told \/ \E a \in 0 .. Matches : Stream(a)

-----------------------------------------------------------------------------

LEMMA Concatenated ==
    ASSUME NEW S, NEW t \in Seq(S), NEW b \in Seq(S)
    PROVE  /\ t \o b \in Seq(S) /\ Len(t \o b) = Len(t) + Len(b)
           /\ Len(t) \in Nat /\ Len(b) \in Nat
           /\ DOMAIN (t \o b) = 1 .. Len(t) + Len(b) /\ DOMAIN t = 1 .. Len(t)
           /\ DOMAIN b = 1 .. Len(b)
           /\ \A i \in 1 .. Len(t) : (t \o b)[i] = t[i]
           /\ \A i \in 1 .. Len(b) : (t \o b)[Len(t) + i] = b[i]
  <1>1. /\ t \o b \in Seq(S) /\ Len(t \o b) = Len(t) + Len(b)
        /\ \A i \in 1 .. Len(t) + Len(b) :
              (t \o b)[i] = IF i <= Len(t) THEN t[i] ELSE b[i - Len(t)]
    BY ConcatProperties
  <1>2. Len(t) \in Nat /\ Len(b) \in Nat /\ DOMAIN t = 1 .. Len(t) /\ DOMAIN b = 1 .. Len(b)
    BY LenProperties
  <1>3. DOMAIN (t \o b) = 1 .. Len(t) + Len(b)
    BY <1>1, LenProperties
  <1>4. ASSUME NEW i \in 1 .. Len(t) PROVE (t \o b)[i] = t[i]
    BY <1>1, <1>2
  <1>5. ASSUME NEW i \in 1 .. Len(b) PROVE (t \o b)[Len(t) + i] = b[i]
    <2>1. Len(t) + i \in 1 .. Len(t) + Len(b) /\ ~(Len(t) + i <= Len(t)) /\ Len(t) + i - Len(t) = i
      BY <1>2
    <2> QED BY <1>1, <2>1
  <1> QED BY <1>1, <1>2, <1>3, <1>4, <1>5

(* A batch goes out behind the matches that were told.                       *)
LEMMA BatchSent ==
    ASSUME NEW t, NEW s \in Nat, NEW a \in Nat, Sent(t, s, a),
           NEW b \in Seq(Notes),
           \A i \in DOMAIN b : b[i] = [kind |-> "match", id |-> s, n |-> a + i]
    PROVE  Sent(t \o b, s, a + Len(b))
  <1> DEFINE u == t \o b  m == Len(t)
  <1>1. /\ u \in Seq(Notes) /\ m \in Nat /\ Len(b) \in Nat
        /\ DOMAIN u = 1 .. m + Len(b) /\ DOMAIN t = 1 .. m /\ DOMAIN b = 1 .. Len(b)
        /\ \A i \in 1 .. m : u[i] = t[i]
        /\ \A i \in 1 .. Len(b) : u[m + i] = b[i]
    BY Concatenated DEF Sent, Latest
  <1> HIDE DEF u, m
  <1>2. ASSUME NEW i \in 1 .. Len(b)
        PROVE  u[m + i].kind = "match" /\ u[m + i].id = s /\ u[m + i].n = a + i
    <2>1. u[m + i] = b[i] /\ b[i] = [kind |-> "match", id |-> s, n |-> a + i]
      BY <1>1
    <2> QED BY <2>1
  <1>3. \A j \in 1 .. m : {i \in 1 .. j - 1 : u[i].id = u[j].id} = {i \in 1 .. j - 1 : t[i].id = t[j].id}
    BY <1>1
  <1>8. \A i \in 1 .. m : t[i].id <= s
    BY <1>1 DEF Sent, Latest
  <1>9. ASSUME NEW j \in 1 .. m + Len(b), ~(j <= m) PROVE \E p \in 1 .. Len(b) : j = m + p
    <2>1. j - m \in 1 .. Len(b) /\ j = m + (j - m)
      BY <1>1, <1>9
    <2> QED BY <2>1
  <1>4. ASSUME NEW j \in 1 .. Len(b)
        PROVE  {u[i].n : i \in {k \in 1 .. (m + j) - 1 : u[k].id = s}} = 1 .. a + j - 1
    <2> DEFINE before == {k \in 1 .. (m + j) - 1 : u[k].id = s}
    <2>1. {t[i].n : i \in {k \in 1 .. m : t[k].id = s}} = 1 .. a
      BY <1>1 DEF Sent
    <2>2. ASSUME NEW i \in before PROVE u[i].n \in 1 .. a + j - 1
      <3>1. CASE i <= m
        <4>1. i \in 1 .. m /\ t[i].id = s /\ u[i].n = t[i].n
          BY <1>1, <3>1
        <4>2. t[i].n \in 1 .. a
          BY <2>1, <4>1
        <4> QED BY <1>1, <4>1, <4>2
      <3>2. CASE ~(i <= m)
        <4>1. PICK p \in 1 .. Len(b) : i = m + p /\ p < j
          BY <1>1, <1>9, <3>2
        <4>2. u[i].n = a + p
          BY <1>2, <4>1
        <4> QED BY <4>1, <4>2
      <3> QED BY <3>1, <3>2
    <2>3. ASSUME NEW v \in 1 .. a + j - 1 PROVE \E i \in before : u[i].n = v
      <3>1. CASE v <= a
        <4>1. PICK i \in 1 .. m : t[i].id = s /\ t[i].n = v
          BY <2>1, <3>1
        <4> QED BY <1>1, <4>1
      <3>2. CASE ~(v <= a)
        <4>1. v - a \in 1 .. j - 1 /\ v = a + (v - a)
          BY <3>2
        <4>2. m + (v - a) \in 1 .. (m + j) - 1 /\ v - a \in 1 .. Len(b)
          BY <1>1, <4>1
        <4> QED BY <1>2, <4>1, <4>2
      <3> QED BY <3>1, <3>2
    <2> QED BY <2>2, <2>3
  <1>5. ASSUME NEW j \in DOMAIN u
        PROVE  /\ \A i \in {k \in 1 .. j - 1 : u[k].id = u[j].id} : u[i].kind = "match"
               /\ u[j].kind = "match" =>
                     /\ u[j].n > 0
                     /\ {u[i].n : i \in {k \in 1 .. j - 1 : u[k].id = u[j].id}} = 1 .. u[j].n - 1
               /\ u[j].kind = "ok" =>
                     {u[i].n : i \in {k \in 1 .. j - 1 : u[k].id = u[j].id}} = 1 .. Matches
               /\ \A i \in 1 .. j - 1 : u[i].id <= u[j].id
    <2>1. CASE j <= m
      <3>1. j \in 1 .. m /\ u[j] = t[j] /\ \A i \in 1 .. j - 1 : u[i] = t[i]
        BY <1>1, <2>1
      <3>2. /\ \A i \in {k \in 1 .. j - 1 : t[k].id = t[j].id} : t[i].kind = "match"
            /\ t[j].kind = "match" =>
                  /\ t[j].n > 0
                  /\ {t[i].n : i \in {k \in 1 .. j - 1 : t[k].id = t[j].id}} = 1 .. t[j].n - 1
            /\ t[j].kind = "ok" =>
                  {t[i].n : i \in {k \in 1 .. j - 1 : t[k].id = t[j].id}} = 1 .. Matches
            /\ \A i \in 1 .. j - 1 : t[i].id <= t[j].id
        BY <1>1, <3>1 DEF Sent, Latest, Ordered
      <3>3. {u[i].n : i \in {k \in 1 .. j - 1 : u[k].id = u[j].id}}
             = {t[i].n : i \in {k \in 1 .. j - 1 : t[k].id = t[j].id}}
        BY <3>1
      <3> QED BY <3>1, <3>2, <3>3
    <2>2. CASE ~(j <= m)
      <3>1. PICK p \in 1 .. Len(b) : j = m + p
        BY <1>1, <1>9, <2>2
      <3>2. u[j].kind = "match" /\ u[j].id = s /\ u[j].n = a + p
        BY <1>2, <3>1
      <3>3. {u[i].n : i \in {k \in 1 .. j - 1 : u[k].id = u[j].id}} = 1 .. u[j].n - 1
        BY <1>4, <3>1, <3>2
      <3>4. ASSUME NEW i \in 1 .. j - 1
            PROVE  u[i].id <= s /\ (u[i].id = s => u[i].kind = "match")
        <4>1. CASE i <= m
          <5>1. i \in 1 .. m /\ u[i] = t[i]
            BY <1>1, <4>1
          <5> QED BY <1>1, <1>8, <5>1 DEF Sent
        <4>2. CASE ~(i <= m)
          <5>1. \E q \in 1 .. Len(b) : i = m + q
            BY <1>1, <1>9, <3>1, <4>2
          <5> QED BY <1>2, <5>1
        <4> QED BY <4>1, <4>2
      <3>5. u[j].n > 0 /\ u[j].kind # "ok"
        BY <3>1, <3>2
      <3> QED BY <3>2, <3>3, <3>4, <3>5
    <2> QED BY <2>1, <2>2
  <1>6. ASSUME NEW i \in DOMAIN u
        PROVE  u[i].id <= s /\ (u[i].id = s => u[i].kind = "match")
    <2>1. CASE i <= m
      <3>1. i \in 1 .. m /\ u[i] = t[i]
        BY <1>1, <2>1
      <3> QED BY <1>1, <1>8, <3>1 DEF Sent
    <2>2. CASE ~(i <= m)
      <3>1. \E p \in 1 .. Len(b) : i = m + p
        BY <1>1, <1>9, <2>2
      <3> QED BY <1>2, <3>1
    <2> QED BY <2>1, <2>2
  <1>7. {u[i].n : i \in {k \in DOMAIN u : u[k].id = s}} = 1 .. a + Len(b)
    <2>1. {t[i].n : i \in {k \in 1 .. m : t[k].id = s}} = 1 .. a
      BY <1>1 DEF Sent
    <2>2. ASSUME NEW i \in DOMAIN u, u[i].id = s PROVE u[i].n \in 1 .. a + Len(b)
      <3>1. CASE i <= m
        <4>1. i \in 1 .. m /\ t[i].id = s /\ u[i].n = t[i].n
          BY <1>1, <2>2, <3>1
        <4>2. t[i].n \in 1 .. a
          BY <2>1, <4>1
        <4> QED BY <1>1, <4>1, <4>2
      <3>2. CASE ~(i <= m)
        <4>1. PICK p \in 1 .. Len(b) : i = m + p
          BY <1>1, <1>9, <3>2
        <4>2. u[i].n = a + p
          BY <1>2, <4>1
        <4> QED BY <1>1, <4>1, <4>2
      <3> QED BY <3>1, <3>2
    <2>3. ASSUME NEW v \in 1 .. a + Len(b) PROVE \E i \in DOMAIN u : u[i].id = s /\ u[i].n = v
      <3>1. CASE v <= a
        <4>1. v \in 1 .. a
          BY <1>1, <3>1
        <4>2. PICK i \in 1 .. m : t[i].id = s /\ t[i].n = v
          BY <2>1, <4>1
        <4>3. i \in DOMAIN u /\ u[i] = t[i]
          BY <1>1
        <4> QED BY <4>2, <4>3
      <3>2. CASE ~(v <= a)
        <4>1. v - a \in 1 .. Len(b) /\ v = a + (v - a)
          BY <1>1, <3>2
        <4>2. m + (v - a) \in DOMAIN u
          BY <1>1, <4>1
        <4>3. u[m + (v - a)].id = s /\ u[m + (v - a)].n = v
          BY <1>2, <4>1
        <4> QED BY <4>2, <4>3
      <3> QED BY <3>1, <3>2
    <2> QED BY <2>2, <2>3
  <1> QED BY <1>1, <1>5, <1>6, <1>7 DEF Sent, Latest, Ordered, u

(* The final word goes out behind all that was found.                        *)
LEMMA WordSent ==
    ASSUME NEW t, NEW s \in Nat, NEW a \in Nat, Sent(t, s, a),
           NEW w \in Notes, w.id = s, w.kind \in Words, w.kind = "ok" => a = Matches
    PROVE  Latest(t \o <<w>>, s)
  <1> DEFINE u == t \o <<w>>  m == Len(t)
  <1>1. <<w>> \in Seq(Notes) /\ Len(<<w>>) = 1
    OBVIOUS
  <1>2. /\ u \in Seq(Notes) /\ m \in Nat
        /\ DOMAIN u = 1 .. m + 1 /\ DOMAIN t = 1 .. m
        /\ \A i \in 1 .. m : u[i] = t[i]
        /\ u[m + 1] = w
    BY <1>1, Concatenated DEF Sent, Latest
  <1> HIDE DEF u, m
  <1>3. ASSUME NEW j \in 1 .. m
        PROVE  /\ \A i \in {k \in 1 .. j - 1 : u[k].id = u[j].id} : u[i].kind = "match"
               /\ u[j].kind = "match" =>
                     /\ u[j].n > 0
                     /\ {u[i].n : i \in {k \in 1 .. j - 1 : u[k].id = u[j].id}} = 1 .. u[j].n - 1
               /\ u[j].kind = "ok" =>
                     {u[i].n : i \in {k \in 1 .. j - 1 : u[k].id = u[j].id}} = 1 .. Matches
               /\ \A i \in 1 .. j - 1 : u[i].id <= u[j].id
    <2>1. u[j] = t[j] /\ \A i \in 1 .. j - 1 : u[i] = t[i]
      BY <1>2
    <2>2. /\ \A i \in {k \in 1 .. j - 1 : t[k].id = t[j].id} : t[i].kind = "match"
          /\ t[j].kind = "match" =>
                /\ t[j].n > 0
                /\ {t[i].n : i \in {k \in 1 .. j - 1 : t[k].id = t[j].id}} = 1 .. t[j].n - 1
          /\ t[j].kind = "ok" =>
                {t[i].n : i \in {k \in 1 .. j - 1 : t[k].id = t[j].id}} = 1 .. Matches
          /\ \A i \in 1 .. j - 1 : t[i].id <= t[j].id
      BY <1>2 DEF Sent, Latest, Ordered
    <2>3. {u[i].n : i \in {k \in 1 .. j - 1 : u[k].id = u[j].id}}
           = {t[i].n : i \in {k \in 1 .. j - 1 : t[k].id = t[j].id}}
      BY <2>1
    <2> QED BY <2>1, <2>2, <2>3
  <1>4. /\ \A i \in 1 .. m : u[i].id <= s /\ (u[i].id = s => u[i].kind = "match")
        /\ {u[i].n : i \in {k \in 1 .. m : u[k].id = s}} = 1 .. a
    BY <1>2 DEF Sent, Latest
  <1>5. w.kind # "match" /\ (m + 1) - 1 = m
    BY <1>2 DEF Words
  <1>6. /\ \A i \in {k \in 1 .. (m + 1) - 1 : u[k].id = u[m + 1].id} : u[i].kind = "match"
        /\ u[m + 1].kind # "match"
        /\ u[m + 1].kind = "ok" =>
              {u[i].n : i \in {k \in 1 .. (m + 1) - 1 : u[k].id = u[m + 1].id}} = 1 .. Matches
        /\ \A i \in 1 .. (m + 1) - 1 : u[i].id <= u[m + 1].id
    BY <1>2, <1>4, <1>5
  <1>7. Ordered(u)
    BY <1>2, <1>3, <1>6 DEF Ordered
  <1>8. \A i \in DOMAIN u : u[i].id <= s
    BY <1>2, <1>4
  <1> QED BY <1>2, <1>7, <1>8 DEF Latest, u

LEMMA SearchInitHolds == SearchInit => SearchInv
  <1> SUFFICES ASSUME SearchInit PROVE SearchInv
    OBVIOUS
  <1>1. SearchTyped
    <2>1. 0 \in 0 .. MaxSearches /\ 0 \in 0 .. Matches /\ 0 \in 0 .. MaxBreaks
      BY SearchAssumption
    <2> QED BY <2>1 DEF SearchInit, SearchTyped, NoWorker, NotBusy, Words
  <1>2. WordHolds /\ LoopHolds /\ Told
    BY SearchAssumption
       DEF SearchInit, WordHolds, LoopHolds, Told, NoWorker, NotBusy, Working, Going
  <1>3. Latest(told, search.id)
    <2>1. told = <<>> /\ told \in Seq(Notes) /\ DOMAIN told = {}
      BY DEF SearchInit
    <2> QED BY <2>1 DEF Latest, Ordered
  <1> QED BY <1>1, <1>2, <1>3 DEF SearchInv

(* A step of the worker that leaves the queue as it is.                      *)
LEMMA QuietStep ==
    ASSUME SearchInv, SearchTyped', WordHolds',
           UNCHANGED <<search, loop, told>>, pipe'.rd = pipe.rd, tries'.asks = tries.asks,
           Working' => Working,
           Queued' => Queued /\ worker'.found = worker.found,
           worker'.pc = "offer" =>
              IF worker.pc = "offer" THEN worker'.found = worker.found
              ELSE Queued /\ worker'.found = worker.found + 1
    PROVE  SearchInv'
  <1>1. LoopHolds'
    <2>1. Len(search'.q) <= IF Working' THEN QueueEvents ELSE QueueEvents + 1
      BY SearchAssumption, LenProperties DEF SearchInv, SearchTyped, LoopHolds
    <2> QED BY <2>1 DEF SearchInv, LoopHolds, Going
  <1>2. Latest(told, search.id)'
    BY DEF SearchInv, Latest, Ordered
  <1>3. Told => Told'
    BY DEF Told
  <1>4. ASSUME NEW a \in 0 .. Matches, Stream(a) PROVE Stream(a)'
    <2>1. /\ loop'.batch \in Seq(Notes) /\ search'.q \in Seq(Events) /\ Len(loop.batch) \in Nat
          /\ Len(search.q) \in Nat /\ a \in Nat
      BY SearchAssumption, LenProperties DEF SearchTyped
    <2>3. told' = told /\ search'.id = search.id /\ Sent(told, search.id, a)
      BY <1>4 DEF Stream
    <2>2. Sent(told, search.id, a)'
      BY <2>3 DEF Sent, Latest, Ordered
    <2> QED BY <1>4, <2>1, <2>2 DEF Stream
  <1> QED BY <1>1, <1>2, <1>3, <1>4 DEF SearchInv, Going

LEMMA WalkStep == ASSUME SearchInv, Walk PROVE SearchInv'
  <1>1. worker.found \in 0 .. Matches /\ Matches \in Nat
    BY SearchAssumption DEF SearchInv, SearchTyped
  <1>2. SearchTyped'
    <2>1. worker' \in [pc : {"none", "walk", "offer", "tell", "decide", "end", "bye", "exited"},
                       bad : BOOLEAN, found : 0 .. Matches, word : Words]
      <3>1. /\ worker \in [pc : {"none", "walk", "offer", "tell", "decide", "end", "bye", "exited"},
                            bad : BOOLEAN, found : 0 .. Matches, word : Words]
            /\ "failed" \in Words
        BY DEF SearchInv, SearchTyped, Words
      <3>2. worker.found < Matches => worker.found + 1 \in 0 .. Matches
        BY <1>1
      <3> QED BY <3>1, <3>2 DEF Walk
    <2>2. tries' \in [asks : 0 .. MaxSearches, reset : 0 .. MaxSearches, breaks : 0 .. MaxBreaks]
      BY SearchAssumption DEF SearchInv, SearchTyped, Walk, SpendBreak
    <2> QED BY <2>1, <2>2 DEF SearchInv, SearchTyped, Walk, WorkerOnly
  <1>3. WordHolds'
    BY <1>1 DEF SearchInv, SearchTyped, WordHolds, Walk
  <1>4. tries'.asks = tries.asks
    BY DEF SearchInv, SearchTyped, Walk, SpendBreak
  <1>5. /\ Working' => Working
        /\ Queued' => Queued /\ worker'.found = worker.found
        /\ worker'.pc = "offer" => Queued /\ worker.pc # "offer" /\ worker'.found = worker.found + 1
    BY DEF SearchInv, SearchTyped, Walk, Working, Queued
  <1> QED BY <1>2, <1>3, <1>4, <1>5, QuietStep DEF Walk, WorkerOnly

(* A step of the worker puts an event at the end of the queue.               *)
LEMMA QueueStep ==
    ASSUME SearchInv, Working, NEW e \in Events,
           search' = [search EXCEPT !.q = Append(@, e), !.running = search'.running],
           search'.running \in BOOLEAN,
           UNCHANGED <<loop, told, sess, tries>>, pipe' = pipe,
           worker' \in [pc : {"none", "walk", "offer", "tell", "decide", "end", "bye", "exited"},
                        bad : BOOLEAN, found : 0 .. Matches, word : Words],
           worker'.found = worker.found,
           \/ /\ worker.pc = "offer" /\ worker'.pc = "tell" /\ e.kind = "match"
              /\ e.n = worker.found /\ Len(search.q) < QueueEvents
           \/ worker.pc = "end" /\ worker'.pc = "bye" /\ e.kind = worker.word
    PROVE  SearchInv'
  <1>1. /\ search.q \in Seq(Events) /\ Len(search.q) \in Nat /\ loop.batch \in Seq(Notes)
        /\ Len(loop.batch) \in Nat /\ worker.found \in Nat
        /\ DOMAIN search.q = 1 .. Len(search.q)
    BY SearchAssumption, LenProperties DEF SearchInv, SearchTyped
  <1>2. /\ search'.q = Append(search.q, e) /\ search'.id = search.id
        /\ search'.stop = search.stop /\ search'.cancel = search.cancel
    BY DEF SearchInv, SearchTyped
  <1>3. /\ search'.q \in Seq(Events) /\ Len(search'.q) = Len(search.q) + 1
        /\ DOMAIN search'.q = 1 .. Len(search.q) + 1
        /\ \A i \in 1 .. Len(search.q) : search'.q[i] = search.q[i]
        /\ search'.q[Len(search.q) + 1] = e
    BY <1>1, <1>2, AppendProperties, LenProperties
  <1>4. SearchTyped'
    BY <1>3 DEF SearchInv, SearchTyped
  <1>5. WordHolds'
    BY <1>2 DEF SearchInv, WordHolds
  <1>6. LoopHolds'
    <2>1. Len(search'.q) <= IF Working' THEN QueueEvents ELSE QueueEvents + 1
      BY <1>1, <1>3, SearchAssumption DEF SearchInv, LoopHolds, Working
    <2> QED BY <1>2, <2>1 DEF SearchInv, LoopHolds, Going
  <1>7. Latest(told, search.id)'
    BY <1>2 DEF SearchInv, Latest, Ordered
  <1>8. ASSUME NEW a \in 0 .. Matches, Stream(a) PROVE Stream(a)'
    <2>1. Sent(told, search.id, a)'
      BY <1>2, <1>8 DEF Stream, Sent, Latest, Ordered
    <2>2. a \in Nat /\ loop'.batch = loop.batch
      BY SearchAssumption
    <2>3. ASSUME NEW i \in 1 .. Len(search.q)
          PROVE  search'.q[i].kind = "match" /\ search'.q[i].n = a + Len(loop.batch) + i
      BY <1>1, <1>3, <1>8 DEF Stream
    <2>4. e.kind = "match" => e.n = a + Len(loop.batch) + (Len(search.q) + 1)
      <3>1. e.kind = "match" => worker.pc = "offer" /\ e.n = worker.found
        BY DEF SearchInv, SearchTyped, Words
      <3>2. worker.pc = "offer" => a + Len(loop.batch) + Len(search.q) + 1 = worker.found
        BY <1>8 DEF Stream
      <3> QED BY <1>1, <2>2, <3>1, <3>2
    <2>5. e.kind # "match" =>
            /\ ~Working'
            /\ e.kind = "ok" => a + Len(loop.batch) + (Len(search.q) + 1) = Matches + 1
      <3>1. e.kind # "match" => worker.pc = "end" /\ worker'.pc = "bye" /\ e.kind = worker.word
        OBVIOUS
      <3>2. worker.pc = "end" /\ worker.word = "ok" =>
               worker.found = Matches /\ a + Len(loop.batch) + Len(search.q) = worker.found
        BY <1>8 DEF SearchInv, WordHolds, Stream, Queued
      <3>3. worker.pc = "end" /\ worker.word = "ok" =>
               a + Len(loop.batch) + (Len(search.q) + 1) = Matches + 1
        <4> DEFINE b == Len(loop.batch)  c == Len(search.q)  f == worker.found
        <4>1. a \in Nat /\ b \in Nat /\ c \in Nat /\ f \in Nat
          BY <1>1, <2>2
        <4>2. worker.pc = "end" /\ worker.word = "ok" => f = Matches /\ a + b + c = f
          BY <3>2
        <4> HIDE DEF b, c, f
        <4>3. a + b + c = f => a + b + (c + 1) = f + 1
          BY <4>1
        <4>4. worker.pc = "end" /\ worker.word = "ok" => a + b + (c + 1) = Matches + 1
          BY <4>2, <4>3
        <4> QED BY <4>4 DEF b, c
      <3>4. worker'.pc = "bye" => ~Working'
        BY DEF Working
      <3> QED BY <3>1, <3>3, <3>4
    <2>6. \A i \in DOMAIN search'.q :
            IF search'.q[i].kind = "match" THEN search'.q[i].n = a + Len(loop'.batch) + i
            ELSE /\ i = Len(search'.q) /\ ~Working'
                 /\ search'.q[i].kind = "ok" => a + Len(loop'.batch) + i = Matches + 1
      <3> SUFFICES ASSUME NEW i \in 1 .. Len(search.q) + 1
          PROVE  IF search'.q[i].kind = "match" THEN search'.q[i].n = a + Len(loop'.batch) + i
                 ELSE /\ i = Len(search'.q) /\ ~Working'
                      /\ search'.q[i].kind = "ok" => a + Len(loop'.batch) + i = Matches + 1
        BY <1>3
      <3>1. CASE i = Len(search.q) + 1
        BY <1>3, <2>2, <2>4, <2>5, <3>1
      <3>2. CASE i \in 1 .. Len(search.q)
        BY <2>2, <2>3, <3>2
      <3> QED BY <1>1, <3>1, <3>2
    <2>7. Queued' => a + Len(loop'.batch) + Len(search'.q) = worker'.found
      <3>1. Queued' => worker.pc = "offer"
        BY DEF Queued
      <3>2. worker.pc = "offer" => a + Len(loop.batch) + Len(search.q) + 1 = worker.found
        BY <1>8 DEF Stream
      <3> DEFINE b == Len(loop.batch)  c == Len(search.q)  f == worker.found
      <3>3. a \in Nat /\ b \in Nat /\ c \in Nat /\ f \in Nat
        BY <1>1, <2>2
      <3>4. Len(loop'.batch) = b /\ Len(search'.q) = c + 1 /\ worker'.found = f
        BY <1>3, <2>2
      <3>5. Queued' => a + b + c + 1 = f
        BY <3>1, <3>2
      <3> HIDE DEF b, c, f
      <3> QED BY <3>3, <3>4, <3>5
    <2>8. worker'.pc # "offer"
      OBVIOUS
    <2>9. \A i \in DOMAIN loop'.batch :
            loop'.batch[i] = [kind |-> "match", id |-> search'.id, n |-> a + i]
      BY <1>2, <1>8, <2>2 DEF Stream
    <2> QED BY <2>1, <2>6, <2>7, <2>8, <2>9 DEF Stream
  <1>9. Going' = Going /\ ~Told
    BY DEF Going, Told
  <1> QED BY <1>4, <1>5, <1>6, <1>7, <1>8, <1>9 DEF SearchInv

LEMMA WorkerStep == ASSUME SearchInv, Worker PROVE SearchInv'
  <1>1. CASE QueueEntry
    <2>1. CASE /\ Len(search.q) < QueueEvents
               /\ search' = [search EXCEPT !.q = Append(@, [kind |-> "match", n |-> worker.found])]
               /\ worker' = [worker EXCEPT !.pc = "tell"] /\ UNCHANGED pipe
      <3> DEFINE e == [kind |-> "match", n |-> worker.found]
      <3>1. e \in Events
        BY DEF SearchInv, SearchTyped, Events
      <3>2. /\ search' = [search EXCEPT !.q = Append(@, e), !.running = search'.running]
            /\ search'.running \in BOOLEAN
        BY <2>1 DEF SearchInv, SearchTyped
      <3>3. /\ worker' \in [pc : {"none", "walk", "offer", "tell", "decide", "end", "bye", "exited"},
                             bad : BOOLEAN, found : 0 .. Matches, word : Words]
            /\ worker'.found = worker.found /\ worker'.pc = "tell" /\ worker.pc = "offer"
        BY <1>1, <2>1 DEF SearchInv, SearchTyped, QueueEntry
      <3>4. UNCHANGED <<loop, told, sess, tries>> /\ pipe' = pipe /\ Working
        BY <1>1, <2>1 DEF QueueEntry, WorkerOnly, Working
      <3>5. e.kind = "match" /\ e.n = worker.found
        OBVIOUS
      <3> HIDE DEF e
      <3> QED BY <2>1, <3>1, <3>2, <3>3, <3>4, <3>5, QueueStep
    <2>2. CASE /\ \/ worker' = [worker EXCEPT !.pc = "decide", !.word = "failed"] /\ UNCHANGED pipe
                  \/ worker' = worker /\ Notify
               /\ UNCHANGED search
      <3>1. SearchTyped'
        <4>1. /\ worker' \in [pc : {"none", "walk", "offer", "tell", "decide", "end", "bye", "exited"},
                               bad : BOOLEAN, found : 0 .. Matches, word : Words]
              /\ pipe' \in [byte : BOOLEAN, rd : BOOLEAN, wr : BOOLEAN]
          BY <2>2 DEF SearchInv, SearchTyped, Notify, Words
        <4> QED BY <1>1, <2>2, <4>1 DEF SearchInv, SearchTyped, QueueEntry, WorkerOnly
      <3>2. WordHolds'
        BY <1>1, <2>2 DEF SearchInv, SearchTyped, WordHolds, QueueEntry
      <3>3. /\ pipe'.rd = pipe.rd /\ (Working' => Working) /\ tries' = tries
            /\ Queued' => Queued /\ worker'.found = worker.found
            /\ worker'.pc = "offer" => worker.pc = "offer" /\ worker'.found = worker.found
        BY <1>1, <2>2 DEF SearchInv, SearchTyped, QueueEntry, Notify, Working, Queued
      <3> QED BY <1>1, <2>2, <3>1, <3>2, <3>3, QuietStep DEF QueueEntry, WorkerOnly
    <2> QED BY <1>1, <2>1, <2>2 DEF QueueEntry
  <1>2. CASE NotifyMatch
    <2>1. SearchTyped'
      BY <1>2 DEF SearchInv, SearchTyped, NotifyMatch, WorkerOnly, Notify
    <2>2. WordHolds'
      BY <1>2 DEF SearchInv, SearchTyped, WordHolds, NotifyMatch
    <2>3. /\ pipe'.rd = pipe.rd /\ (Working' => Working)
          /\ Queued' => Queued /\ worker'.found = worker.found
          /\ worker'.pc # "offer"
      BY <1>2 DEF SearchInv, SearchTyped, NotifyMatch, Notify, Working, Queued
    <2> QED BY <1>2, <2>1, <2>2, <2>3, QuietStep DEF NotifyMatch, WorkerOnly
  <1>3. CASE DecideWord
    <2>1. SearchTyped'
      <3>1. worker' \in [pc : {"none", "walk", "offer", "tell", "decide", "end", "bye", "exited"},
                         bad : BOOLEAN, found : 0 .. Matches, word : Words]
        BY <1>3 DEF SearchInv, SearchTyped, DecideWord, Words
      <3> QED BY <1>3, <3>1 DEF SearchInv, SearchTyped, DecideWord, WorkerOnly
    <2>2. WordHolds'
      BY <1>3 DEF SearchInv, SearchTyped, WordHolds, DecideWord
    <2>3. /\ pipe'.rd = pipe.rd /\ (Working' => Working)
          /\ Queued' => Queued /\ worker'.found = worker.found
          /\ worker'.pc # "offer"
      BY <1>3 DEF SearchInv, SearchTyped, DecideWord, Working, Queued
    <2> QED BY <1>3, <2>1, <2>2, <2>3, QuietStep DEF DecideWord, WorkerOnly
  <1>4. CASE Finish
    <2> DEFINE e == [kind |-> worker.word, n |-> 0]
    <2>1. e \in Events /\ e.kind = worker.word
      BY SearchAssumption DEF SearchInv, SearchTyped, Events
    <2>2. /\ search' = [search EXCEPT !.q = Append(@, e), !.running = search'.running]
          /\ search'.running \in BOOLEAN
      BY <1>4 DEF SearchInv, SearchTyped, Finish
    <2>3. /\ worker' \in [pc : {"none", "walk", "offer", "tell", "decide", "end", "bye", "exited"},
                           bad : BOOLEAN, found : 0 .. Matches, word : Words]
          /\ worker'.found = worker.found /\ worker'.pc = "bye" /\ worker.pc = "end"
      BY <1>4 DEF SearchInv, SearchTyped, Finish
    <2>4. UNCHANGED <<loop, told, sess, tries>> /\ pipe' = pipe /\ Working
      BY <1>4 DEF Finish, WorkerOnly, Working
    <2> HIDE DEF e
    <2> QED BY <2>1, <2>2, <2>3, <2>4, QueueStep
  <1> QED BY <1>1, <1>2, <1>3, <1>4, WalkStep DEF Worker

(* The loop takes one event off the queue.                                   *)
LEMMA TakeStep == ASSUME SearchInv, Take PROVE SearchInv'
  <1> DEFINE q == search.q  b == loop.batch  e == Head(search.q)
  <1>1. /\ q \in Seq(Events) /\ Len(q) \in Nat /\ Len(q) > 0 /\ b \in Seq(Notes) /\ Len(b) \in Nat
        /\ DOMAIN q = 1 .. Len(q) /\ DOMAIN b = 1 .. Len(b)
    BY LenProperties, EmptySeq DEF SearchInv, SearchTyped, Take
  <1>2. /\ e = q[1] /\ e \in Events
        /\ Tail(q) \in Seq(Events) /\ Len(Tail(q)) = Len(q) - 1
        /\ DOMAIN Tail(q) = 1 .. Len(q) - 1
        /\ \A i \in 1 .. Len(q) - 1 : Tail(q)[i] = q[i + 1]
    BY <1>1, HeadTailProperties, LenProperties DEF Take
  <1>3. /\ search' = [search EXCEPT !.q = Tail(q)] /\ search'.q = Tail(q) /\ search'.id = search.id
        /\ search'.stop = search.stop /\ search'.cancel = search.cancel
        /\ loop.pc = "process" /\ UNCHANGED <<worker, pipe, sess>>
    BY DEF SearchInv, SearchTyped, Take
  <1> HIDE DEF q, b, e
  <1>4. Going /\ ~Told /\ WordHolds'
    BY <1>1, <1>3 DEF SearchInv, LoopHolds, WordHolds, Told, q
  <1>5. PICK a \in 0 .. Matches : Stream(a)
    BY <1>4 DEF SearchInv
  <1>6. a \in Nat /\ Matches \in Nat /\ search.id \in Nat /\ search.id \in 0 .. MaxSearches
    BY SearchAssumption DEF SearchInv, SearchTyped
  <1>23. /\ Sent(told, search.id, a)
         /\ \A i \in 1 .. Len(b) : b[i] = [kind |-> "match", id |-> search.id, n |-> a + i]
    BY <1>1, <1>5 DEF Stream, b
  <1>7. \A i \in 1 .. Len(q) :
          IF q[i].kind = "match" THEN q[i].n = a + Len(b) + i
          ELSE /\ i = Len(q) /\ ~Working
               /\ q[i].kind = "ok" => a + Len(b) + i = Matches + 1
    BY <1>1, <1>5 DEF Stream, q, b
  <1>8. \A i \in 1 .. Len(q) - 1 :
          IF Tail(q)[i].kind = "match" THEN Tail(q)[i].n = a + (Len(b) + 1) + i
          ELSE /\ i = Len(q) - 1 /\ ~Working
               /\ Tail(q)[i].kind = "ok" => a + (Len(b) + 1) + i = Matches + 1
    <2> SUFFICES ASSUME NEW i \in 1 .. Len(q) - 1
                 PROVE  IF Tail(q)[i].kind = "match" THEN Tail(q)[i].n = a + (Len(b) + 1) + i
                        ELSE /\ i = Len(q) - 1 /\ ~Working
                             /\ Tail(q)[i].kind = "ok" => a + (Len(b) + 1) + i = Matches + 1
      OBVIOUS
    <2>1. i + 1 \in 1 .. Len(q) /\ Tail(q)[i] = q[i + 1]
      BY <1>1, <1>2
    <2>2. IF q[i + 1].kind = "match" THEN q[i + 1].n = a + Len(b) + (i + 1)
          ELSE /\ i + 1 = Len(q) /\ ~Working
               /\ q[i + 1].kind = "ok" => a + Len(b) + (i + 1) = Matches + 1
      BY <1>7, <2>1
    <2>3. a + Len(b) + (i + 1) = a + (Len(b) + 1) + i /\ (i + 1 = Len(q) => i = Len(q) - 1)
      <3> DEFINE lb == Len(b)  lq == Len(q)
      <3>1. lb \in Nat /\ lq \in Nat /\ a \in Nat /\ i \in 1 .. lq - 1
        BY <1>1, <1>6
      <3> HIDE DEF lb, lq
      <3>2. a + lb + (i + 1) = a + (lb + 1) + i /\ (i + 1 = lq => i = lq - 1)
        BY <3>1
      <3> QED BY <3>2 DEF lb, lq
    <2> QED BY <2>1, <2>2, <2>3
  <1>9. /\ Working' = Working /\ Queued' = Queued
        /\ Queued => a + Len(b) + Len(q) = worker.found
        /\ worker.pc = "offer" => a + Len(b) + Len(q) + 1 = worker.found
    BY <1>3, <1>5 DEF Working, Queued, Stream, q, b
  <1>10. worker' = worker /\ worker.found \in Nat
    BY <1>3, SearchAssumption DEF SearchInv, SearchTyped
  <1>11. /\ search' \in [id : 0 .. MaxSearches, running : BOOLEAN, cancel : BOOLEAN,
                          stop : BOOLEAN, q : Seq(Events)]
         /\ tries' \in [asks : 0 .. MaxSearches, reset : 0 .. MaxSearches, breaks : 0 .. MaxBreaks]
         /\ tries'.asks = tries.asks
    <2>1. UNCHANGED tries \/ \E x \in Breaks : SpendBreak(x)
      BY DEF Take
    <2>2. ASSUME NEW x \in Breaks, SpendBreak(x)
          PROVE  /\ tries' \in [asks : 0 .. MaxSearches, reset : 0 .. MaxSearches, breaks : 0 .. MaxBreaks]
                 /\ tries'.asks = tries.asks
      <3>1. tries \in [asks : 0 .. MaxSearches, reset : 0 .. MaxSearches, breaks : 0 .. MaxBreaks]
        BY DEF SearchInv, SearchTyped
      <3>2. x => tries.breaks + 1 \in 0 .. MaxBreaks
        BY <3>1, SearchAssumption DEF Breaks
      <3> QED BY <2>2, <3>1, <3>2 DEF SpendBreak
    <2> QED BY <1>2, <1>3, <2>1, <2>2 DEF SearchInv, SearchTyped
  <1>12. /\ search'.id <= tries'.asks
         /\ Len(search'.q) <= IF Working' THEN QueueEvents ELSE QueueEvents + 1
    <2>1. /\ search.id <= tries.asks
          /\ Len(q) <= IF Working THEN QueueEvents ELSE QueueEvents + 1
      BY DEF SearchInv, LoopHolds, q
    <2> QED BY <1>1, <1>2, <1>3, <1>9, <1>11, <2>1, SearchAssumption
  <1>13. e.kind = "match" => e.n = a + Len(b) + 1
    <2>1. 1 \in 1 .. Len(q) /\ q[1] = e
      BY <1>1, <1>2
    <2> QED BY <1>7, <2>1
  <1> DEFINE note == [kind |-> "match", id |-> search.id, n |-> e.n]
  <1>14. e.kind = "match" =>
           /\ note \in Notes /\ note = [kind |-> "match", id |-> search.id, n |-> a + (Len(b) + 1)]
           /\ a + Len(b) \in 0 .. Matches
    <2>1. e.n \in 0 .. Matches /\ search.id \in 0 .. MaxSearches
      BY <1>2 DEF Events, SearchInv, SearchTyped
    <2> QED BY <1>1, <1>6, <1>13, <2>1 DEF Notes
  <1>15. CASE e.kind = "match" /\ loop' = [loop EXCEPT !.batch = Append(b, note)] /\ told' = told
    <2>1. /\ loop'.batch = Append(b, note) /\ loop'.pc = "process" /\ loop'.then = loop.then
          /\ loop'.broken = loop.broken
      BY <1>3, <1>15 DEF SearchInv, SearchTyped
    <2>2. /\ Append(b, note) \in Seq(Notes) /\ Len(Append(b, note)) = Len(b) + 1
          /\ DOMAIN Append(b, note) = 1 .. Len(b) + 1
          /\ \A i \in 1 .. Len(b) : Append(b, note)[i] = b[i]
          /\ Append(b, note)[Len(b) + 1] = note
      BY <1>1, <1>14, <1>15, AppendProperties, LenProperties
    <2> HIDE DEF note
    <2>3. SearchTyped'
      BY <1>3, <1>11, <1>15, <2>1, <2>2 DEF SearchInv, SearchTyped
    <2>4. LoopHolds' /\ Going'
      BY <1>3, <1>4, <1>12, <2>1 DEF LoopHolds, Going
    <2>5. Latest(told, search.id)' /\ Sent(told, search.id, a)'
      BY <1>3, <1>6, <1>23, <1>15 DEF Sent, Latest, Ordered
    <2>6. \A i \in 1 .. Len(b) + 1 :
            Append(b, note)[i] = [kind |-> "match", id |-> search.id, n |-> a + i]
      <3> TAKE i \in 1 .. Len(b) + 1
      <3>1. i \in 1 .. Len(b) \/ i = Len(b) + 1
        BY <1>1
      <3> QED BY <1>6, <1>23, <1>14, <1>15, <2>2, <3>1
    <2>7. Queued' => a + (Len(b) + 1) + (Len(q) - 1) = worker.found
      BY <1>1, <1>6, <1>9, <1>10
    <2>8. worker'.pc = "offer" => a + (Len(b) + 1) + (Len(q) - 1) + 1 = worker.found
      BY <1>1, <1>6, <1>9, <1>10
    <2>9. Stream(a)'
      BY <1>2, <1>3, <1>8, <1>9, <1>10, <2>1, <2>2, <2>5, <2>6, <2>7, <2>8 DEF Stream
    <2> QED BY <1>4, <2>3, <2>4, <2>5, <2>9 DEF SearchInv
  <1>16. CASE /\ e.kind = "match" /\ told' = told \o b
              /\ loop' = [loop EXCEPT !.batch = <<note>>]
    <2>1. /\ loop'.batch = <<note>> /\ loop'.pc = "process" /\ loop'.then = loop.then
          /\ loop'.broken = loop.broken
      BY <1>3, <1>16 DEF SearchInv, SearchTyped
    <2>2. <<note>> \in Seq(Notes) /\ Len(<<note>>) = 1 /\ DOMAIN <<note>> = 1 .. 1 /\ <<note>>[1] = note
      BY <1>14, <1>16
    <2>3. note = [kind |-> "match", id |-> search.id, n |-> (a + Len(b)) + 1]
      BY <1>1, <1>6, <1>14, <1>16
    <2> HIDE DEF note
    <2>4. Sent(told \o b, search.id, a + Len(b))
      BY <1>1, <1>6, <1>23, BatchSent
    <2>5. Latest(told, search.id)' /\ Sent(told', search'.id, a + Len(b)) /\ told' \in Seq(Notes)
      <3>1. told' = told \o b /\ search'.id = search.id
        BY <1>3, <1>16
      <3>2. Sent(told', search'.id, a + Len(b))
        BY <2>4, <3>1
      <3> QED BY <3>2 DEF Sent, Latest, Ordered
    <2>6. SearchTyped'
      BY <1>3, <1>11, <1>16, <2>1, <2>2, <2>5 DEF SearchInv, SearchTyped
    <2>7. LoopHolds' /\ Going'
      BY <1>3, <1>4, <1>12, <2>1 DEF LoopHolds, Going
    <2>8. Queued' => (a + Len(b)) + 1 + (Len(q) - 1) = worker.found
      BY <1>1, <1>6, <1>9, <1>10
    <2>9. worker'.pc = "offer" => (a + Len(b)) + 1 + (Len(q) - 1) + 1 = worker.found
      BY <1>1, <1>6, <1>9, <1>10
    <2>10. \A i \in 1 .. 1 : <<note>>[i] = [kind |-> "match", id |-> search.id, n |-> (a + Len(b)) + i]
      BY <2>2, <2>3
    <2>11. \A i \in 1 .. Len(q) - 1 :
          IF Tail(q)[i].kind = "match" THEN Tail(q)[i].n = (a + Len(b)) + 1 + i
          ELSE /\ i = Len(q) - 1 /\ ~Working
               /\ Tail(q)[i].kind = "ok" => (a + Len(b)) + 1 + i = Matches + 1
      <3>1. \A i \in 1 .. Len(q) - 1 : (a + Len(b)) + 1 + i = a + (Len(b) + 1) + i
        BY <1>1, <1>6
      <3> QED BY <1>8, <3>1
    <2>12. \E c \in 0 .. Matches : Stream(c)'
      <3>1. PICK c \in 0 .. Matches : c = a + Len(b)
        BY <1>14, <1>16
      <3>2. /\ Sent(told', search'.id, c)
            /\ \A i \in 1 .. 1 : <<note>>[i] = [kind |-> "match", id |-> search.id, n |-> c + i]
            /\ \A i \in 1 .. Len(q) - 1 :
                 IF Tail(q)[i].kind = "match" THEN Tail(q)[i].n = c + 1 + i
                 ELSE /\ i = Len(q) - 1 /\ ~Working
                      /\ Tail(q)[i].kind = "ok" => c + 1 + i = Matches + 1
            /\ Queued' => c + 1 + (Len(q) - 1) = worker.found
            /\ worker'.pc = "offer" => c + 1 + (Len(q) - 1) + 1 = worker.found
        BY <2>5, <2>8, <2>9, <2>10, <2>11, <3>1
      <3>3. Stream(c)'
        <4>1. Sent(told, search.id, c)'
          BY <3>2 DEF Sent, Latest, Ordered
        <4>2. \A i \in DOMAIN loop'.batch :
                loop'.batch[i] = [kind |-> "match", id |-> search'.id, n |-> c + i]
          BY <1>3, <2>1, <2>2, <3>2
        <4>3. \A i \in DOMAIN search'.q :
                IF search'.q[i].kind = "match" THEN search'.q[i].n = c + Len(loop'.batch) + i
                ELSE /\ i = Len(search'.q) /\ ~Working'
                     /\ search'.q[i].kind = "ok" => c + Len(loop'.batch) + i = Matches + 1
          BY <1>2, <1>3, <1>9, <2>1, <2>2, <3>2
        <4>4. /\ Queued' => c + Len(loop'.batch) + Len(search'.q) = worker'.found
              /\ worker'.pc = "offer" => c + Len(loop'.batch) + Len(search'.q) + 1 = worker'.found
          BY <1>2, <1>3, <1>10, <2>1, <2>2, <3>2
        <4> QED BY <4>1, <4>2, <4>3, <4>4 DEF Stream
      <3> QED BY <3>1, <3>3
    <2> QED BY <1>4, <2>5, <2>6, <2>7, <2>12 DEF SearchInv
  <1>17. CASE /\ e.kind # "match" /\ told' = (told \o b) \o <<[kind |-> e.kind, id |-> search.id, n |-> 0]>>
              /\ loop' = [loop EXCEPT !.batch = <<>>]
    <2> DEFINE w == [kind |-> e.kind, id |-> search.id, n |-> 0]
    <2>1. /\ loop'.batch = <<>> /\ loop'.pc = "process" /\ loop'.then = loop.then
          /\ loop'.broken = loop.broken
      BY <1>3, <1>17 DEF SearchInv, SearchTyped
    <2>2. w \in Notes /\ w.id = search.id /\ w.kind \in Words
      BY <1>2, <1>6, <1>17 DEF Events, Notes, SearchInv, SearchTyped
    <2>3. Len(q) = 1 /\ ~Working /\ (w.kind = "ok" => a + Len(b) = Matches)
      <3>1. 1 \in 1 .. Len(q) /\ q[1] = e /\ w.kind = e.kind
        BY <1>1, <1>2
      <3>2. 1 = Len(q) /\ ~Working /\ (e.kind = "ok" => a + Len(b) + 1 = Matches + 1)
        BY <1>7, <1>17, <3>1
      <3>3. a + Len(b) + 1 = Matches + 1 => a + Len(b) = Matches
        BY <1>1, <1>6
      <3> QED BY <3>1, <3>2, <3>3
    <2>4. told' = (told \o b) \o <<w>>
      BY <1>17
    <2> HIDE DEF w
    <2>5. Sent(told \o b, search.id, a + Len(b))
      BY <1>1, <1>6, <1>23, BatchSent
    <2>11. a + Len(b) \in Nat
      BY <1>1, <1>6
    <2>6. Latest((told \o b) \o <<w>>, search.id)
      BY <1>6, <2>2, <2>3, <2>5, <2>11, WordSent
    <2>7. Latest(told, search.id)' /\ told' \in Seq(Notes)
      <3>1. Latest(told', search'.id)
        BY <1>3, <2>4, <2>6
      <3> QED BY <3>1 DEF Latest, Ordered
    <2>8. SearchTyped'
      <3>1. loop' \in [pc : {"idle", "process", "checked", "join"},
               then : {"idle", "start", "processed", "clear"}, batch : Seq(Notes), broken : BOOLEAN]
        <4>1. /\ loop \in [pc : {"idle", "process", "checked", "join"},
                  then : {"idle", "start", "processed", "clear"}, batch : Seq(Notes), broken : BOOLEAN]
              /\ <<>> \in Seq(Notes)
          BY DEF SearchInv, SearchTyped
        <4> QED BY <1>17, <4>1
      <3> QED BY <1>3, <1>11, <2>7, <3>1 DEF SearchInv, SearchTyped
    <2>9. LoopHolds' /\ Going'
      BY <1>3, <1>4, <1>12, <2>1 DEF LoopHolds, Going
    <2>10. Told'
      BY <1>2, <1>3, <1>9, <2>1, <2>3, EmptySeq DEF Told
    <2> QED BY <1>4, <2>7, <2>8, <2>9, <2>10 DEF SearchInv
  <1>18. CASE Broken /\ told' \in {told, told \o b}
    <2>1. /\ loop'.batch = <<>> /\ loop'.pc = "checked" /\ loop'.broken = TRUE
          /\ loop' \in [pc : {"idle", "process", "checked", "join"},
               then : {"idle", "start", "processed", "clear"}, batch : Seq(Notes), broken : BOOLEAN]
      <3>1. loop \in [pc : {"idle", "process", "checked", "join"},
               then : {"idle", "start", "processed", "clear"}, batch : Seq(Notes), broken : BOOLEAN]
        BY DEF SearchInv, SearchTyped
      <3>2. loop' = [loop EXCEPT !.pc = "checked", !.broken = TRUE, !.batch = <<>>]
        BY <1>18 DEF Broken
      <3>3. <<>> \in Seq(Notes)
        OBVIOUS
      <3> QED BY <3>1, <3>2, <3>3
    <2>2. Sent(told \o b, search.id, a + Len(b))
      BY <1>1, <1>6, <1>23, BatchSent
    <2>3. Latest(told, search.id)' /\ told' \in Seq(Notes)
      <3>1. Sent(told', search'.id, a) \/ Sent(told', search'.id, a + Len(b))
        BY <1>3, <1>18, <1>23, <2>2
      <3> QED BY <3>1 DEF Sent, Latest, Ordered
    <2>4. SearchTyped'
      BY <1>3, <1>11, <2>1, <2>3 DEF SearchInv, SearchTyped
    <2>5. LoopHolds' /\ ~Going'
      BY <1>12, <2>1 DEF LoopHolds, Going
    <2> QED BY <1>4, <2>3, <2>4, <2>5 DEF SearchInv
  <1>19. told \o b \in Seq(Notes) /\ (told \o b) \o <<>> = told \o b
    BY <1>1, Concatenated, ConcatEmptySeq DEF SearchInv, SearchTyped
  <1>20. CASE e.kind = "match" /\ loop' = [loop EXCEPT !.batch = Append(@, Tell("match", e.n))] /\ told' = told
    BY <1>15, <1>20 DEF Tell, b
  <1>21. CASE /\ e.kind = "match"
              /\ \E breaks \in Breaks :
                   IF breaks THEN Broken /\ UNCHANGED told
                   ELSE /\ told' = SentWith(<<>>)
                        /\ loop' = [loop EXCEPT !.batch = <<Tell("match", e.n)>>]
    BY <1>16, <1>18, <1>19, <1>21 DEF Tell, SentWith, b
  <1>22. CASE /\ e.kind # "match"
              /\ \E breaks \in Breaks :
                   IF breaks THEN Broken /\ told' \in {told, SentWith(<<>>)}
                   ELSE /\ told' = SentWith(<<Tell(e.kind, 0)>>)
                        /\ loop' = [loop EXCEPT !.batch = <<>>]
    BY <1>17, <1>18, <1>19, <1>22 DEF Tell, SentWith, b
  <1> QED BY <1>20, <1>21, <1>22 DEF Take, e

(* What the peer was told stays in order while nothing is told and no search  *)
(* begins; and so do the batch, the queue and the worker.                     *)
LEMMA SameTold ==
    ASSUME SearchInv, told' = told, search'.id = search.id
    PROVE  Latest(told, search.id)'
  BY DEF SearchInv, Latest, Ordered

LEMMA SameStream ==
    ASSUME SearchInv, told' = told, search'.id = search.id, search'.q = search.q,
           loop'.batch = loop.batch,
           \/ worker' = worker
           \/ ~Working /\ ~Working'
    PROVE  Told \/ (\E a \in 0 .. Matches : Stream(a)) =>
              Told' \/ \E a \in 0 .. Matches : Stream(a)'
  <1>1. Told => Told'
    BY DEF Told, Working
  <1>2. ASSUME NEW a \in 0 .. Matches, Stream(a) PROVE Stream(a)'
    <2>1. Sent(told, search.id, a)'
      <3>1. Sent(told', search'.id, a)
        BY <1>2 DEF Stream
      <3> QED BY <3>1 DEF Sent, Latest, Ordered
    <2>2. CASE worker' = worker
      BY <1>2, <2>1, <2>2 DEF Stream, Queued, Working
    <2>3. CASE ~Working /\ ~Working'
      BY <1>2, <2>1, <2>3 DEF Stream, Queued, Working
    <2> QED BY <2>2, <2>3
  <1> QED BY <1>1, <1>2

(* The queue is empty, and what is in the batch goes out.                    *)
LEMMA EmptiedStep == ASSUME SearchInv, Emptied PROVE SearchInv'
  <1>1. /\ search.q = <<>> /\ loop.pc = "process" /\ Going
        /\ UNCHANGED <<search, worker, pipe, sess>>
    BY DEF Emptied, SearchInv, LoopHolds
  <1>2. PICK breaks \in Breaks :
          /\ SpendBreak(breaks)
          /\ IF breaks THEN Broken /\ UNCHANGED told
             ELSE told' = SentWith(<<>>) /\ loop' = [loop EXCEPT !.pc = "checked", !.batch = <<>>]
    BY DEF Emptied
  <1>3. /\ tries' \in [asks : 0 .. MaxSearches, reset : 0 .. MaxSearches, breaks : 0 .. MaxBreaks]
        /\ tries'.asks = tries.asks
    <2>1. tries \in [asks : 0 .. MaxSearches, reset : 0 .. MaxSearches, breaks : 0 .. MaxBreaks]
      BY DEF SearchInv, SearchTyped
    <2>2. breaks => tries.breaks + 1 \in 0 .. MaxBreaks
      BY <2>1, SearchAssumption DEF Breaks
    <2> QED BY <1>2, <2>1, <2>2 DEF SpendBreak
  <1>4. /\ loop'.pc = "checked" /\ loop'.batch = <<>> /\ loop'.broken = (breaks \/ loop.broken)
        /\ loop' \in [pc : {"idle", "process", "checked", "join"},
               then : {"idle", "start", "processed", "clear"}, batch : Seq(Notes), broken : BOOLEAN]
    <2>1. /\ loop \in [pc : {"idle", "process", "checked", "join"},
                  then : {"idle", "start", "processed", "clear"}, batch : Seq(Notes), broken : BOOLEAN]
          /\ <<>> \in Seq(Notes) /\ breaks \in BOOLEAN
      BY DEF SearchInv, SearchTyped, Breaks
    <2> QED BY <1>2, <2>1 DEF Broken
  <1>5. /\ told \in Seq(Notes) /\ loop.batch \in Seq(Notes) /\ told \o loop.batch \in Seq(Notes)
        /\ SentWith(<<>>) = told \o loop.batch /\ Len(loop.batch) \in Nat
        /\ DOMAIN loop.batch = 1 .. Len(loop.batch)
    <2>1. told \in Seq(Notes) /\ loop.batch \in Seq(Notes)
      BY DEF SearchInv, SearchTyped
    <2>2. told \o loop.batch \in Seq(Notes)
      BY <2>1, ConcatProperties
    <2>3. (told \o loop.batch) \o <<>> = told \o loop.batch
      BY <2>2, ConcatEmptySeq
    <2> QED BY <2>1, <2>2, <2>3, LenProperties DEF SentWith
  <1>6. WordHolds' /\ LoopHolds'
    BY <1>1, <1>3, <1>4 DEF SearchInv, WordHolds, LoopHolds, Working
  <1>7. CASE breaks
    <2>1. told' = told /\ loop'.broken
      BY <1>2, <1>4, <1>7
    <2>2. Latest(told, search.id)' /\ ~Going'
      BY <1>1, <2>1, SameTold DEF Going
    <2>3. SearchTyped'
      BY <1>1, <1>3, <1>4, <2>1 DEF SearchInv, SearchTyped
    <2> QED BY <1>6, <2>2, <2>3 DEF SearchInv
  <1>8. CASE ~breaks
    <2>1. told' = told \o loop.batch /\ told' \in Seq(Notes)
      BY <1>2, <1>5, <1>8
    <2>2. SearchTyped'
      BY <1>1, <1>3, <1>4, <2>1 DEF SearchInv, SearchTyped
    <2>3. CASE Told
      <3>1. told' = told /\ Told'
        BY <1>1, <1>4, <1>5, <2>1, <2>3, ConcatEmptySeq DEF Told, Working
      <3>2. Latest(told, search.id)'
        BY <1>1, <3>1, SameTold
      <3> QED BY <1>6, <2>2, <3>1, <3>2 DEF SearchInv
    <2>4. CASE ~Told
      <3>1. PICK a \in 0 .. Matches : Stream(a)
        BY <1>1, <2>4 DEF SearchInv
      <3>2. a \in Nat /\ Matches \in Nat /\ search.id \in Nat
        BY SearchAssumption DEF SearchInv, SearchTyped
      <3>3. /\ Sent(told, search.id, a)
            /\ \A i \in DOMAIN loop.batch :
                  loop.batch[i] = [kind |-> "match", id |-> search.id, n |-> a + i]
        BY <3>1 DEF Stream
      <3>4. Sent(told \o loop.batch, search.id, a + Len(loop.batch))
        BY <1>5, <3>2, <3>3, BatchSent
      <3>5. a + Len(loop.batch) \in 0 .. Matches
        <4>1. CASE Len(loop.batch) = 0
          BY <3>2, <4>1
        <4>2. CASE Len(loop.batch) # 0
          <5>1. Len(loop.batch) \in DOMAIN loop.batch
            BY <1>5, <4>2
          <5>2. loop.batch[Len(loop.batch)] \in Notes
            BY <1>5, <5>1, ElementOfSeq
          <5>3. loop.batch[Len(loop.batch)].n = a + Len(loop.batch)
            <6>1. loop.batch[Len(loop.batch)]
                    = [kind |-> "match", id |-> search.id, n |-> a + Len(loop.batch)]
              BY <3>3, <5>1
            <6> QED BY <6>1
          <5> QED BY <5>2, <5>3 DEF Notes
        <4> QED BY <4>1, <4>2
      <3>6. PICK c \in 0 .. Matches : c = a + Len(loop.batch)
        BY <3>5
      <3>7. Sent(told', search'.id, c)
        BY <1>1, <2>1, <3>4, <3>6
      <3>8. Sent(told, search.id, c)' /\ Latest(told, search.id)'
        BY <3>7 DEF Sent, Latest, Ordered
      <3>9. /\ Working' = Working /\ Queued' = Queued /\ Len(<<>>) = 0 /\ c \in Nat
            /\ DOMAIN <<>> = {}
        BY <1>1, <3>2 DEF Working, Queued
      <3>10. /\ Queued => c + Len(search.q) = worker.found
             /\ worker.pc = "offer" => c + Len(search.q) + 1 = worker.found
        BY <3>1, <3>6 DEF Stream
      <3>11. Stream(c)'
        BY <1>1, <1>4, <3>8, <3>9, <3>10 DEF Stream
      <3> QED BY <1>6, <2>2, <3>8, <3>11 DEF SearchInv
    <2> QED BY <2>3, <2>4
  <1> QED BY <1>7, <1>8 DEF Breaks

LEMMA LoopStep ==
    ASSUME SearchInv, Wake \/ Processed \/ StartSearch \/ Cancel \/ Clear
    PROVE  SearchInv'
  <1> DEFINE Loops == [pc : {"idle", "process", "checked", "join"},
                then : {"idle", "start", "processed", "clear"}, batch : Seq(Notes), broken : BOOLEAN]
  <1>1. loop \in Loops /\ NotBusy \in Loops /\ (loop.pc # "process" => loop.batch = <<>>)
    BY DEF SearchInv, SearchTyped, LoopHolds, NotBusy
  <1>2. tries \in [asks : 0 .. MaxSearches, reset : 0 .. MaxSearches, breaks : 0 .. MaxBreaks]
        /\ search.id \in 0 .. MaxSearches
    BY DEF SearchInv, SearchTyped
  <1>3. CASE Wake
    <2>1. /\ loop' = [NotBusy EXCEPT !.pc = "process"] /\ loop.pc = "idle" /\ pipe.rd
          /\ pipe' = [pipe EXCEPT !.byte = FALSE] /\ UNCHANGED <<search, worker, told, sess, tries>>
      BY <1>3 DEF Wake
    <2>2. loop' \in Loops /\ loop'.pc = "process" /\ loop'.batch = <<>> /\ loop'.broken = FALSE
      BY <1>1, <2>1 DEF NotBusy
    <2>3. SearchTyped' /\ WordHolds'
      BY <2>1, <2>2 DEF SearchInv, SearchTyped, WordHolds
    <2>4. LoopHolds' /\ Going
      BY <1>1, <2>1, <2>2 DEF SearchInv, SearchTyped, LoopHolds, Going, Working
    <2>5. Latest(told, search.id)'
      BY <2>1, SameTold
    <2>6. Told \/ (\E a \in 0 .. Matches : Stream(a)) =>
              Told' \/ \E a \in 0 .. Matches : Stream(a)'
      BY <1>1, <2>1, <2>2, SameStream
    <2> QED BY <2>3, <2>4, <2>5, <2>6 DEF SearchInv
  <1>4. CASE Processed
    <2>1. /\ loop.pc = "checked" /\ UNCHANGED <<search, worker, told, sess, tries>>
          /\ loop' = (IF search.running THEN NotBusy ELSE Join("processed"))
          /\ pipe' = IF search.running /\ loop.broken THEN [pipe EXCEPT !.rd = FALSE] ELSE pipe
      BY <1>4 DEF Processed
    <2>2. /\ loop' \in Loops /\ loop'.batch = <<>> /\ loop'.pc \in {"idle", "join"}
          /\ loop'.broken => loop'.pc = "join" /\ loop'.then = "processed"
          /\ loop'.then # "start" \/ loop'.pc # "join"
      BY <1>1, <2>1 DEF NotBusy, Join
    <2>3. SearchTyped' /\ WordHolds'
      BY <2>1, <2>2 DEF SearchInv, SearchTyped, WordHolds
    <2>4. LoopHolds'
      BY <2>1, <2>2 DEF SearchInv, LoopHolds, Working
    <2>5. Going' => Going
      <3>1. search.running => loop'.broken = FALSE /\ (pipe'.rd => pipe.rd /\ ~loop.broken)
        BY <2>1 DEF NotBusy, SearchInv, SearchTyped
      <3>2. ~search.running => loop'.broken = loop.broken /\ pipe' = pipe
        BY <1>1, <2>1 DEF Join
      <3> QED BY <3>1, <3>2 DEF Going
    <2>6. Latest(told, search.id)'
      BY <2>1, SameTold
    <2>7. Told \/ (\E a \in 0 .. Matches : Stream(a)) =>
              Told' \/ \E a \in 0 .. Matches : Stream(a)'
      BY <1>1, <2>1, <2>2, SameStream
    <2> QED BY <2>3, <2>4, <2>5, <2>6, <2>7 DEF SearchInv
  <1>5. CASE StartSearch
    <2>1. /\ loop.pc = "idle" /\ UNCHANGED <<search, worker, pipe, told, sess>>
          /\ tries.asks < MaxSearches /\ tries' = [tries EXCEPT !.asks = @ + 1]
          /\ loop' = loop \/ loop' = Join("start")
      BY <1>5 DEF StartSearch
    <2>2. /\ tries' \in [asks : 0 .. MaxSearches, reset : 0 .. MaxSearches, breaks : 0 .. MaxBreaks]
          /\ search.id <= tries.asks => search.id < tries'.asks /\ search.id <= tries'.asks
      BY <1>2, <2>1, SearchAssumption
    <2>3. /\ loop' \in Loops /\ loop'.batch = loop.batch /\ loop'.pc \in {"idle", "join"}
          /\ loop'.broken = loop.broken
      BY <1>1, <2>1 DEF Join
    <2>4. SearchTyped' /\ WordHolds'
      BY <2>1, <2>2, <2>3 DEF SearchInv, SearchTyped, WordHolds
    <2>5. LoopHolds' /\ Going' = Going
      BY <1>1, <2>1, <2>2, <2>3 DEF SearchInv, LoopHolds, Working, Going
    <2>6. Latest(told, search.id)'
      BY <2>1, SameTold
    <2>7. Told \/ (\E a \in 0 .. Matches : Stream(a)) =>
              Told' \/ \E a \in 0 .. Matches : Stream(a)'
      BY <1>1, <2>1, <2>3, SameStream
    <2> QED BY <2>4, <2>5, <2>6, <2>7 DEF SearchInv
  <1>6. CASE Cancel \/ Clear
    <2>1. /\ loop.pc = "idle" /\ UNCHANGED <<worker, told, tries>> /\ sess' \in {sess, "closing"}
          /\ search' = [search EXCEPT !.cancel = TRUE, !.stop = TRUE]
          /\ \/ loop' = loop /\ pipe' = pipe
             \/ loop' = Join("clear") /\ pipe' = [pipe EXCEPT !.rd = FALSE]
      BY <1>6 DEF Cancel, Clear
    <2>2. /\ loop' \in Loops /\ loop'.batch = loop.batch /\ loop'.pc \in {"idle", "join"}
          /\ loop'.broken = loop.broken /\ (loop'.pc = "join" => loop'.then = "clear")
      BY <1>1, <2>1 DEF Join
    <2>3. /\ search'.q = search.q /\ search'.id = search.id /\ search'.cancel = TRUE
          /\ pipe' \in [byte : BOOLEAN, rd : BOOLEAN, wr : BOOLEAN] /\ (pipe'.rd => pipe.rd)
      BY <2>1 DEF SearchInv, SearchTyped
    <2>4. SearchTyped'
      BY <2>1, <2>2, <2>3 DEF SearchInv, SearchTyped
    <2>5. LoopHolds' /\ WordHolds' /\ (Going' => Going)
      BY <1>1, <2>1, <2>2, <2>3 DEF SearchInv, LoopHolds, WordHolds, Working, Going
    <2>6. Latest(told, search.id)'
      BY <2>1, <2>3, SameTold
    <2>7. Told \/ (\E a \in 0 .. Matches : Stream(a)) =>
              Told' \/ \E a \in 0 .. Matches : Stream(a)'
      BY <2>1, <2>2, <2>3, SameStream
    <2> QED BY <2>4, <2>5, <2>6, <2>7 DEF SearchInv
  <1> QED BY <1>3, <1>4, <1>5, <1>6

LEMMA JoinStep == ASSUME SearchInv, JoinWorker PROVE SearchInv'
  <1> DEFINE Workers == [pc : {"none", "walk", "offer", "tell", "decide", "end", "bye", "exited"},
                         bad : BOOLEAN, found : 0 .. Matches, word : Words]
             Tries == [asks : 0 .. MaxSearches, reset : 0 .. MaxSearches, breaks : 0 .. MaxBreaks]
             Cleared == [search EXCEPT !.q = <<>>, !.cancel = FALSE, !.stop = FALSE]
  <1>1. /\ loop.pc = "join" /\ ~Working /\ loop' = NotBusy /\ told' = told
        /\ loop.batch = <<>> /\ loop'.batch = <<>> /\ loop'.pc = "idle" /\ loop'.broken = FALSE
    BY DEF JoinWorker, Working, NotBusy, SearchInv, LoopHolds
  <1>2. /\ search \in [id : 0 .. MaxSearches, running : BOOLEAN, cancel : BOOLEAN,
                       stop : BOOLEAN, q : Seq(Events)]
        /\ tries \in Tries /\ pipe \in [byte : BOOLEAN, rd : BOOLEAN, wr : BOOLEAN]
        /\ search.id \in Nat /\ tries.asks \in Nat /\ <<>> \in Seq(Events)
    BY DEF SearchInv, SearchTyped
  <1>3. NoWorker \in Workers /\ NoWorker.pc = "none" /\ NoWorker.found = 0
    BY SearchAssumption DEF NoWorker, Words
  <1>4. /\ Cleared \in [id : 0 .. MaxSearches, running : BOOLEAN, cancel : BOOLEAN,
                        stop : BOOLEAN, q : Seq(Events)]
        /\ Cleared.q = <<>> /\ Cleared.stop = FALSE /\ Cleared.id = search.id
    BY <1>2
  <1>5. NotBusy \in [pc : {"idle", "process", "checked", "join"},
                then : {"idle", "start", "processed", "clear"}, batch : Seq(Notes), broken : BOOLEAN]
    BY DEF NotBusy
  <1>6. told \in Seq(Notes) /\ sess \in {"open", "closing", "closed"} /\ search.id <= tries.asks
    BY DEF SearchInv, SearchTyped, LoopHolds
  <1> HIDE DEF Cleared, Tries, Workers
  <1>7. ASSUME search' \in [id : 0 .. MaxSearches, running : BOOLEAN, cancel : BOOLEAN,
                           stop : BOOLEAN, q : Seq(Events)],
               search'.id = search.id, search'.q = <<>>, search'.stop => search'.cancel,
               worker' = NoWorker, pipe' \in [byte : BOOLEAN, rd : BOOLEAN, wr : BOOLEAN],
               tries' \in Tries, tries'.asks = tries.asks, sess' \in {"open", "closing", "closed"}
        PROVE  SearchInv'
    <2>1. SearchTyped'
      BY <1>1, <1>3, <1>5, <1>6, <1>7 DEF SearchTyped, Tries, Workers
    <2>2. WordHolds' /\ Told'
      BY <1>1, <1>3, <1>7 DEF WordHolds, Told, Working
    <2>3. LoopHolds'
      BY <1>1, <1>3, <1>6, <1>7, SearchAssumption DEF LoopHolds, Working
    <2> QED BY <1>1, <1>7, <2>1, <2>2, <2>3, SameTold DEF SearchInv
  <1>8. CASE loop.then = "start"
    <2>1. /\ tries' = [tries EXCEPT !.reset = tries.asks] /\ sess' = sess
          /\ tries' \in Tries /\ tries'.asks = tries.asks /\ search.id < tries.asks
          /\ tries.asks \in 0 .. MaxSearches
      BY <1>1, <1>2, <1>8 DEF JoinWorker, Tries, SearchInv, LoopHolds
    <2>2. CASE /\ search' = Cleared /\ worker' = NoWorker
               /\ pipe' = pipe \/ pipe' = [pipe EXCEPT !.byte = FALSE]
      <3>1. pipe' \in [byte : BOOLEAN, rd : BOOLEAN, wr : BOOLEAN]
        BY <1>2, <2>2
      <3> QED BY <1>4, <1>6, <1>7, <2>1, <2>2, <3>1
    <2>3. ASSUME NEW criteria \in {"bad", "good"},
                 search' = [Cleared EXCEPT !.running = TRUE, !.id = tries.asks],
                 worker' = [NoWorker EXCEPT !.pc = "walk", !.bad = criteria = "bad"],
                 pipe' = [pipe EXCEPT !.byte = FALSE]
          PROVE  SearchInv'
      <3>1. /\ search' \in [id : 0 .. MaxSearches, running : BOOLEAN, cancel : BOOLEAN,
                           stop : BOOLEAN, q : Seq(Events)]
            /\ search'.q = <<>> /\ search'.stop = FALSE /\ search'.id = tries.asks
        BY <1>4, <2>1, <2>3
      <3>2. worker' \in Workers /\ worker'.pc = "walk" /\ worker'.found = 0
        BY <1>3, <2>3 DEF Workers
      <3>3. pipe' \in [byte : BOOLEAN, rd : BOOLEAN, wr : BOOLEAN]
        BY <1>2, <2>3
      <3>4. SearchTyped'
        BY <1>1, <1>5, <1>6, <2>1, <3>1, <3>2, <3>3 DEF SearchTyped, Tries, Workers
      <3>5. WordHolds' /\ LoopHolds'
        BY <1>1, <1>2, <2>1, <3>1, <3>2, SearchAssumption DEF WordHolds, LoopHolds, Working
      <3>6. \A i \in DOMAIN told : told[i].id \in Nat /\ told[i].id <= search.id
        <4> TAKE i \in DOMAIN told
        <4>1. told[i] \in Notes
          BY <1>6, ElementOfSeq, LenProperties
        <4> QED BY <4>1 DEF Notes, SearchInv, Latest
      <3>7. \A i \in DOMAIN told : told[i].id <= tries.asks /\ told[i].id # tries.asks
        BY <1>2, <2>1, <3>6
      <3>8. Latest(told, tries.asks)
        BY <3>7 DEF SearchInv, Latest
      <3>9. Sent(told, tries.asks, 0)
        BY <3>7, <3>8 DEF Sent
      <3>10. Sent(told', search'.id, 0)
        BY <1>1, <3>1, <3>9
      <3>11. Sent(told, search.id, 0)' /\ Latest(told, search.id)'
        BY <3>10 DEF Sent, Latest, Ordered
      <3>12. Len(<<>>) = 0 /\ DOMAIN <<>> = {}
        OBVIOUS
      <3>13. Stream(0)'
        BY <1>1, <3>1, <3>2, <3>11, <3>12 DEF Stream, Queued
      <3>14. \E a \in 0 .. Matches : Stream(a)'
        BY <3>13, SearchAssumption
      <3> QED BY <3>4, <3>5, <3>11, <3>14 DEF SearchInv
    <2>4. \/ \E criteria \in {"none", "bad", "good"} : Begin(criteria)
          \/ /\ search' = Cleared /\ worker' = NoWorker /\ pipe' = [pipe EXCEPT !.byte = FALSE]
      BY <1>8 DEF JoinWorker, Cleared
    <2>5. ASSUME NEW criteria \in {"none", "bad", "good"}, Begin(criteria) PROVE SearchInv'
      <3>1. CASE criteria = "none"
        BY <2>2, <2>5, <3>1 DEF Begin, Cleared
      <3>2. CASE criteria # "none"
        BY <2>3, <2>5, <3>2 DEF Begin, Cleared
      <3> QED BY <3>1, <3>2
    <2> QED BY <2>2, <2>4, <2>5
  <1>9. CASE loop.then = "processed"
    <2>1. /\ worker' = NoWorker /\ pipe' = [pipe EXCEPT !.rd = @ /\ ~loop.broken]
          /\ UNCHANGED <<search, sess, tries>>
      BY <1>9 DEF JoinWorker
    <2>2. pipe' \in [byte : BOOLEAN, rd : BOOLEAN, wr : BOOLEAN] /\ (Going' => Going)
      BY <1>1, <1>2, <2>1 DEF Going
    <2>3. ~Working'
      BY <1>3, <2>1 DEF Working
    <2>4. SearchTyped'
      BY <1>1, <1>2, <1>3, <1>5, <1>6, <2>1, <2>2 DEF SearchTyped, Tries, Workers
    <2>5. WordHolds' /\ LoopHolds'
      BY <1>1, <1>3, <1>6, <2>1, <2>3 DEF SearchInv, WordHolds, LoopHolds
    <2>6. Latest(told, search.id)'
      BY <1>1, <2>1, SameTold
    <2>7. Told \/ (\E a \in 0 .. Matches : Stream(a)) =>
              Told' \/ \E a \in 0 .. Matches : Stream(a)'
      BY <1>1, <2>1, <2>3, SameStream
    <2> QED BY <2>2, <2>4, <2>5, <2>6, <2>7 DEF SearchInv
  <1>10. CASE loop.then = "clear"
    <2>1. /\ worker' = NoWorker /\ sess' = "closed"
          /\ search' = [search EXCEPT !.q = <<>>, !.running = FALSE]
          /\ pipe' = [pipe EXCEPT !.wr = FALSE] /\ UNCHANGED tries
      BY <1>10 DEF JoinWorker
    <2>2. /\ search' \in [id : 0 .. MaxSearches, running : BOOLEAN, cancel : BOOLEAN,
                          stop : BOOLEAN, q : Seq(Events)]
          /\ search'.id = search.id /\ search'.q = <<>> /\ search'.stop = search.stop
          /\ search'.cancel = search.cancel
      BY <1>2, <2>1
    <2>3. search.stop => search.cancel
      BY DEF SearchInv, WordHolds
    <2>4. pipe' \in [byte : BOOLEAN, rd : BOOLEAN, wr : BOOLEAN]
      BY <1>2, <2>1
    <2> QED BY <1>2, <1>7, <2>1, <2>2, <2>3, <2>4
  <1> QED BY <1>8, <1>9, <1>10 DEF JoinWorker

LEMMA SearchStepHolds == SearchInv /\ [SearchNext]_searchVars => SearchInv'
  <1> SUFFICES ASSUME SearchInv, [SearchNext]_searchVars PROVE SearchInv'
    OBVIOUS
  <1>1. CASE UNCHANGED searchVars
    <2>1. /\ UNCHANGED <<search, worker, pipe, loop, told, sess, tries>>
      BY <1>1 DEF searchVars
    <2>2. SearchTyped' /\ WordHolds' /\ LoopHolds' /\ Going' = Going
      BY <2>1 DEF SearchInv, SearchTyped, WordHolds, LoopHolds, Working, Going
    <2>3. Latest(told, search.id)'
      BY <2>1, SameTold
    <2>4. Told \/ (\E a \in 0 .. Matches : Stream(a)) =>
              Told' \/ \E a \in 0 .. Matches : Stream(a)'
      BY <2>1, SameStream
    <2> QED BY <2>2, <2>3, <2>4 DEF SearchInv
  <1> QED
    BY <1>1, WorkerStep, TakeStep, EmptiedStep, LoopStep, JoinStep DEF SearchNext, SearchLoop

LEMMA SearchInvariance == SearchSpec => []SearchInv
  BY SearchInitHolds, SearchStepHolds, PTL DEF SearchSpec

-----------------------------------------------------------------------------

(* Search, worker, queue and batch are what the code can hold                *)
(* (directgate_search_t); the queue is never longer than its room and the    *)
(* final event (QueueEntry, Search_Finish).                                  *)
THEOREM SearchTypesHold == SearchSpec => []SearchTypeOK
  <1>1. SearchInv => SearchTypeOK
    <2> SUFFICES ASSUME SearchInv PROVE SearchTypeOK
      OBVIOUS
    <2>1. Len(search.q) <= QueueEvents + 1
      BY SearchAssumption, LenProperties DEF SearchInv, SearchTyped, LoopHolds
    <2> QED BY <2>1 DEF SearchInv, SearchTyped, SearchTypeOK, Events
  <1> QED BY <1>1, SearchInvariance, PTL

(* For any number of matches and searches, any queue and any batch: the peer *)
(* is told the matches of a search in order and without a gap, all of them   *)
(* before "ok", nothing after its final word and nothing of a search once a   *)
(* later one was heard of, however cancellations, failed sends and new        *)
(* requests meet the worker (Search_Process, SendBatch, Search_Finish).       *)
THEOREM SearchIsToldInOrder == SearchSpec => []ToldInOrder
  <1>1. SearchInv => ToldInOrder
    BY DEF SearchInv, Latest, Ordered, ToldInOrder, Before, Numbers
  <1> QED BY <1>1, SearchInvariance, PTL

=============================================================================
