----------------------------- MODULE Hosts_proofs -----------------------------
(***************************************************************************)
(* Proofs about the two ends of a connection as processes: the command line *)
(* client and its login, the launcher that supervises the agent on Windows,  *)
(* its helper on the secure desktop and the capture.                         *)
(***************************************************************************)
EXTENDS MCHosts, FiniteSetTheorems, SequenceTheorems, TLAPS

-----------------------------------------------------------------------------
(* The client: what its exit status means, that it leaves the terminal as  *)
(* it found it, and what leads to a second attempt.                         *)


\* A flag of an attempt has its reason: a key that was authorized, a proof
\* that was accepted by a host somebody is logged on to, a key that was
\* refused.
FlagsHaveReasons ==
    /\ flags.added => host.authorized
    /\ flags.auth /\ ~flags.failed /\ ~opts.add => host.accepted /\ ~host.empty
    /\ status # "none" => pc = "exit"
    /\ flags.refused => usesKey
    /\ pc = "prepare" => ~flags.refused

\* The type invariant in two parts: plain values, and records.
PlainTyped ==
    /\ pc \in {"prepare", "fetch", "service", "prompt", "exit"}
    /\ stage \in Connected \cup {"off"} /\ usesKey \in BOOLEAN
    /\ secret \in BOOLEAN /\ raw \in BOOLEAN /\ finish \in BOOLEAN
    /\ status \in {"none", "ok", "error"} /\ resizes \in 0 .. MaxResizes

Flags == [auth : BOOLEAN, refused : BOOLEAN, failed : BOOLEAN, added : BOOLEAN]
Windows == [real : Sizes, last : Sizes \cup {0}, remote : Sizes \cup {0}, winch : BOOLEAN]
Answers == [accepted : BOOLEAN, empty : BOOLEAN, shell : Shells, authorized : BOOLEAN]

RecordsTyped ==
    /\ opts \in [add : BOOLEAN, required : BOOLEAN, tty : BOOLEAN]
    /\ flags \in Flags /\ win \in Windows /\ host \in Answers

ClientInv == PlainTyped /\ RecordsTyped /\ FlagsHaveReasons /\ EndsAsItSays

-----------------------------------------------------------------------------
(* The typing of what the handlers share.                                  *)

LEMMA WinchesTyped ==
    ASSUME NEW w \in Windows, NEW auth
    PROVE  Resized(w, auth) \in Windows
  BY DEF Resized, Windows

LEMMA WinchNoted ==
    ASSUME NEW w \in Windows
    PROVE  [w EXCEPT !.winch = FALSE] \in Windows
  BY DEF Windows

LEMMA ClientInitHolds == ClientInit => ClientInv
  <1> SUFFICES ASSUME ClientInit PROVE ClientInv
    OBVIOUS
  <1>1. PICK s \in Sizes : win = [real |-> s, last |-> 0, remote |-> 0, winch |-> FALSE]
    BY DEF ClientInit
  <1>2. win \in Windows
    BY <1>1 DEF Windows
  <1>3. PlainTyped
    <2>1. resizes \in 0 .. MaxResizes
      BY ClientAssumption DEF ClientInit
    <2> QED BY <2>1 DEF ClientInit, PlainTyped
  <1>4. RecordsTyped
    BY <1>2 DEF ClientInit, RecordsTyped, Flags, NoFlags, NoHost, Answers, Shells
  <1>5. FlagsHaveReasons /\ EndsAsItSays
    BY DEF ClientInit, FlagsHaveReasons, EndsAsItSays, NoFlags
  <1> QED BY <1>3, <1>4, <1>5 DEF ClientInv

LEMMA ClientStepHolds == ClientInv /\ [ClientNext]_clientVars => ClientInv'
  <1> SUFFICES ASSUME ClientInv, [ClientNext]_clientVars PROVE ClientInv'
    OBVIOUS
  <1> USE ClientAssumption DEF ClientInv, FlagsHaveReasons, EndsAsItSays, Connected, inputs, Main, Answers, Shells
  <1>1. CASE Prepare
    <2>1. PlainTyped'
      BY <1>1 DEF PlainTyped, Prepare, Prompted, Exit
    <2>2. RecordsTyped'
      BY <1>1 DEF RecordsTyped, Flags, Windows, NoFlags, Prepare, Prompted, Exit
    <2>3. FlagsHaveReasons' /\ EndsAsItSays'
      BY <1>1 DEF RecordsTyped, Flags, NoFlags, Prepare, Prompted, Exit
    <2> QED BY <2>1, <2>2, <2>3
  <1>2. CASE Fetch
    <2>1. PlainTyped'
      BY <1>2 DEF PlainTyped, Fetch, Exit
    <2>2. RecordsTyped'
      BY <1>2 DEF RecordsTyped, Flags, Windows, NoFlags, Fetch, Exit
    <2>3. FlagsHaveReasons' /\ EndsAsItSays'
      BY <1>2 DEF RecordsTyped, Flags, NoFlags, Fetch, Exit
    <2> QED BY <2>1, <2>2, <2>3
  <1>3. CASE InitSession
    <2>1. PlainTyped'
      BY <1>3 DEF PlainTyped, RecordsTyped, InitSession, Serving
    <2>2. RecordsTyped'
      BY <1>3 DEF RecordsTyped, Flags, Windows, NoFlags, InitSession, Serving
    <2>3. FlagsHaveReasons' /\ EndsAsItSays'
      BY <1>3 DEF RecordsTyped, Flags, NoFlags, InitSession, Serving
    <2> QED BY <2>1, <2>2, <2>3
  <1>4. CASE HandshakeResponse
    <2>1. PlainTyped'
      BY <1>4 DEF PlainTyped, HandshakeResponse, Serving, DestroySession
    <2>2. RecordsTyped'
      BY <1>4 DEF RecordsTyped, Flags, Windows, NoFlags, HandshakeResponse, Serving, DestroySession
    <2>3. FlagsHaveReasons' /\ EndsAsItSays'
      BY <1>4 DEF RecordsTyped, Flags, NoFlags, HandshakeResponse, Serving, DestroySession
    <2> QED BY <2>1, <2>2, <2>3
  <1>5. CASE HandleStart
    <2>1. PlainTyped'
      BY <1>5 DEF PlainTyped, HandleStart, Serving
    <2>2. RecordsTyped'
      BY <1>5 DEF RecordsTyped, Flags, Windows, NoFlags, HandleStart, Serving
    <2>3. FlagsHaveReasons' /\ EndsAsItSays'
      BY <1>5 DEF RecordsTyped, Flags, NoFlags, HandleStart, Serving
    <2> QED BY <2>1, <2>2, <2>3
  <1>6. CASE HandleChallenge
    <2>1. PlainTyped'
      BY <1>6 DEF PlainTyped, HandleChallenge, Serving, DestroySession
    <2>2. RecordsTyped'
      BY <1>6 DEF RecordsTyped, Flags, Windows, NoFlags, HandleChallenge, Serving, DestroySession
    <2>3. FlagsHaveReasons' /\ EndsAsItSays'
      BY <1>6 DEF RecordsTyped, Flags, NoFlags, HandleChallenge, Serving, DestroySession
    <2> QED BY <2>1, <2>2, <2>3
  <1>7. CASE HandleAccepted
    <2>1. Resized(win, TRUE) \in Windows
      BY WinchesTyped DEF RecordsTyped
    <2>2. PlainTyped'
      BY <1>7 DEF PlainTyped, HandleAccepted, Authenticated, Serving, DestroySession
    <2>3. RecordsTyped'
      BY <1>7, <2>1 DEF RecordsTyped, Flags, HandleAccepted, Authenticated, Serving, DestroySession
    <2>4. FlagsHaveReasons' /\ EndsAsItSays'
      BY <1>7 DEF RecordsTyped, Flags, HandleAccepted, Authenticated, Serving, DestroySession
    <2> QED BY <2>2, <2>3, <2>4
  <1>20. CASE HostAccepts
    <2>1. PlainTyped'
      BY <1>20 DEF PlainTyped, HostAccepts
    <2>2. RecordsTyped'
      BY <1>20 DEF RecordsTyped, Flags, Windows, HostAccepts
    <2>3. FlagsHaveReasons' /\ EndsAsItSays'
      BY <1>20 DEF RecordsTyped, Flags, HostAccepts
    <2> QED BY <2>1, <2>2, <2>3
  <1>21. CASE HostAnswers
    <2>1. PlainTyped'
      BY <1>21 DEF PlainTyped, HostAnswers
    <2>2. RecordsTyped'
      BY <1>21 DEF RecordsTyped, Flags, Windows, HostAnswers
    <2>3. FlagsHaveReasons' /\ EndsAsItSays'
      BY <1>21 DEF RecordsTyped, Flags, HostAnswers
    <2> QED BY <2>1, <2>2, <2>3
  <1>22. CASE HandleStatusMsg
    <2>1. PlainTyped'
      BY <1>22 DEF PlainTyped, HandleStatusMsg, Serving, Disconnect, DestroySession
    <2>2. RecordsTyped'
      BY <1>22 DEF RecordsTyped, Flags, Windows, HandleStatusMsg, Serving, Disconnect, DestroySession
    <2>3. FlagsHaveReasons' /\ EndsAsItSays'
      BY <1>22 DEF RecordsTyped, Flags, HandleStatusMsg, Serving, Disconnect, DestroySession
    <2> QED BY <2>1, <2>2, <2>3
  <1>8. CASE HandleRefused
    <2>1. PlainTyped'
      BY <1>8 DEF PlainTyped, HandleRefused, Serving, DestroySession
    <2>2. RecordsTyped'
      BY <1>8 DEF PlainTyped, RecordsTyped, Flags, Windows, NoFlags, HandleRefused, Serving, DestroySession
    <2>3. FlagsHaveReasons' /\ EndsAsItSays'
      BY <1>8 DEF RecordsTyped, Flags, NoFlags, HandleRefused, Serving, DestroySession
    <2> QED BY <2>1, <2>2, <2>3
  <1>9. CASE HostAuthorizes
    <2>1. PlainTyped'
      BY <1>9 DEF PlainTyped, HostAuthorizes
    <2>2. RecordsTyped'
      BY <1>9 DEF RecordsTyped, Flags, Windows, NoFlags, HostAuthorizes
    <2>3. FlagsHaveReasons' /\ EndsAsItSays'
      BY <1>9 DEF RecordsTyped, Flags, NoFlags, HostAuthorizes
    <2> QED BY <2>1, <2>2, <2>3
  <1>10. CASE HandleAdminMsg
    <2>1. PlainTyped'
      BY <1>10 DEF PlainTyped, HandleAdminMsg, Serving, DestroySession
    <2>2. RecordsTyped'
      <3>1. PICK ok \in BOOLEAN : flags' = [flags EXCEPT !.added = ok]
        BY <1>10 DEF RecordsTyped, HandleAdminMsg
      <3>2. flags' \in Flags
        BY <3>1 DEF RecordsTyped, Flags
      <3>3. UNCHANGED <<opts, win, host>>
        BY <1>10 DEF HandleAdminMsg
      <3> QED BY <3>2, <3>3 DEF RecordsTyped
    <2>3. FlagsHaveReasons' /\ EndsAsItSays'
      BY <1>10 DEF RecordsTyped, Flags, NoFlags, HandleAdminMsg, Serving, DestroySession
    <2> QED BY <2>1, <2>2, <2>3
  <1>11. CASE SessionEnds
    <2>1. PlainTyped'
      BY <1>11 DEF PlainTyped, SessionEnds, Serving, Disconnect, DestroySession
    <2>2. RecordsTyped'
      BY <1>11 DEF RecordsTyped, Flags, Windows, NoFlags, SessionEnds, Serving, Disconnect, DestroySession
    <2>3. FlagsHaveReasons' /\ EndsAsItSays'
      BY <1>11 DEF RecordsTyped, Flags, NoFlags, SessionEnds, Serving, Disconnect, DestroySession
    <2> QED BY <2>1, <2>2, <2>3
  <1>12. CASE InputEnds
    <2>1. PlainTyped'
      BY <1>12 DEF PlainTyped, InputEnds, Serving
    <2>2. RecordsTyped'
      BY <1>12 DEF RecordsTyped, Flags, Windows, NoFlags, InputEnds, Serving
    <2>3. FlagsHaveReasons' /\ EndsAsItSays'
      BY <1>12 DEF RecordsTyped, Flags, NoFlags, InputEnds, Serving
    <2> QED BY <2>1, <2>2, <2>3
  <1>13. CASE Violated
    <2>1. PlainTyped'
      BY <1>13 DEF PlainTyped, Violated, Serving, Disconnect, DestroySession
    <2>2. RecordsTyped'
      BY <1>13 DEF RecordsTyped, Flags, Windows, NoFlags, Violated, Serving, Disconnect, DestroySession
    <2>3. FlagsHaveReasons' /\ EndsAsItSays'
      BY <1>13 DEF RecordsTyped, Flags, NoFlags, Violated, Serving, Disconnect, DestroySession
    <2> QED BY <2>1, <2>2, <2>3
  <1>14. CASE Interrupt
    <2> DEFINE w == IF stage = "up" THEN win ELSE Resized(win, flags.auth)
    <2>1. win \in Windows /\ w \in Windows
      BY WinchesTyped DEF RecordsTyped
    <2>2. PlainTyped'
      BY <1>14 DEF PlainTyped, Interrupt, Serving
    <2>3. RecordsTyped'
      <3>1. win' \in Windows
        <4>1. win' = [win EXCEPT !.winch = FALSE] \/ win' = [w EXCEPT !.winch = FALSE]
          BY <1>14 DEF Interrupt
        <4> HIDE DEF w
        <4> QED BY <4>1, <2>1, WinchNoted
      <3> QED BY <1>14, <3>1 DEF RecordsTyped, Interrupt
    <2>4. FlagsHaveReasons' /\ EndsAsItSays'
      BY <1>14 DEF RecordsTyped, Flags, Interrupt, Serving
    <2> QED BY <2>2, <2>3, <2>4
  <1>15. CASE Signal
    <2>1. PlainTyped'
      BY <1>15 DEF PlainTyped, Signal
    <2>2. RecordsTyped'
      BY <1>15 DEF RecordsTyped, Flags, Windows, NoFlags, Signal
    <2>3. FlagsHaveReasons' /\ EndsAsItSays'
      BY <1>15 DEF RecordsTyped, Flags, NoFlags, Signal
    <2> QED BY <2>1, <2>2, <2>3
  <1>16. CASE Winch
    <2>1. PlainTyped'
      BY <1>16 DEF PlainTyped, Winch
    <2>2. RecordsTyped'
      <3>1. PICK s \in Sizes : win' = [win EXCEPT !.real = s, !.winch = TRUE]
        BY <1>16 DEF Winch
      <3>2. win' \in Windows
        BY <3>1 DEF RecordsTyped, Windows
      <3> QED BY <1>16, <3>2 DEF RecordsTyped, Winch
    <2>3. FlagsHaveReasons' /\ EndsAsItSays'
      BY <1>16 DEF RecordsTyped, Flags, NoFlags, Winch
    <2> QED BY <2>1, <2>2, <2>3
  <1>17. CASE LoopEnds
    <2>1. PlainTyped'
      BY <1>17 DEF PlainTyped, LoopEnds, Exit, Status
    <2>2. RecordsTyped'
      BY <1>17 DEF RecordsTyped, Flags, Windows, NoFlags, LoopEnds, Exit, Status
    <2>3. FlagsHaveReasons' /\ EndsAsItSays'
      BY <1>17 DEF RecordsTyped, Flags, NoFlags, LoopEnds, Exit, Status
    <2> QED BY <2>1, <2>2, <2>3
  <1>18. CASE Again
    <2>1. PlainTyped'
      BY <1>18 DEF PlainTyped, Again, Prompted, Exit
    <2>2. RecordsTyped'
      BY <1>18 DEF RecordsTyped, Flags, Windows, NoFlags, Again, Prompted, Exit
    <2>3. FlagsHaveReasons' /\ EndsAsItSays'
      BY <1>18 DEF RecordsTyped, Flags, NoFlags, Again, Prompted, Exit
    <2> QED BY <2>1, <2>2, <2>3
  <1>19. CASE Done \/ UNCHANGED clientVars
    <2>1. PlainTyped'
      BY <1>19 DEF PlainTyped, Done, clientVars
    <2>2. RecordsTyped'
      BY <1>19 DEF RecordsTyped, Flags, Windows, NoFlags, Done, clientVars
    <2>3. FlagsHaveReasons' /\ EndsAsItSays'
      BY <1>19 DEF RecordsTyped, Flags, NoFlags, Done, clientVars
    <2> QED BY <2>1, <2>2, <2>3
  <1> QED BY <1>1, <1>2, <1>3, <1>4, <1>5, <1>6, <1>7, <1>8, <1>9, <1>10, <1>11, <1>12,
             <1>13, <1>14, <1>15, <1>16, <1>17, <1>18, <1>19, <1>20, <1>21, <1>22 DEF ClientNext

LEMMA ClientInvariance == ClientSpec => []ClientInv
  BY ClientInitHolds, ClientStepHolds, PTL DEF ClientSpec

-----------------------------------------------------------------------------

\* Every variable stays in its range (client.c).
THEOREM ClientTypesHold == ClientSpec => []ClientTypeOK
  <1>1. ClientInv => ClientTypeOK
    BY DEF ClientInv, ClientTypeOK, PlainTyped, RecordsTyped, Flags, Windows, Answers
  <1> QED BY <1>1, ClientInvariance, PTL

\* A status of success means that the host, in this attempt, accepted the
\* client and has someone logged on, or authorized the key; and the client
\* asks for a password or exits only with the terminal given back (main and
\* DirectGate_Client_Run). Whether the shell it asked for was given, the
\* status does not say.
THEOREM StatusIsTrue == ClientSpec => []EndsAsItSays
  <1>1. ClientInv => EndsAsItSays
    BY DEF ClientInv
  <1> QED BY <1>1, ClientInvariance, PTL

\* Only a key the host refused leads to the password (bKeyAuthFailed).
THEOREM FallbackIsAsked == ClientSpec => NoQuietFallback
  <1>1. ClientInv /\ [ClientNext]_clientVars
          => [pc' = "prompt" /\ pc # "prompt" => usesKey /\ flags.refused]_clientVars
    <2> SUFFICES ASSUME ClientInv, ClientNext, pc' = "prompt", pc # "prompt"
                 PROVE  usesKey /\ flags.refused
      BY DEF clientVars
    <2>1. LoopEnds
      BY DEF ClientNext, HostAccepts, HostAnswers, HandleStatusMsg, Prepare, Prompted, Exit, Fetch, InitSession, HandshakeResponse,
             HandleStart, HandleChallenge, HandleAccepted, HandleRefused, HostAuthorizes,
             HandleAdminMsg, SessionEnds, InputEnds, Violated, Interrupt, Signal, Winch,
             Again, Done, Main, inputs, clientVars
    <2> QED BY <2>1 DEF LoopEnds, Exit, ClientInv, FlagsHaveReasons
  <1> QED BY <1>1, ClientInvariance, PTL DEF ClientSpec, NoQuietFallback

-----------------------------------------------------------------------------
(* The login.                                                               *)

\* The ranges of the login's variables: what a run keeps for itself, and what
\* outlives it.
RunTyped ==
    /\ at \in Steps /\ cmd \in {"logout", "login", "devices"} /\ tty \in BOOLEAN
    /\ again \in BOOLEAN /\ paste \in BOOLEAN /\ code \in {"none", "own", "other"}
    /\ runs \in 0 .. MaxRuns

Files == [gen : Tokens \cup {None}, fresh : BOOLEAN]
Apis == [issued : 0 .. MaxTokens, live : SUBSET Tokens, taken : SUBSET Tokens]
KeptTyped == acct \in Tokens \cup {None} /\ file \in Files /\ api \in Apis

\* No token is one that was not issued yet. A run that has a session in hand
\* could refresh it if the one in the file can be, and the one it is about to
\* store is no older than that.
InHand == {"refresh", "retry", "save", "fetch", "pick"}
SessionIsCurrent ==
    /\ file.gen <= api.issued /\ acct <= api.issued
    /\ at \in InHand /\ file.gen \in api.live => acct \in api.live
    /\ at = "save" => acct >= file.gen

LoginInv == RunTyped /\ KeptTyped /\ SessionIsCurrent

\* What a token just issued is to those before it.
LEMMA Issuing ==
    ASSUME LoginInv, NEW old, Issue(old)
    PROVE  /\ api' \in Apis /\ api'.issued = api.issued + 1
           /\ api.issued + 1 \in Tokens /\ api.issued + 1 \in api'.live
           /\ file.gen \in Nat /\ file.gen < api.issued + 1
           /\ acct \in Nat /\ acct < api.issued + 1
  <1>1. /\ api.issued \in 0 .. MaxTokens /\ api.live \subseteq Tokens /\ api.taken \subseteq Tokens
        /\ file.gen \in Nat /\ acct \in Nat
    BY LoginAssumption DEF LoginInv, KeptTyped, Apis, Files, Tokens, None
  <1>2. api.issued < MaxTokens
    BY DEF Issue
  <1>3. api.issued + 1 \in Tokens /\ api.issued + 1 \in 0 .. MaxTokens
    BY <1>1, <1>2, LoginAssumption DEF Tokens
  <1>4. file.gen < api.issued + 1 /\ acct < api.issued + 1
    BY <1>1 DEF LoginInv, SessionIsCurrent
  <1>5. (api.live \ {old}) \cup {api.issued + 1} \subseteq Tokens
        /\ api.taken \cup {api.issued + 1} \subseteq Tokens
    BY <1>1, <1>3
  <1>6. api' = [issued |-> api.issued + 1,
                live |-> (api.live \ {old}) \cup {api.issued + 1},
                taken |-> api.taken \cup {api.issued + 1}]
    BY DEF Issue
  <1>7. api' \in Apis
    BY <1>3, <1>5, <1>6 DEF Apis
  <1> QED BY <1>1, <1>3, <1>4, <1>6, <1>7

\* The outcomes of a refresh.
LEMMA Refreshing ==
    ASSUME LoginInv, NEW how \in {"ok", "failed", "rejected"}, Refresh(how)
    PROVE  /\ api' \in Apis /\ acct' \in Tokens \cup {None} /\ file.gen <= api'.issued
           /\ acct' <= api'.issued
           /\ how = "ok" => acct' \in api'.live /\ acct' >= file.gen
           /\ how = "rejected" => acct \notin api.live /\ api' = api
  <1>1. CASE api' = api /\ acct' = acct /\ how # "ok"
    BY <1>1 DEF LoginInv, KeptTyped, SessionIsCurrent, Refresh
  <1>2. CASE Issue(acct)
    <2>1. \/ how = "ok" /\ acct' = api.issued + 1
          \/ how = "failed" /\ acct' = acct
          \/ how = "rejected" /\ acct' = acct /\ api' = api
      BY DEF Refresh, ApplyToken
    <2>2. /\ api' \in Apis /\ api'.issued = api.issued + 1
          /\ api.issued + 1 \in Tokens /\ api.issued + 1 \in api'.live
          /\ file.gen \in Nat /\ file.gen < api.issued + 1
          /\ acct \in Nat /\ acct < api.issued + 1
      BY <1>2, Issuing
    <2>3. api.issued \in Nat /\ acct \in Tokens \cup {None}
      BY DEF LoginInv, KeptTyped, Apis
    <2>4. file.gen <= api.issued + 1 /\ acct <= api.issued + 1 /\ api.issued + 1 <= api.issued + 1
      BY <2>2, <2>3
    <2> QED BY <1>1, <2>1, <2>2, <2>3, <2>4
  <1> QED BY <1>1, <1>2 DEF Refresh

LEMMA LoginInitHolds == LoginInit => LoginInv
  <1> SUFFICES ASSUME LoginInit PROVE LoginInv
    OBVIOUS
  <1>1. RunTyped
    <2>1. runs \in 0 .. MaxRuns
      BY LoginAssumption DEF LoginInit
    <2> QED BY <2>1 DEF LoginInit, RunTyped, Steps
  <1>2. KeptTyped
    BY LoginAssumption DEF LoginInit, KeptTyped, Files, Apis, NoFile
  <1>3. SessionIsCurrent
    BY DEF LoginInit, SessionIsCurrent, NoFile, None, InHand
  <1> QED BY <1>1, <1>2, <1>3 DEF LoginInv

LEMMA LoginStepHolds == LoginInv /\ [LoginNext]_loginVars => LoginInv'
  <1> SUFFICES ASSUME LoginInv, [LoginNext]_loginVars PROVE LoginInv'
    OBVIOUS
  <1> USE DEF LoginInv, locals
  <1>0. NoFile \in Files /\ None \in Tokens \cup {None} /\ NoFile.gen = 0
    BY DEF NoFile, Files, None
  <1>1. api.issued \in Nat /\ file.gen \in Nat /\ file.gen \in Tokens \cup {None}
    BY LoginAssumption DEF KeptTyped, Apis, Files, Tokens, None
  <1>2. CASE Start
    <2>1. RunTyped'
      <3>1. runs' \in 0 .. MaxRuns
        BY <1>2, LoginAssumption DEF RunTyped, Start
      <3> QED BY <1>2, <3>1 DEF RunTyped, Start, Steps
    <2>2. KeptTyped' /\ SessionIsCurrent'
      BY <1>0, <1>1, <1>2 DEF KeptTyped, SessionIsCurrent, Start, InHand, None
    <2> QED BY <2>1, <2>2
  <1>3. CASE Expire
    <2>1. file' \in Files /\ file'.gen = file.gen
      BY <1>3 DEF Expire, KeptTyped, Files
    <2>2. api' \in Apis /\ api'.issued = api.issued /\ api'.live = api.live
      BY <1>3 DEF Expire, KeptTyped, Apis
    <2> QED BY <1>3, <2>1, <2>2 DEF RunTyped, KeptTyped, SessionIsCurrent, Expire
  <1>4. CASE SignedOut
    <2>1. api' \in Apis /\ api'.issued = api.issued /\ api'.live = {}
      BY <1>4 DEF SignedOut, KeptTyped, Apis
    <2> QED BY <1>4, <2>1 DEF RunTyped, KeptTyped, SessionIsCurrent, SignedOut
  <1>5. CASE Logout
    <2>1. file' \in Files /\ file'.gen <= api.issued
      BY <1>0, <1>1, <1>5 DEF Logout, Forget, KeptTyped, SessionIsCurrent
    <2>2. RunTyped'
      BY <1>5 DEF RunTyped, Logout, RunEnds, Steps
    <2>3. KeptTyped' /\ SessionIsCurrent'
      BY <1>0, <1>1, <1>5, <2>1 DEF KeptTyped, SessionIsCurrent, Logout, RunEnds, InHand, None
    <2> QED BY <2>2, <2>3
  <1>6. CASE Login
    BY <1>6 DEF RunTyped, KeptTyped, SessionIsCurrent, Login, Steps, InHand
  <1>7. CASE Load
    <2>1. /\ UNCHANGED <<paste, code, file, api, cmd, tty, again, runs>>
          /\ \/ acct' = file.gen /\ at' \in {"refresh", "fetch"}
             \/ at' = "listen" /\ acct' = acct
             \/ at' = "idle" /\ acct' = None
      BY <1>7 DEF Load, OrInteractive, RunEnds
    <2> QED BY <1>0, <1>1, <2>1 DEF RunTyped, KeptTyped, SessionIsCurrent, Steps, InHand, None
  <1>8. CASE EnsureRefresh
    <2>1. PICK how \in {"ok", "failed", "rejected"} :
            Refresh(how) /\ (how = "ok" => at' = "save") /\ (how # "ok" => at' \in {"listen", "idle"})
      BY <1>8 DEF EnsureRefresh
    <2>2. /\ api' \in Apis /\ acct' \in Tokens \cup {None} /\ file.gen <= api'.issued
          /\ acct' <= api'.issued
          /\ how = "ok" => acct' \in api'.live /\ acct' >= file.gen
      BY <2>1, Refreshing
    <2>3. UNCHANGED <<paste, code, file, cmd, tty, again, runs>>
      BY <1>8 DEF EnsureRefresh
    <2> QED BY <2>1, <2>2, <2>3 DEF RunTyped, KeptTyped, SessionIsCurrent, Steps, InHand, None
  <1>9. CASE Keep
    <2>1. /\ UNCHANGED <<paste, code, api, cmd, tty, again, runs>>
          /\ \/ at' = "idle" /\ acct' = None
             \/ at' = "fetch" /\ acct' = acct
      <3>1. CASE cmd = "login"
        BY <1>9, <3>1 DEF Keep, RunEnds
      <3>2. CASE cmd # "login"
        BY <1>9, <3>2 DEF Keep
      <3> QED BY <3>1, <3>2
    <2>2. file' = file \/ file' = [gen |-> acct, fresh |-> TRUE]
      BY <1>9 DEF Keep, Save, Saved
    <2>3. file' \in Files /\ (file'.gen = file.gen \/ file'.gen = acct)
      <3>1. [gen |-> acct, fresh |-> TRUE] \in Files
        BY DEF KeptTyped, Files
      <3>2. file' = [gen |-> acct, fresh |-> TRUE] => file'.gen = acct
        OBVIOUS
      <3> QED BY <2>2, <3>1, <3>2 DEF KeptTyped
    <2>4. at = "save"
      BY <1>9 DEF Keep
    <2> QED BY <1>0, <1>1, <2>1, <2>3, <2>4 DEF RunTyped, KeptTyped, SessionIsCurrent, Steps, InHand, None
  <1>10. CASE FetchDevices
    BY <1>10 DEF RunTyped, KeptTyped, SessionIsCurrent, FetchDevices, Steps, InHand
  <1>11. CASE Retry
    <2>1. PICK how \in {"ok", "failed", "rejected"} :
            /\ Refresh(how)
            /\ CASE how = "ok" -> at' = "save" /\ UNCHANGED file
                 [] SignsInAgain(how) -> Forget /\ (IF tty THEN at' = "listen" ELSE at' = "idle")
                 [] OTHER -> at' = "idle" /\ UNCHANGED file
      BY <1>11 DEF Retry
    <2>2. /\ api' \in Apis /\ acct' \in Tokens \cup {None} /\ file.gen <= api'.issued
          /\ acct' <= api'.issued
          /\ how = "ok" => acct' \in api'.live /\ acct' >= file.gen
      BY <2>1, Refreshing
    <2>3. /\ again' = TRUE /\ UNCHANGED <<cmd, tty, paste, code, runs>>
      BY <1>11 DEF Retry
    <2>4. \/ how = "ok" /\ at' = "save" /\ file' = file
          \/ how # "ok" /\ at' \in {"listen", "idle"} /\ file' \in {file, NoFile}
      BY <2>1 DEF SignsInAgain, Forget
    <2>5. file' \in Files /\ file'.gen <= api'.issued
      <3>1. api'.issued \in Nat
        BY <2>2 DEF Apis
      <3> QED BY <1>0, <2>2, <2>4, <3>1 DEF KeptTyped
    <2> QED BY <2>2, <2>3, <2>4, <2>5 DEF RunTyped, KeptTyped, SessionIsCurrent, Steps, InHand, None
  <1>12. CASE Resolve \/ GivesUp \/ Killed
    <2>1. /\ UNCHANGED <<paste, file, api, cmd, tty, again, runs>> /\ at' = "idle" /\ acct' = None
          /\ code' \in {code, "none"}
      BY <1>12 DEF Resolve, GivesUp, Killed, RunEnds
    <2> QED BY <1>0, <1>1, <2>1 DEF RunTyped, KeptTyped, SessionIsCurrent, Steps, InHand, None
  <1>13. CASE Listen \/ ReadPaste \/ ServeOnce
    <2>1. /\ UNCHANGED <<file, api, cmd, tty, again, runs>>
          /\ at' \in {"await", "idle", "redeem"} /\ acct' \in {acct, None}
          /\ paste' \in BOOLEAN /\ code' \in {"none", "own", "other"}
      BY <1>13 DEF Listen, ReadPaste, ServeOnce, Got, RunEnds, RunTyped
    <2> QED BY <1>0, <1>1, <2>1 DEF RunTyped, KeptTyped, SessionIsCurrent, Steps, InHand, None
  <1>14. CASE Redeem
    <2>1. /\ UNCHANGED <<paste, file, cmd, tty, again, runs>> /\ code' = "none"
      BY <1>14 DEF Redeem
    <2>2. CASE Issue(None)
      <3>1. /\ api' \in Apis /\ api'.issued = api.issued + 1
            /\ api.issued + 1 \in Tokens /\ api.issued + 1 \in api'.live
            /\ file.gen \in Nat /\ file.gen < api.issued + 1
        BY <2>2, Issuing
      <3>2. file.gen <= api.issued + 1 /\ api.issued + 1 <= api.issued + 1 /\ 0 <= api.issued + 1
        BY <1>1, <3>1
      <3>3. \/ acct' = api.issued + 1 /\ at' = "save"
            \/ acct' = None /\ at' = "idle"
        BY <1>14 DEF Redeem, ApplyToken, RunEnds
      <3> QED BY <1>0, <2>1, <3>1, <3>2, <3>3
           DEF RunTyped, KeptTyped, SessionIsCurrent, Steps, InHand, None
    <2>3. CASE RunEnds /\ UNCHANGED api
      BY <1>0, <1>1, <2>1, <2>3 DEF RunTyped, KeptTyped, SessionIsCurrent, Steps, InHand, None, RunEnds
    <2> QED BY <1>14, <2>2, <2>3 DEF Redeem
  <1>15. CASE UNCHANGED loginVars
    BY <1>15 DEF RunTyped, KeptTyped, SessionIsCurrent, loginVars
  <1> QED BY <1>2, <1>3, <1>4, <1>5, <1>6, <1>7, <1>8, <1>9, <1>10, <1>11, <1>12, <1>13, <1>14,
             <1>15 DEF LoginNext

LEMMA LoginInvariance == LoginSpec => []LoginInv
  BY LoginInitHolds, LoginStepHolds, PTL DEF LoginSpec

\* Every variable of the login stays in its range (login.c).
THEOREM LoginTypesHold == LoginSpec => []LoginTypeOK
  <1>1. LoginInv => LoginTypeOK
    BY DEF LoginInv, RunTyped, KeptTyped, Files, Apis, LoginTypeOK
  <1> QED BY <1>1, LoginInvariance, PTL

\* However many tokens are issued and runs are killed, a stored session that
\* could still be refreshed is only given up by a logout or for a newer one
\* (DirectGate_Client_LoadDevices, DirectGate_Login_Ensure).
THEOREM WhatWorksIsKept == LoginSpec => KeepsWhatWorks
  <1>1. LoginInv /\ [LoginNext]_loginVars
          => [file.gen \in api.live /\ file'.gen # file.gen =>
                (at = "begin" /\ cmd = "logout") \/ file'.gen > file.gen]_loginVars
    <2> SUFFICES ASSUME LoginInv, LoginNext, file.gen \in api.live, file'.gen # file.gen,
                        ~(at = "begin" /\ cmd = "logout")
                 PROVE  file'.gen > file.gen
      BY DEF loginVars
    <2>1. file' # file
      OBVIOUS
    <2>2. file \in Files /\ file.gen \in Nat /\ acct \in Nat
      BY LoginAssumption DEF LoginInv, KeptTyped, Files, Tokens, None
    <2>3. ~Expire
      BY <2>2 DEF Expire, Files
    <2>4. CASE Keep
      <3>1. file'.gen = acct /\ at = "save"
        BY <2>1, <2>4 DEF Keep, Save, Saved
      <3> QED BY <2>2, <3>1 DEF LoginInv, SessionIsCurrent
    <2>5. CASE Retry
      <3>1. Refresh("rejected") /\ at = "retry"
        BY <2>1, <2>5 DEF Retry, SignsInAgain
      <3>2. acct \notin api.live
        BY <3>1 DEF Refresh
      <3> QED BY <3>1, <3>2 DEF LoginInv, SessionIsCurrent, InHand
    <2> QED BY <2>1, <2>3, <2>4, <2>5 DEF LoginNext, Start, SignedOut, Logout, Login, Load, EnsureRefresh,
               FetchDevices, Resolve, Listen, ReadPaste, ServeOnce, GivesUp, Redeem, Killed
  <1> QED BY <1>1, LoginInvariance, PTL DEF LoginSpec, KeepsWhatWorks

-----------------------------------------------------------------------------
(* The launcher.                                                            *)

\* The ranges of the launcher's variables: those that do not count, and those
\* that do.
LauncherPlain ==
    /\ occupant \in [Sessions -> {"user", "closing", "other", "empty", "gone"}]
    /\ console \in Sessions \cup {NoSession} /\ preLogon \in BOOLEAN
    /\ loop \in {"config", "check", "spawn", "aimed", "wait", "ended"} /\ stop \in BOOLEAN
    /\ agent \in Agents /\ alive \in BOOLEAN /\ token \in Agents
    /\ suspect \in Sessions \cup {NoSession}

LauncherCounts ==
    /\ goneFor \in 0 .. Logoff + 1 /\ respawn \in 0 .. Respawn
    /\ settle \in 0 .. Settle /\ age \in 0 .. Infant
    /\ over \in 0 .. 2 /\ denials \in 0 .. Logoff
    /\ events \in 0 .. MaxEvents /\ misreads \in 0 .. MaxMisreads

\* The window only runs for an agent of shell.user, and every tick of it has
\* had its denial, but for the one that has just passed.
WindowIsDenied ==
    /\ agent.kind # "user" => goneFor = 0
    /\ loop \in {"spawn", "aimed"} => agent.kind = "none"
    /\ denials < Logoff => goneFor <= denials \/ (loop = "check" /\ goneFor = denials + 1)

\* A stand-in that is where it may not be was found there by the last tick,
\* and the check that follows is still to come.
FoundOnce == over <= 1 /\ (over > 0 => loop = "check" /\ Misplaced(agent, alive, occupant, console))

LauncherInv == LauncherPlain /\ LauncherCounts /\ WindowIsDenied /\ FoundOnce

LEMMA Counting ==
    ASSUME NEW top \in Nat, NEW n \in 0 .. top
    PROVE  Upto(n, top) \in 0 .. top /\ Drop(n) \in 0 .. top
  BY DEF Upto, Drop

LEMMA LauncherInitHolds == LauncherInit => LauncherInv
  <1> SUFFICES ASSUME LauncherInit PROVE LauncherInv
    OBVIOUS
  <1>1. LauncherPlain
    BY DEF LauncherInit, LauncherPlain, NoAgent, Agents
  <1>2. LauncherCounts
    BY LauncherAssumption DEF LauncherInit, LauncherCounts
  <1>3. WindowIsDenied /\ FoundOnce
    BY DEF LauncherInit, WindowIsDenied, FoundOnce, NoAgent
  <1> QED BY <1>1, <1>2, <1>3 DEF LauncherInv

LEMMA LauncherStepHolds == LauncherInv /\ [LauncherNext]_launcherVars => LauncherInv'
  <1> SUFFICES ASSUME LauncherInv, [LauncherNext]_launcherVars PROVE LauncherInv'
    OBVIOUS
  <1> USE LauncherAssumption DEF LauncherInv, world, clocks
  <1>0. NoAgent \in Agents /\ NoAgent.kind = "none"
    BY DEF NoAgent, Agents
  <1>1. CASE Configured
    <2>1. LauncherPlain' /\ LauncherCounts'
      BY <1>1 DEF LauncherPlain, LauncherCounts, Configured
    <2>2. WindowIsDenied' /\ FoundOnce'
      BY <1>1 DEF WindowIsDenied, FoundOnce, LauncherCounts, Configured
    <2> QED BY <2>1, <2>2
  <1>2. CASE Check
    <2>1. /\ UNCHANGED <<occupant, console, events, preLogon, stop, token, respawn, suspect, settle, age>>
          /\ loop = "check" /\ loop' = IF agent'.kind = "none" THEN "spawn" ELSE "wait"
      BY <1>2 DEF Check
    <2>2. misreads' \in 0 .. MaxMisreads
      BY <1>2 DEF Check, CheckPreLogon, CheckUser, ReadRight, Misread, LauncherCounts
    <2>3. CASE CheckPreLogon
      <3>1. /\ denials' = denials /\ goneFor' = 0 /\ over' = 0
            /\ agent' = agent \/ agent' = NoAgent
            /\ alive' \in BOOLEAN
        <4>1. CASE StopAgent
          BY <2>3, <4>1 DEF CheckPreLogon, StopAgent
        <4>2. CASE ~SeatIsTaken /\ KeepAgent /\ goneFor' = 0
          <5>1. ~Misplaced(agent, alive, occupant, console)
            BY <4>2 DEF SeatIsTaken, Misplaced, SessionHasUser
          <5>2. over = 0
            BY <5>1 DEF FoundOnce, LauncherCounts
          <5> QED BY <2>3, <4>2, <5>2 DEF CheckPreLogon, KeepAgent, LauncherPlain
        <4>3. StopAgent \/ (~SeatIsTaken /\ KeepAgent /\ goneFor' = 0)
          BY <2>3 DEF CheckPreLogon, HasToGo
        <4> QED BY <4>1, <4>2, <4>3
      <3>2. LauncherPlain'
        BY <1>0, <2>1, <3>1 DEF LauncherPlain
      <3>3. LauncherCounts'
        BY <2>1, <2>2, <3>1 DEF LauncherCounts
      <3>4. WindowIsDenied' /\ FoundOnce'
        BY <1>0, <2>1, <3>1 DEF WindowIsDenied, FoundOnce, LauncherCounts
      <3> QED BY <3>2, <3>3, <3>4
    <2>4. CASE CheckUser
      <3>1. \/ StillTheirs /\ denials' = 0
            \/ NotTheirs /\ denials' = Upto(denials, Logoff)
        BY <2>4 DEF CheckUser
      <3>2. Upto(denials, Logoff) \in 0 .. Logoff
            /\ (Upto(denials, Logoff) = Logoff \/ Upto(denials, Logoff) = denials + 1)
        BY DEF Upto, LauncherCounts
      <3>3. agent.kind = "user" /\ over = 0
        BY <2>4 DEF CheckUser, FoundOnce, Misplaced, LauncherCounts
      <3>4. CASE goneFor' = 0
        <4>1. /\ over' = 0 /\ alive' \in BOOLEAN /\ denials' \in 0 .. Logoff
              /\ agent' = agent \/ agent' = NoAgent
          <5>1. denials' \in 0 .. Logoff
            BY <3>1, <3>2
          <5>2. alive \in BOOLEAN
            BY DEF LauncherPlain
          <5>3. CASE StillTheirs
            BY <3>3, <5>1, <5>2, <5>3 DEF StillTheirs, KeepAgent
          <5>4. CASE NotTheirs
            BY <3>3, <3>4, <5>1, <5>2, <5>4 DEF NotTheirs, KeepAgent, StopAgent
          <5> QED BY <3>1, <5>3, <5>4
        <4>2. LauncherPlain'
          BY <1>0, <2>1, <4>1 DEF LauncherPlain
        <4>3. LauncherCounts'
          BY <2>1, <2>2, <3>4, <4>1 DEF LauncherCounts
        <4>4. WindowIsDenied'
          <5>1. loop' \in {"spawn", "aimed"} => agent'.kind = "none"
            BY <2>1
          <5>2. 0 <= denials'
            BY <4>1
          <5> QED BY <3>4, <5>1, <5>2 DEF WindowIsDenied
        <4>5. FoundOnce'
          BY <4>1 DEF FoundOnce
        <4> QED BY <4>2, <4>3, <4>4, <4>5
      <3>5. CASE goneFor' # 0
        <4>1. /\ agent' = agent /\ alive' = alive /\ over' = 0 /\ denials' = Upto(denials, Logoff)
              /\ goneFor <= Logoff /\ goneFor' = IF goneFor = 0 THEN 1 ELSE goneFor
          BY <3>1, <3>3, <3>5 DEF StillTheirs, NotTheirs, KeepAgent, StopAgent, LauncherCounts
        <4>2. LauncherPlain'
          BY <2>1, <4>1 DEF LauncherPlain
        <4>3. LauncherCounts'
          BY <2>1, <2>2, <3>2, <4>1 DEF LauncherCounts
        <4>4. denials' < Logoff => goneFor' <= denials'
          BY <2>1, <3>2, <4>1 DEF LauncherCounts, WindowIsDenied
        <4>5. WindowIsDenied' /\ FoundOnce'
          <5>1. loop' = "wait"
            BY <2>1, <3>3, <4>1
          <5>2. FoundOnce'
            BY <4>1 DEF FoundOnce
          <5>3. denials' < Logoff => goneFor' <= denials'
            BY <2>1, <3>2, <4>1, <4>4, <4>3 DEF LauncherCounts
          <5> QED BY <3>3, <4>1, <5>1, <5>2, <5>3 DEF WindowIsDenied
        <4> QED BY <4>2, <4>3, <4>5
      <3> QED BY <3>4, <3>5
    <2>5. CASE agent.kind = "none" /\ ReadRight /\ KeepAgent /\ UNCHANGED <<goneFor, denials>>
      <3>1. over = 0
        BY <2>5 DEF FoundOnce, Misplaced, LauncherCounts
      <3>2. LauncherPlain'
        BY <2>1, <2>5 DEF LauncherPlain, KeepAgent
      <3>3. LauncherCounts'
        BY <2>1, <2>2, <2>5 DEF LauncherCounts, KeepAgent
      <3>4. goneFor' = 0 /\ 0 <= denials' /\ agent'.kind = "none"
        BY <2>5 DEF WindowIsDenied, LauncherCounts, KeepAgent
      <3>5. WindowIsDenied'
        BY <3>4 DEF WindowIsDenied
      <3>6. FoundOnce'
        BY <2>5, <3>1 DEF FoundOnce, KeepAgent
      <3> QED BY <3>2, <3>3, <3>5, <3>6
    <2> QED BY <1>2, <2>3, <2>4, <2>5 DEF Check
  <1>3. CASE Acquire
    <2>1. /\ UNCHANGED <<occupant, console, events, clocks, preLogon, stop, agent, alive, over, denials>>
          /\ loop = "spawn" /\ loop' \in {"wait", "aimed"}
      BY <1>3 DEF Acquire
    <2>2. misreads' \in 0 .. MaxMisreads
      BY <1>3 DEF Acquire, ReadRight, Misread, LauncherCounts
    <2>3. token' \in Agents
      BY <1>3 DEF Acquire, TokensFor, Agents, LauncherPlain
    <2>4. LauncherPlain' /\ LauncherCounts'
      BY <2>1, <2>2, <2>3 DEF LauncherPlain, LauncherCounts
    <2>5. WindowIsDenied' /\ FoundOnce'
      BY <2>1 DEF WindowIsDenied, FoundOnce, LauncherCounts
    <2> QED BY <2>4, <2>5
  <1>4. CASE SpawnAgent
    <2>1. LauncherPlain'
      BY <1>0, <1>4 DEF LauncherPlain, SpawnAgent
    <2>2. LauncherCounts'
      BY <1>4 DEF LauncherCounts, SpawnAgent
    <2>3. WindowIsDenied' /\ FoundOnce'
      BY <1>4 DEF WindowIsDenied, FoundOnce, SpawnAgent
    <2> QED BY <2>1, <2>2, <2>3
  <1>5. CASE AgentExited
    <2>1. LauncherPlain'
      BY <1>0, <1>5 DEF LauncherPlain, Agents, AgentExited
    <2>2. LauncherCounts'
      BY <1>5 DEF LauncherCounts, AgentExited
    <2>3. WindowIsDenied' /\ FoundOnce'
      BY <1>0, <1>5 DEF WindowIsDenied, FoundOnce, AgentExited
    <2> QED BY <2>1, <2>2, <2>3
  <1>6. CASE Tick
    <2>1. LauncherPlain'
      BY <1>6 DEF LauncherPlain, Tick
    <2>2. over = 0 /\ over' \in 0 .. 1
      BY <1>6 DEF Tick, FoundOnce, Upto, LauncherCounts
    <2>3. LauncherCounts'
      <3>1. respawn' \in 0 .. Respawn /\ settle' \in 0 .. Settle /\ age' \in 0 .. Infant
        BY <1>6, Counting DEF Tick, LauncherCounts
      <3>2. Upto(goneFor, Logoff + 1) \in 0 .. Logoff + 1
        BY Counting DEF LauncherCounts
      <3> QED BY <1>6, <2>2, <3>1, <3>2 DEF Tick, LauncherCounts
    <2>4. WindowIsDenied'
      BY <1>6 DEF Tick, WindowIsDenied, Upto, LauncherCounts
    <2>5. FoundOnce'
      BY <1>6, <2>2 DEF Tick, FoundOnce, Misplaced
    <2> QED BY <2>1, <2>3, <2>4, <2>5
  <1>7. CASE Stop
    <2>1. LauncherPlain' /\ LauncherCounts'
      BY <1>7 DEF LauncherPlain, LauncherCounts, Stop
    <2>2. WindowIsDenied' /\ FoundOnce'
      BY <1>7 DEF WindowIsDenied, FoundOnce, Misplaced, Stop
    <2> QED BY <2>1, <2>2
  <1>8. CASE Ends
    <2>1. LauncherPlain'
      BY <1>0, <1>8 DEF LauncherPlain, Ends, StopAgent
    <2>2. LauncherCounts'
      BY <1>8 DEF LauncherCounts, Ends, StopAgent
    <2>3. WindowIsDenied' /\ FoundOnce'
      BY <1>0, <1>8 DEF WindowIsDenied, FoundOnce, LauncherCounts, Ends, StopAgent
    <2> QED BY <2>1, <2>2, <2>3
  <1>9. CASE World \/ SignOutEnds
    <2>1. /\ UNCHANGED <<clocks, preLogon, loop, stop, agent, token, denials, misreads>>
          /\ over' = IF Misplaced(agent, alive', occupant', console') THEN over ELSE 0
          /\ events' \in 0 .. MaxEvents
      BY <1>9 DEF World, SignOutEnds, LauncherCounts
    <2>2. /\ occupant' \in [Sessions -> {"user", "closing", "other", "empty", "gone"}]
          /\ console' \in Sessions \cup {NoSession} /\ alive' \in BOOLEAN
      <3>1. CASE SessionChanges
        BY <3>1 DEF SessionChanges, Turns, LauncherPlain
      <3>2. CASE SignsOut
        BY <3>2 DEF SignsOut, Turns, LauncherPlain
      <3>3. CASE ConsoleMoves \/ Exits
        BY <3>3 DEF ConsoleMoves, Exits, LauncherPlain
      <3> QED BY <1>9, <3>1, <3>2, <3>3 DEF World, SignOutEnds
    <2>3. LauncherPlain'
      BY <2>1, <2>2 DEF LauncherPlain
    <2>4. LauncherCounts'
      BY <2>1 DEF LauncherCounts
    <2>5. WindowIsDenied'
      BY <2>1 DEF WindowIsDenied
    <2>6. FoundOnce'
      BY <2>1 DEF FoundOnce, Misplaced, LauncherCounts
    <2> QED BY <2>3, <2>4, <2>5, <2>6
  <1>10. CASE UNCHANGED launcherVars
    <2>1. LauncherPlain' /\ LauncherCounts'
      BY <1>10 DEF LauncherPlain, LauncherCounts, launcherVars
    <2>2. WindowIsDenied' /\ FoundOnce'
      BY <1>10 DEF WindowIsDenied, FoundOnce, Misplaced, launcherVars
    <2> QED BY <2>1, <2>2
  <1> QED BY <1>1, <1>2, <1>3, <1>4, <1>5, <1>6, <1>7, <1>8, <1>9, <1>10 DEF LauncherNext

LEMMA LauncherInvariance == LauncherSpec => []LauncherInv
  BY LauncherInitHolds, LauncherStepHolds, PTL DEF LauncherSpec

\* Every variable of the supervisor stays in its range (launcher.c).
THEOREM LauncherTypesHold == LauncherSpec => []LauncherTypeOK
  <1>1. LauncherInv => LauncherTypeOK
    BY DEF LauncherInv, LauncherPlain, LauncherCounts, LauncherTypeOK
  <1> QED BY <1>1, LauncherInvariance, PTL

\* However many sessions there are and however long the windows, a SYSTEM
\* agent is never found in a session that is somebody's, or off the console,
\* twice in a row (DirectGate_Launcher_Run's check of a pre-logon agent).
THEOREM StandInIsSentAway == LauncherSpec => []StandInLeaves
  <1>1. LauncherInv => StandInLeaves
    BY DEF LauncherInv, FoundOnce, StandInLeaves
  <1> QED BY <1>1, LauncherInvariance, PTL

\* Only a window full of denials costs a running agent of shell.user its life
\* (nUserGoneSinceMs).
THEOREM TheLiveAreSpared == LauncherSpec => SparesTheLive
  <1>1. LauncherInv /\ [LauncherNext]_launcherVars
          => [(loop = "check" /\ ~stop /\ agent.kind = "user" /\ alive /\ agent' = NoAgent)
                => denials >= Logoff]_launcherVars
    <2> SUFFICES ASSUME LauncherInv, LauncherNext, loop = "check", ~stop,
                        agent.kind = "user", agent' = NoAgent
                 PROVE  denials >= Logoff
      BY DEF launcherVars
    <2>1. agent' # agent
      BY DEF NoAgent
    <2>2. Check
      BY <2>1 DEF LauncherNext, Configured, Acquire, SpawnAgent, AgentExited, Tick, Stop, Ends, World,
         SignOutEnds
    <2>3. CheckUser
      BY <2>2 DEF Check, CheckPreLogon
    <2>4. goneFor > Logoff
      BY <2>1, <2>3 DEF CheckUser, StillTheirs, NotTheirs, KeepAgent
    <2> QED BY <2>4, LauncherAssumption DEF LauncherInv, LauncherCounts, WindowIsDenied
  <1> QED BY <1>1, LauncherInvariance, PTL DEF LauncherSpec, SparesTheLive

-----------------------------------------------------------------------------
(* The helper on the secure desktop.                                        *)

\* The ranges of the bridge's variables: the agent's, the pipelines', the pipe
\* and what the launcher and the helpers have.
HelperNumbers == 0 .. MaxHelpers
Requested == [kind : {"helper", "release"}, req : 0 .. MaxHelpers + 1]

AgentTyped ==
    /\ up \in BOOLEAN /\ main \in Bridge!Mains /\ asked \in 0 .. MaxHelpers + 1
    /\ held \in HelperNumbers /\ bridgeUp \in BOOLEAN /\ capturing \in BOOLEAN
    /\ shown \in BOOLEAN
PipelinesTyped ==
    /\ pipe \in [Pipelines -> {"none", "local", "bridged"}]
    /\ users \in [Pipelines -> BOOLEAN] /\ leaked \in 0 .. MaxLeaks
    /\ parked \in [Pipelines -> HelperNumbers]
PipeTyped == reqs \in Seq(Requested) /\ reps \in Seq(Bridge!Jobs)
HelpersTyped ==
    /\ thread \in {"read", "stop", "spawn", "reply", "gone"} /\ job \in Bridge!Jobs
    /\ lhelper \in HelperNumbers
    /\ helper \in [Bridge!Helpers -> {"none", "runs", "ended"}]
    /\ writer \in [Bridge!Helpers -> BOOLEAN]

\* The only helper that may run is the one the launcher has, and it has none
\* when it starts another.
OnlyOneRuns ==
    /\ \A h \in Bridge!Helpers : helper[h] = "runs" => h = lhelper
    /\ thread = "spawn" => lhelper = 0

\* The count is that of the attached pipelines, of the attachments nobody is
\* left to give up, and of the pipeline for which the helper was just had;
\* without one, no helper is held until the rebuild is over.
Using(u) == {p \in Pipelines : u[p]}
Underway == main.at \in {"rebuild", "start"} /\ main.ok
Extra == IF Underway THEN 1 ELSE 0
CountIsRight ==
    /\ count \in 0 .. Cardinality(Pipelines) + MaxLeaks + 1
    /\ main # Bridge!Idle => up
    /\ up => count = Cardinality(Using(users)) + leaked + Extra
    /\ up /\ main # Bridge!Idle /\ ~Underway => held = 0
    /\ up /\ held # 0 => count > 0
    /\ main.at = "start" => ~users[main.p]

BridgeInv ==
    AgentTyped /\ PipelinesTyped /\ PipeTyped /\ HelpersTyped /\ OnlyOneRuns /\ CountIsRight

\* Which pipelines are attached, before and after one of them changes.
LEMMA UsersAreFinite ==
    ASSUME NEW u \in [Pipelines -> BOOLEAN]
    PROVE  /\ IsFiniteSet(Using(u)) /\ Cardinality(Using(u)) \in Nat
           /\ Cardinality(Pipelines) \in Nat /\ Cardinality(Using(u)) <= Cardinality(Pipelines)
  BY BridgeAssumption, FS_Subset, FS_CardinalityType DEF Using

LEMMA UsersChange ==
    ASSUME NEW u \in [Pipelines -> BOOLEAN], NEW p \in Pipelines, NEW b \in BOOLEAN
    PROVE  /\ u[p] => Cardinality(Using(u)) >= 1
           /\ Cardinality(Using([u EXCEPT ![p] = b]))
                = Cardinality(Using(u)) - (IF u[p] THEN 1 ELSE 0) + (IF b THEN 1 ELSE 0)
  <1> DEFINE v == [u EXCEPT ![p] = b]
             rest == Using(u) \ {p}
  <1>1. IsFiniteSet(Using(u)) /\ Cardinality(Using(u)) \in Nat
    BY UsersAreFinite
  <1>2. /\ IsFiniteSet(rest) /\ Cardinality(rest) \in Nat
        /\ Cardinality(rest) = Cardinality(Using(u)) - (IF u[p] THEN 1 ELSE 0)
    <2>1. IsFiniteSet(rest)
          /\ Cardinality(rest) = IF p \in Using(u) THEN Cardinality(Using(u)) - 1 ELSE Cardinality(Using(u))
      BY <1>1, FS_RemoveElement
    <2>2. p \in Using(u) <=> u[p]
      BY DEF Using
    <2> QED BY <2>1, <2>2, FS_CardinalityType
  <1>3. Using(v) = IF b THEN rest \cup {p} ELSE rest
    BY DEF Using
  <1>4. Cardinality(Using(v)) = Cardinality(rest) + (IF b THEN 1 ELSE 0)
    <2>1. p \notin rest
      OBVIOUS
    <2>2. Cardinality(rest \cup {p}) = Cardinality(rest) + 1
      BY <1>2, <2>1, FS_AddElement
    <2> HIDE DEF rest, v
    <2> QED BY <1>2, <1>3, <2>2
  <1> HIDE DEF rest, v
  <1>5. u[p] \in BOOLEAN
    OBVIOUS
  <1>6. u[p] => Cardinality(Using(u)) >= 1
    BY <1>1, <1>2
  <1>7. Cardinality(Using(v)) = Cardinality(Using(u)) - (IF u[p] THEN 1 ELSE 0) + (IF b THEN 1 ELSE 0)
    BY <1>2, <1>4
  <1> QED BY <1>6, <1>7 DEF v

LEMMA HelpersRange == 0 \in HelperNumbers /\ Bridge!Helpers \subseteq HelperNumbers /\ 0 \notin Bridge!Helpers
                      /\ \A h \in HelperNumbers : h # 0 => h \in Bridge!Helpers
  BY BridgeAssumption DEF HelperNumbers, Bridge!Helpers

\* The bridge counts with the same cardinality.
LEMMA SameCardinality == \A S : Bridge!Cardinality(S) = Cardinality(S)
  BY DEF Bridge!Cardinality, Cardinality

\* The helper's channel is closed.
LEMMA Closing ==
    ASSUME BridgeInv, Bridge!CloseHelper
    PROVE  /\ held' = 0 /\ bridgeUp' = FALSE /\ capturing' = FALSE
           /\ writer' \in [Bridge!Helpers -> BOOLEAN]
  <1>1. writer' \in [Bridge!Helpers -> BOOLEAN]
    BY HelpersRange DEF Bridge!CloseHelper, BridgeInv, HelpersTyped, AgentTyped
  <1> QED BY <1>1 DEF Bridge!CloseHelper

LEMMA Asking ==
    ASSUME BridgeInv, NEW k \in {"helper", "release"}, NEW n \in 0 .. MaxHelpers + 1
    PROVE  Append(reqs, [kind |-> k, req |-> n]) \in Seq(Requested)
  <1>1. [kind |-> k, req |-> n] \in Requested
    BY DEF Requested
  <1> QED BY <1>1, AppendProperties DEF BridgeInv, PipeTyped

LEMMA Commanding ==
    /\ Bridge!StartCapture /\ BridgeInv => bridgeUp' \in BOOLEAN /\ capturing' \in BOOLEAN
    /\ Bridge!StopCapture /\ BridgeInv => bridgeUp' \in BOOLEAN /\ capturing' \in BOOLEAN
  <1>1. Bridge!CommandOk \in BOOLEAN
    BY DEF Bridge!CommandOk, Bridge!Ready
  <1> QED BY <1>1 DEF Bridge!StartCapture, Bridge!StopCapture, Bridge!Command, BridgeInv, AgentTyped

\* One attachment is given up: the last one releases the helper.
LEMMA Detaching ==
    ASSUME BridgeInv, Bridge!Detach, count > 0
    PROVE  /\ writer' \in [Bridge!Helpers -> BOOLEAN] /\ reqs' \in Seq(Requested)
           /\ \/ /\ count = 1 /\ held # 0 /\ count' = 0 /\ held' = 0
                 /\ bridgeUp' = FALSE /\ capturing' = FALSE
              \/ ~(count = 1 /\ held # 0) /\ count' = count - 1 /\ held' = held
  <1>0. count \in Nat /\ (count <= 1 <=> count = 1)
    BY BridgeAssumption, FS_CardinalityType DEF BridgeInv, CountIsRight
  <1>1. CASE count = 1 /\ held # 0
    <2>1. /\ Bridge!CloseHelper /\ count' = 0
          /\ reqs' = Append(reqs, [kind |-> "release", req |-> 0])
      BY <1>0, <1>1 DEF Bridge!Detach, Bridge!IsLast
    <2>2. 0 \in 0 .. MaxHelpers + 1
      BY BridgeAssumption
    <2> QED BY <1>1, <2>1, <2>2, Closing, Asking
  <1>2. CASE ~(count = 1 /\ held # 0)
    <2>1. count' = count - 1 /\ UNCHANGED <<held, writer, reqs>>
      BY <1>0, <1>2 DEF Bridge!Detach, Bridge!IsLast
    <2> QED BY <1>2, <2>1 DEF BridgeInv, HelpersTyped, PipeTyped
  <1> QED BY <1>1, <1>2

\* A pipeline stops: its attachment is given up or left behind.
LEMMA Stopping ==
    ASSUME BridgeInv, NEW p \in Pipelines, Bridge!StopDesktop(p), users[p] => count > 0
    PROVE  /\ bridgeUp' \in BOOLEAN /\ capturing' \in BOOLEAN
           /\ writer' \in [Bridge!Helpers -> BOOLEAN] /\ reqs' \in Seq(Requested)
           /\ held' \in {held, 0}
           /\ users' = [users EXCEPT ![p] = FALSE] /\ pipe' = [pipe EXCEPT ![p] = "none"]
           /\ \/ ~users[p] /\ count' = count /\ held' = held /\ leaked' = leaked
              \/ users[p] /\ count = 1 /\ held # 0 /\ count' = 0 /\ held' = 0 /\ leaked' = leaked
              \/ users[p] /\ ~(count = 1 /\ held # 0) /\ count' = count - 1 /\ held' = held
                 /\ leaked' = leaked
              \/ users[p] /\ count' = count /\ held' = held /\ leaked' = leaked + 1
                 /\ leaked < MaxLeaks
  <1>0. users' = [users EXCEPT ![p] = FALSE] /\ pipe' = [pipe EXCEPT ![p] = "none"]
    BY DEF Bridge!StopDesktop
  <1>00. users[p] => count \in Nat /\ (count <= 1 <=> count = 1)
    BY BridgeAssumption, FS_CardinalityType DEF BridgeInv, CountIsRight
  <1>1. CASE /\ \/ users[p] /\ count <= 1 /\ held # 0
                \/ IF pipe[p] = "bridged" THEN Bridge!StopCapture ELSE UNCHANGED <<bridgeUp, capturing>>
             /\ IF users[p] THEN Bridge!Detach ELSE UNCHANGED <<held, count, writer, reqs>>
             /\ UNCHANGED leaked
    <2>1. CASE users[p]
      <3>1. /\ writer' \in [Bridge!Helpers -> BOOLEAN] /\ reqs' \in Seq(Requested)
            /\ \/ /\ count = 1 /\ held # 0 /\ count' = 0 /\ held' = 0
                  /\ bridgeUp' = FALSE /\ capturing' = FALSE
               \/ ~(count = 1 /\ held # 0) /\ count' = count - 1 /\ held' = held
        BY <1>1, <2>1, Detaching
      <3>2. bridgeUp' \in BOOLEAN /\ capturing' \in BOOLEAN
        <4>1. CASE count = 1 /\ held # 0
          BY <3>1, <4>1
        <4>2. CASE ~(count = 1 /\ held # 0)
          <5>1. IF pipe[p] = "bridged" THEN Bridge!StopCapture ELSE UNCHANGED <<bridgeUp, capturing>>
            BY <1>00, <1>1, <2>1, <4>2
          <5> QED BY <5>1, Commanding DEF BridgeInv, AgentTyped
        <4> QED BY <4>1, <4>2
      <3> QED BY <1>0, <1>1, <2>1, <3>1, <3>2
    <2>2. CASE ~users[p]
      <3>1. bridgeUp' \in BOOLEAN /\ capturing' \in BOOLEAN
        BY <1>1, <2>2, Commanding DEF BridgeInv, AgentTyped
      <3> QED BY <1>0, <1>1, <2>2, <3>1 DEF BridgeInv, HelpersTyped, PipeTyped
    <2> QED BY <2>1, <2>2
  <1>2. CASE /\ users[p] => leaked < MaxLeaks
             /\ leaked' = IF users[p] THEN leaked + 1 ELSE leaked
             /\ UNCHANGED <<held, bridgeUp, count, capturing, writer, reqs>>
    BY <1>0, <1>2 DEF BridgeInv, HelpersTyped, PipeTyped, AgentTyped
  <1> QED BY <1>1, <1>2 DEF Bridge!StopDesktop, Bridge!elev, Bridge!IsLast

\* What the main loop is at.
LEMMA MainsRange ==
    /\ Bridge!Idle \in Bridge!Mains /\ Bridge!Idle.at = "idle"
    /\ \A p \in Pipelines, a \in {"ask", "rebuild", "start"}, b \in BOOLEAN :
          LET m == [at |-> a, p |-> p, ok |-> b] IN
          m \in Bridge!Mains /\ m.at = a /\ m.ok = b /\ m # Bridge!Idle
    /\ \A m \in Bridge!Mains : m # Bridge!Idle =>
          m \in [at : {"ask", "rebuild", "start"}, p : Pipelines, ok : BOOLEAN]
  BY DEF Bridge!Mains, Bridge!Idle

LEMMA BridgeInitHolds == Bridge!ElevationInit => BridgeInv
  <1> SUFFICES ASSUME Bridge!ElevationInit PROVE BridgeInv
    OBVIOUS
  <1>1. /\ up = TRUE /\ main = Bridge!Idle /\ asked = 0 /\ reqs = <<>> /\ reps = <<>>
        /\ held = 0 /\ bridgeUp = FALSE /\ count = 0 /\ capturing = FALSE
        /\ pipe = [p \in Pipelines |-> "none"] /\ users = [p \in Pipelines |-> FALSE]
        /\ parked = [p \in Pipelines |-> 0] /\ leaked = 0
        /\ thread = "read" /\ job = Bridge!NoJob /\ lhelper = 0
        /\ helper = [h \in Bridge!Helpers |-> "none"] /\ writer = [h \in Bridge!Helpers |-> FALSE]
        /\ shown \in BOOLEAN
    BY DEF Bridge!ElevationInit
  <1>2. 0 \in HelperNumbers /\ 0 \in 0 .. MaxHelpers + 1
    BY BridgeAssumption DEF HelperNumbers
  <1>3. AgentTyped
    BY <1>1, <1>2, MainsRange DEF AgentTyped
  <1>4. PipelinesTyped
    BY <1>1, <1>2, BridgeAssumption DEF PipelinesTyped
  <1>5. PipeTyped
    BY <1>1, EmptySeq DEF PipeTyped
  <1>6. HelpersTyped
    <2>1. job \in Bridge!Jobs
      BY <1>1, <1>2 DEF Bridge!Jobs, Bridge!NoJob, HelperNumbers
    <2> QED BY <1>1, <1>2, <2>1 DEF HelpersTyped
  <1>7. OnlyOneRuns
    BY <1>1 DEF OnlyOneRuns
  <1>8. CountIsRight
    <2>1. Using(users) = {}
      BY <1>1 DEF Using
    <2>2. Cardinality(Using(users)) = 0 /\ Cardinality(Pipelines) \in Nat
      BY <2>1, FS_EmptySet, BridgeAssumption, FS_CardinalityType
    <2>3. main.at = "idle"
      BY <1>1, MainsRange
    <2>4. ~Underway /\ Extra = 0
      BY <2>3 DEF Underway, Extra
    <2> QED BY <1>1, <2>2, <2>3, <2>4, BridgeAssumption DEF CountIsRight
  <1> QED BY <1>3, <1>4, <1>5, <1>6, <1>7, <1>8 DEF BridgeInv

\* What leaves the count and what it counts alone.
LEMMA CountStays ==
    ASSUME BridgeInv, UNCHANGED <<up, main, held, count, users, leaked>>
    PROVE  CountIsRight'
  BY DEF BridgeInv, CountIsRight, Using, Underway, Extra

LEMMA HelpersStay ==
    ASSUME BridgeInv, UNCHANGED <<thread, lhelper, helper>>
    PROVE  OnlyOneRuns'
  BY DEF BridgeInv, OnlyOneRuns

LEMMA Attaching ==
    ASSUME BridgeInv, NEW p \in Pipelines, Bridge!Attach(p)
    PROVE  BridgeInv'
  <1> USE DEF BridgeInv, Bridge!ctl, Bridge!pipes, Bridge!launcher
  <1>1. /\ up /\ main = Bridge!Idle
        /\ UNCHANGED <<up, pipe, users, leaked, parked, thread, job, lhelper, helper, shown>>
    BY DEF Bridge!Attach
  <1>2. OnlyOneRuns' /\ PipelinesTyped'
    BY <1>1, HelpersStay DEF PipelinesTyped
  <1>3. /\ Cardinality(Using(users)) \in Nat /\ Cardinality(Pipelines) \in Nat
        /\ Cardinality(Using(users)) <= Cardinality(Pipelines)
    BY UsersAreFinite DEF PipelinesTyped
  <1>4. main.at = "idle" /\ ~Underway /\ Extra = 0
    BY <1>1, MainsRange DEF Underway, Extra
  <1>5. count = Cardinality(Using(users)) + leaked /\ leaked \in 0 .. MaxLeaks /\ MaxLeaks \in Nat
    BY <1>1, <1>3, <1>4, BridgeAssumption DEF CountIsRight, PipelinesTyped
  <1>6. Using(users)' = Using(users)
    BY <1>1 DEF Using
  <1>7. CASE /\ Bridge!Ready /\ count' = count + 1
             /\ main' = [at |-> "rebuild", p |-> p, ok |-> TRUE]
             /\ UNCHANGED <<held, bridgeUp, capturing, writer, asked, reqs, reps>>
    <2>1. main' \in Bridge!Mains /\ Underway' /\ Extra' = 1 /\ main'.at = "rebuild"
      BY <1>7, MainsRange DEF Underway, Extra
    <2>2. CountIsRight'
      BY <1>1, <1>3, <1>5, <1>6, <1>7, <2>1 DEF CountIsRight
    <2>3. AgentTyped' /\ PipeTyped' /\ HelpersTyped'
      BY <1>1, <1>7, <2>1 DEF AgentTyped, PipeTyped, HelpersTyped
    <2> QED BY <1>2, <2>2, <2>3
  <1>8. CASE /\ Bridge!CloseHelper /\ UNCHANGED count
             /\ \/ /\ Bridge!Request /\ main' = [at |-> "ask", p |-> p, ok |-> FALSE] /\ UNCHANGED reps
                \/ /\ main' = [at |-> "rebuild", p |-> p, ok |-> FALSE]
                   /\ UNCHANGED <<asked, reqs, reps>>
    <2>1. /\ main' \in Bridge!Mains /\ ~Underway' /\ main' # Bridge!Idle /\ Extra' = 0
          /\ main'.at \in {"ask", "rebuild"}
      <3>1. CASE main' = [at |-> "ask", p |-> p, ok |-> FALSE]
        BY <3>1, MainsRange DEF Underway, Extra
      <3>2. CASE main' = [at |-> "rebuild", p |-> p, ok |-> FALSE]
        <4>1. main' \in Bridge!Mains /\ main' # Bridge!Idle
          BY <3>2, MainsRange
        <4>2. main'.at = "rebuild" /\ main'.ok = FALSE
          BY <3>2
        <4> QED BY <4>1, <4>2 DEF Underway, Extra
      <3> QED BY <1>8, <3>1, <3>2
    <2>2. /\ held' = 0 /\ bridgeUp' = FALSE /\ capturing' = FALSE
          /\ writer' \in [Bridge!Helpers -> BOOLEAN]
      BY <1>8, Closing
    <2>3. asked' \in 0 .. MaxHelpers + 1 /\ PipeTyped'
      <3>1. CASE Bridge!Request /\ UNCHANGED reps
        <4>1. asked' \in 0 .. MaxHelpers + 1
          BY <3>1, BridgeAssumption DEF Bridge!Request, AgentTyped
        <4> QED BY <3>1, <4>1, Asking DEF Bridge!Request, PipeTyped
      <3>2. CASE UNCHANGED <<asked, reqs, reps>>
        BY <3>2 DEF AgentTyped, PipeTyped
      <3> QED BY <1>8, <3>1, <3>2
    <2>4. CountIsRight'
      BY <1>1, <1>3, <1>5, <1>6, <1>8, <2>1, <2>2 DEF CountIsRight
    <2>5. AgentTyped' /\ HelpersTyped'
      BY <1>1, <2>1, <2>2, <2>3, HelpersRange DEF AgentTyped, HelpersTyped
    <2> QED BY <1>2, <2>3, <2>4, <2>5
  <1> QED BY <1>7, <1>8 DEF Bridge!Attach

LEMMA Answering ==
    ASSUME BridgeInv, Bridge!Answer \/ Bridge!NoAnswer
    PROVE  BridgeInv'
  <1> USE DEF BridgeInv, Bridge!ctl, Bridge!elev, Bridge!pipes, Bridge!launcher, Bridge!helpers
  <1>1. /\ main.at = "ask"
        /\ UNCHANGED <<up, asked, reqs, pipe, users, leaked, parked, thread, job, lhelper, helper, shown>>
    BY DEF Bridge!Answer, Bridge!NoAnswer
  <1>2. OnlyOneRuns' /\ PipelinesTyped'
    BY <1>1, HelpersStay DEF PipelinesTyped
  <1>3. /\ Cardinality(Using(users)) \in Nat /\ Cardinality(Pipelines) \in Nat
        /\ Cardinality(Using(users)) <= Cardinality(Pipelines)
        /\ leaked \in 0 .. MaxLeaks /\ MaxLeaks \in Nat
    BY UsersAreFinite, BridgeAssumption DEF PipelinesTyped
  <1>4. /\ main \in Bridge!Mains /\ main # Bridge!Idle /\ ~Underway /\ up /\ Extra = 0
        /\ main \in [at : {"ask", "rebuild", "start"}, p : Pipelines, ok : BOOLEAN]
    BY <1>1, MainsRange DEF Underway, Extra, AgentTyped, CountIsRight
  <1>5. count = Cardinality(Using(users)) + leaked /\ held = 0
    BY <1>3, <1>4 DEF CountIsRight
  <1>6. Using(users)' = Using(users)
    BY <1>1 DEF Using
  <1>7. ASSUME NEW b \in BOOLEAN, main' = [main EXCEPT !.at = "rebuild", !.ok = b]
        PROVE  /\ main' \in Bridge!Mains /\ main' # Bridge!Idle /\ (Underway' <=> b)
               /\ Extra' = (IF b THEN 1 ELSE 0) /\ main'.at = "rebuild"
    <2>1. main' = [at |-> "rebuild", p |-> main.p, ok |-> b] /\ main.p \in Pipelines
      BY <1>4, <1>7
    <2>2. /\ [at |-> "rebuild", p |-> main.p, ok |-> b] \in Bridge!Mains
          /\ [at |-> "rebuild", p |-> main.p, ok |-> b] # Bridge!Idle
      BY <2>1, MainsRange
    <2>3. main'.at = "rebuild" /\ main'.ok = b
      BY <2>1
    <2> QED BY <2>1, <2>2, <2>3 DEF Underway, Extra
  <1>8. CASE Bridge!Answer
    <2> DEFINE h == Head(reps).helper
    <2>1. reps # <<>> /\ reps' = Tail(reps)
      BY <1>8 DEF Bridge!Answer
    <2>2. Head(reps) \in Bridge!Jobs /\ reps' \in Seq(Bridge!Jobs)
      BY <2>1, HeadTailProperties DEF PipeTyped
    <2>3. h \in HelperNumbers
      BY <2>2 DEF Bridge!Jobs, HelperNumbers
    <2>4. \/ /\ h # 0 /\ held' = h /\ bridgeUp' = TRUE /\ count' = count + 1
             /\ main' = [main EXCEPT !.at = "rebuild", !.ok = TRUE]
             /\ UNCHANGED <<capturing, writer>>
          \/ /\ held' = 0 /\ bridgeUp' = FALSE /\ capturing' = FALSE
             /\ writer' = (IF h = 0 THEN writer ELSE [writer EXCEPT ![h] = FALSE])
             /\ main' = [main EXCEPT !.at = "rebuild", !.ok = FALSE]
             /\ UNCHANGED count
      BY <1>8 DEF Bridge!Answer
    <2> HIDE DEF h
    <2>5. CASE /\ h # 0 /\ held' = h /\ bridgeUp' = TRUE /\ count' = count + 1
               /\ main' = [main EXCEPT !.at = "rebuild", !.ok = TRUE]
               /\ UNCHANGED <<capturing, writer>>
      <3>1. /\ main' \in Bridge!Mains /\ main' # Bridge!Idle /\ Underway' /\ Extra' = 1
            /\ main'.at = "rebuild"
        BY <1>7, <2>5
      <3>2. AgentTyped' /\ PipeTyped' /\ HelpersTyped'
        BY <1>1, <2>2, <2>3, <2>5, <3>1 DEF AgentTyped, PipeTyped, HelpersTyped
      <3>3. CountIsRight'
        BY <1>1, <1>3, <1>4, <1>5, <1>6, <2>5, <3>1 DEF CountIsRight
      <3> QED BY <1>2, <3>2, <3>3
    <2>6. CASE /\ held' = 0 /\ bridgeUp' = FALSE /\ capturing' = FALSE
               /\ writer' = (IF h = 0 THEN writer ELSE [writer EXCEPT ![h] = FALSE])
               /\ main' = [main EXCEPT !.at = "rebuild", !.ok = FALSE]
               /\ UNCHANGED count
      <3>1. /\ main' \in Bridge!Mains /\ main' # Bridge!Idle /\ ~Underway' /\ Extra' = 0
            /\ main'.at = "rebuild"
        BY <1>7, <2>6
      <3>2. AgentTyped' /\ PipeTyped' /\ HelpersTyped'
        BY <1>1, <2>2, <2>3, <2>6, <3>1, HelpersRange DEF AgentTyped, PipeTyped, HelpersTyped
      <3>3. CountIsRight'
        BY <1>1, <1>3, <1>4, <1>5, <1>6, <2>6, <3>1 DEF CountIsRight
      <3> QED BY <1>2, <3>2, <3>3
    <2> QED BY <2>4, <2>5, <2>6
  <1>9. CASE Bridge!NoAnswer
    <2>1. /\ UNCHANGED <<reps, held, bridgeUp, count, capturing, writer>>
          /\ main' = [main EXCEPT !.at = "rebuild", !.ok = FALSE]
      BY <1>9 DEF Bridge!NoAnswer
    <2>2. /\ main' \in Bridge!Mains /\ main' # Bridge!Idle /\ ~Underway' /\ Extra' = 0
          /\ main'.at = "rebuild"
      BY <1>7, <2>1
    <2>3. AgentTyped' /\ PipeTyped' /\ HelpersTyped'
      BY <1>1, <2>1, <2>2 DEF AgentTyped, PipeTyped, HelpersTyped
    <2>4. CountIsRight'
      BY <1>1, <1>3, <1>4, <1>5, <1>6, <2>1, <2>2 DEF CountIsRight
    <2> QED BY <1>2, <2>3, <2>4
  <1> QED BY <1>8, <1>9

\* The counts a stopped pipeline leaves.
LEMMA Replacing ==
    ASSUME BridgeInv, NEW p \in Pipelines, up, up' = up, Bridge!StopDesktop(p),
           Underway' <=> Underway, main' # Bridge!Idle => main # Bridge!Idle,
           main'.at = "start" => main'.p = p
    PROVE  /\ CountIsRight' /\ leaked' \in 0 .. MaxLeaks
           /\ held # 0 /\ held' # held => Using(users') = {} /\ leaked' = 0
  <1> DEFINE n == Cardinality(Using(users))
             m == Cardinality(Using(users'))
             x == Extra
             P == Cardinality(Pipelines)
  <1>1. /\ n \in Nat /\ P \in Nat /\ n <= P
        /\ users[p] => n >= 1
    BY UsersAreFinite, UsersChange DEF BridgeInv, PipelinesTyped
  <1>2. /\ leaked \in 0 .. MaxLeaks /\ MaxLeaks \in Nat /\ x \in {0, 1} /\ Extra' = x
    BY BridgeAssumption DEF BridgeInv, PipelinesTyped, Extra
  <1>3. count = n + leaked + x /\ (held # 0 => count > 0)
    BY DEF BridgeInv, CountIsRight
  <1> HIDE DEF x, n, P
  <1>4. users[p] => count > 0
    BY <1>1, <1>2, <1>3
  <1>5. /\ users' = [users EXCEPT ![p] = FALSE] /\ held' \in {held, 0}
        /\ \/ ~users[p] /\ count' = count /\ held' = held /\ leaked' = leaked
           \/ users[p] /\ count = 1 /\ held # 0 /\ count' = 0 /\ held' = 0 /\ leaked' = leaked
           \/ users[p] /\ ~(count = 1 /\ held # 0) /\ count' = count - 1 /\ held' = held
              /\ leaked' = leaked
           \/ users[p] /\ count' = count /\ held' = held /\ leaked' = leaked + 1
              /\ leaked < MaxLeaks
    BY <1>4, Stopping
  <1>6. m = n - (IF users[p] THEN 1 ELSE 0) /\ m \in Nat /\ m <= P
    <2>1. users' \in [Pipelines -> BOOLEAN]
      BY <1>5 DEF BridgeInv, PipelinesTyped
    <2>2. m = n - (IF users[p] THEN 1 ELSE 0) + 0
      BY <1>5, UsersChange DEF BridgeInv, PipelinesTyped, n
    <2>3. m \in Nat /\ m <= P
      BY <2>1, UsersAreFinite DEF P
    <2> QED BY <1>1, <2>2, <2>3
  <1> HIDE DEF m
  <1>7. leaked' \in 0 .. MaxLeaks /\ count' = m + leaked' + x /\ (held' # 0 => count' > 0)
    BY <1>1, <1>2, <1>3, <1>5, <1>6
  <1>8. held # 0 /\ held' # held => Using(users') = {} /\ leaked' = 0
    <2> SUFFICES ASSUME held # 0, held' # held PROVE Using(users') = {} /\ leaked' = 0
      OBVIOUS
    <2>1. m = 0 /\ leaked' = 0
      BY <1>1, <1>2, <1>3, <1>5, <1>6
    <2>2. users' \in [Pipelines -> BOOLEAN]
      BY <1>5 DEF BridgeInv, PipelinesTyped
    <2>3. IsFiniteSet(Using(users'))
      BY <2>2, UsersAreFinite
    <2> QED BY <2>1, <2>3, FS_EmptySet DEF m
  <1>9. CountIsRight'
    <2>1. count' \in 0 .. P + MaxLeaks + 1
      BY <1>1, <1>2, <1>6, <1>7
    <2>2. main'.at = "start" => ~users'[main'.p]
      BY <1>5 DEF BridgeInv, PipelinesTyped
    <2>3. main' # Bridge!Idle /\ ~Underway' => held' = 0
      BY <1>5 DEF BridgeInv, CountIsRight
    <2>4. Using(users)' = Using(users')
      BY DEF Using
    <2> QED BY <1>2, <1>7, <2>1, <2>2, <2>3, <2>4 DEF CountIsRight, m, P
  <1> QED BY <1>7, <1>8, <1>9

LEMMA Rebuilding ==
    ASSUME BridgeInv, Bridge!Rebuild
    PROVE  BridgeInv' /\ (held # 0 /\ held' # held => Using(users') = {} /\ leaked' = 0)
  <1> USE DEF BridgeInv, Bridge!launcher
  <1>1. /\ main.at = "rebuild" /\ Bridge!StopDesktop(main.p)
        /\ main' = [main EXCEPT !.at = "start"]
        /\ UNCHANGED <<up, asked, reps, parked, thread, job, lhelper, helper, shown>>
    BY DEF Bridge!Rebuild
  <1>2. /\ main \in Bridge!Mains /\ main # Bridge!Idle /\ main.p \in Pipelines /\ main.ok \in BOOLEAN
        /\ main = [at |-> "rebuild", p |-> main.p, ok |-> main.ok]
    BY <1>1, MainsRange DEF AgentTyped
  <1>3. main' = [at |-> "start", p |-> main.p, ok |-> main.ok]
    BY <1>1, <1>2
  <1>4. main' \in Bridge!Mains /\ main' # Bridge!Idle /\ main'.p = main.p /\ up /\ (Underway' <=> Underway)
    BY <1>1, <1>2, <1>3, MainsRange DEF CountIsRight, Underway
  <1>5. /\ CountIsRight' /\ leaked' \in 0 .. MaxLeaks
        /\ held # 0 /\ held' # held => Using(users') = {} /\ leaked' = 0
    BY <1>1, <1>2, <1>4, Replacing
  <1>6. users[main.p] => count > 0
    <2>1. count = Cardinality(Using(users)) + leaked + Extra /\ leaked \in Nat /\ Extra \in Nat
      BY <1>4, BridgeAssumption DEF CountIsRight, PipelinesTyped, Extra
    <2>2. users[main.p] => Cardinality(Using(users)) \in Nat /\ Cardinality(Using(users)) >= 1
      BY <1>2, UsersAreFinite, UsersChange DEF PipelinesTyped
    <2> QED BY <2>1, <2>2
  <1>7. /\ bridgeUp' \in BOOLEAN /\ capturing' \in BOOLEAN
        /\ writer' \in [Bridge!Helpers -> BOOLEAN] /\ reqs' \in Seq(Requested)
        /\ held' \in HelperNumbers
        /\ users' = [users EXCEPT ![main.p] = FALSE] /\ pipe' = [pipe EXCEPT ![main.p] = "none"]
    BY <1>1, <1>2, <1>6, Stopping, HelpersRange DEF AgentTyped
  <1>8. AgentTyped' /\ PipeTyped'
    BY <1>1, <1>4, <1>7 DEF AgentTyped, PipeTyped
  <1>9. PipelinesTyped' /\ HelpersTyped'
    BY <1>1, <1>2, <1>5, <1>7 DEF PipelinesTyped, HelpersTyped
  <1>10. OnlyOneRuns'
    BY <1>1, HelpersStay
  <1> QED BY <1>5, <1>8, <1>9, <1>10

\* What becomes of the new pipeline, and of what was attached for it.
LEMMA Starting ==
    ASSUME BridgeInv, Bridge!Started \/ Bridge!EmptyRectangle \/ Bridge!StartFails
    PROVE  BridgeInv' /\ (held # 0 /\ held' # held => Using(users') = {} /\ leaked' = 0)
  <1> USE DEF BridgeInv, Bridge!ctl, Bridge!elev, Bridge!pipes, Bridge!launcher, Bridge!helpers
  <1> DEFINE n == Cardinality(Using(users))
             P == Cardinality(Pipelines)
  <1>1. /\ main.at = "start" /\ main' = Bridge!Idle
        /\ UNCHANGED <<up, asked, reps, parked, thread, job, lhelper, helper, shown>>
    BY DEF Bridge!Started, Bridge!EmptyRectangle, Bridge!StartFails
  <1>2. /\ main \in Bridge!Mains /\ main # Bridge!Idle /\ main.p \in Pipelines /\ main.ok \in BOOLEAN
        /\ up /\ (Underway <=> main.ok) /\ Extra = (IF main.ok THEN 1 ELSE 0)
    BY <1>1, MainsRange DEF AgentTyped, CountIsRight, Underway, Extra
  <1>3. Extra' = 0 /\ ~Underway' /\ main'.at = "idle" /\ main' \in Bridge!Mains
    BY <1>1, MainsRange DEF Underway, Extra
  <1>4. /\ n \in Nat /\ P \in Nat /\ n <= P /\ leaked \in 0 .. MaxLeaks /\ MaxLeaks \in Nat
        /\ count = n + leaked + (IF main.ok THEN 1 ELSE 0)
        /\ (held # 0 => count > 0) /\ (~main.ok => held = 0) /\ ~users[main.p]
    BY <1>1, <1>2, UsersAreFinite, BridgeAssumption DEF PipelinesTyped, CountIsRight
  <1>5. OnlyOneRuns'
    BY <1>1, HelpersStay
  <1> HIDE DEF P
  <1>6. ASSUME NEW k, k = Cardinality(Using(users')), k \in Nat, k <= P, leaked' \in 0 .. MaxLeaks,
               count' = k + leaked', held' # 0 => count' > 0
        PROVE  CountIsRight'
    <2>1. count' \in 0 .. P + MaxLeaks + 1
      BY <1>4, <1>6
    <2>2. Using(users)' = Using(users')
      BY DEF Using
    <2>3. count' = k + leaked' + 0
      BY <1>4, <1>6
    <2> QED BY <1>1, <1>3, <1>6, <2>1, <2>2, <2>3 DEF CountIsRight, P
  <1>7. CASE Bridge!Started
    <2>1. /\ pipe' = [pipe EXCEPT ![main.p] = "local"] /\ users' = [users EXCEPT ![main.p] = main.ok]
          /\ UNCHANGED <<reqs, held, bridgeUp, count, capturing, leaked, writer>>
      BY <1>7 DEF Bridge!Started
    <2>2. users' \in [Pipelines -> BOOLEAN]
      BY <1>2, <2>1 DEF PipelinesTyped
    <2>3. Cardinality(Using(users')) = n - 0 + (IF main.ok THEN 1 ELSE 0)
      BY <1>2, <1>4, <2>1, UsersChange DEF PipelinesTyped
    <2>4. Cardinality(Using(users')) \in Nat /\ Cardinality(Using(users')) <= P
      BY <2>2, UsersAreFinite DEF P
    <2> HIDE DEF n
    <2>5. count' = Cardinality(Using(users')) + leaked'
      BY <1>2, <1>4, <2>1, <2>3
    <2>6. CountIsRight'
      BY <1>4, <1>6, <2>1, <2>4, <2>5
    <2>7. AgentTyped' /\ PipeTyped' /\ HelpersTyped' /\ PipelinesTyped'
      BY <1>1, <1>2, <1>3, <1>4, <2>1, <2>2 DEF AgentTyped, PipeTyped, HelpersTyped, PipelinesTyped
    <2> QED BY <1>5, <2>1, <2>6, <2>7
  <1>8. CASE Bridge!EmptyRectangle
    <2>1. /\ main.ok => leaked < MaxLeaks
          /\ leaked' = IF main.ok THEN leaked + 1 ELSE leaked
          /\ UNCHANGED <<reqs, pipe, users, held, bridgeUp, count, capturing, writer>>
      BY <1>8 DEF Bridge!EmptyRectangle
    <2>2. Cardinality(Using(users')) = n
      BY <2>1
    <2> HIDE DEF n
    <2>3. leaked' \in 0 .. MaxLeaks /\ count' = n + leaked'
      BY <1>2, <1>4, <2>1
    <2>4. CountIsRight'
      BY <1>4, <1>6, <2>1, <2>2, <2>3
    <2>5. AgentTyped' /\ PipeTyped' /\ HelpersTyped' /\ PipelinesTyped'
      BY <1>1, <1>3, <2>1, <2>3 DEF AgentTyped, PipeTyped, HelpersTyped, PipelinesTyped
    <2> QED BY <1>5, <2>1, <2>4, <2>5
  <1>9. CASE Bridge!StartFails
    <2>1. /\ IF ~main.ok THEN UNCHANGED <<reqs, held, bridgeUp, count, capturing, writer>>
             ELSE Bridge!Detach /\ ((count <= 1 /\ held # 0) \/ UNCHANGED <<bridgeUp, capturing>>)
          /\ UNCHANGED <<pipe, users, leaked>>
      BY <1>9 DEF Bridge!StartFails, Bridge!IsLast
    <2>2. Cardinality(Using(users')) = n
      BY <2>1
    <2>3. CASE ~main.ok
      <3>1. CountIsRight'
        BY <1>4, <1>6, <2>1, <2>2, <2>3
      <3>2. AgentTyped' /\ PipeTyped' /\ HelpersTyped' /\ PipelinesTyped'
        BY <1>1, <1>3, <2>1, <2>3 DEF AgentTyped, PipeTyped, HelpersTyped, PipelinesTyped
      <3> QED BY <1>5, <2>1, <2>3, <3>1, <3>2
    <2>4. CASE main.ok
      <3> HIDE DEF n
      <3>1. count > 0 /\ count = n + leaked + 1 /\ (count <= 1 <=> count = 1)
        BY <1>4, <2>4
      <3>2. /\ writer' \in [Bridge!Helpers -> BOOLEAN] /\ reqs' \in Seq(Requested)
            /\ \/ /\ count = 1 /\ held # 0 /\ count' = 0 /\ held' = 0
                  /\ bridgeUp' = FALSE /\ capturing' = FALSE
               \/ ~(count = 1 /\ held # 0) /\ count' = count - 1 /\ held' = held
        BY <2>1, <2>4, <3>1, Detaching
      <3>3. count' = n + leaked' /\ (held' # 0 => count' > 0)
        BY <1>4, <2>1, <3>1, <3>2
      <3>4. CountIsRight'
        BY <1>4, <1>6, <2>1, <2>2, <3>3
      <3>5. bridgeUp' \in BOOLEAN /\ capturing' \in BOOLEAN /\ held' \in HelperNumbers
        BY <2>1, <2>4, <3>1, <3>2, HelpersRange DEF AgentTyped
      <3>6. AgentTyped' /\ PipeTyped' /\ HelpersTyped' /\ PipelinesTyped'
        BY <1>1, <1>3, <2>1, <3>2, <3>5 DEF AgentTyped, PipeTyped, HelpersTyped, PipelinesTyped
      <3>7. held # 0 /\ held' # held => Using(users') = {} /\ leaked' = 0
        <4> SUFFICES ASSUME held # 0, held' # held PROVE Using(users') = {} /\ leaked' = 0
          OBVIOUS
        <4>1. n = 0 /\ leaked' = 0
          BY <1>4, <2>1, <3>1, <3>2
        <4>2. Using(users') = {}
          BY <2>1, <4>1, UsersAreFinite, FS_EmptySet DEF n, PipelinesTyped
        <4> QED BY <4>1, <4>2
      <3> QED BY <1>5, <3>4, <3>6, <3>7
    <2> QED BY <2>3, <2>4
  <1> QED BY <1>7, <1>8, <1>9

LEMMA Ending ==
    ASSUME BridgeInv, NEW p \in Pipelines, Bridge!EndPipeline(p)
    PROVE  BridgeInv' /\ (held # 0 /\ held' # held => Using(users') = {} /\ leaked' = 0)
  <1> USE DEF BridgeInv, Bridge!launcher
  <1>1. /\ up /\ main = Bridge!Idle /\ Bridge!StopDesktop(p)
        /\ UNCHANGED <<up, main, asked, reps, parked, thread, job, lhelper, helper, shown>>
    BY DEF Bridge!EndPipeline
  <1>2. (Underway' <=> Underway) /\ main'.at = "idle"
    BY <1>1, MainsRange DEF Underway
  <1>3. /\ CountIsRight' /\ leaked' \in 0 .. MaxLeaks
        /\ held # 0 /\ held' # held => Using(users') = {} /\ leaked' = 0
    BY <1>1, <1>2, Replacing
  <1>4. users[p] => count > 0
    <2>1. count = Cardinality(Using(users)) + leaked + Extra /\ leaked \in Nat /\ Extra \in Nat
      BY <1>1, BridgeAssumption DEF CountIsRight, PipelinesTyped, Extra
    <2>2. users[p] => Cardinality(Using(users)) \in Nat /\ Cardinality(Using(users)) >= 1
      BY UsersAreFinite, UsersChange DEF PipelinesTyped
    <2> QED BY <2>1, <2>2
  <1>5. /\ bridgeUp' \in BOOLEAN /\ capturing' \in BOOLEAN
        /\ writer' \in [Bridge!Helpers -> BOOLEAN] /\ reqs' \in Seq(Requested)
        /\ held' \in HelperNumbers
        /\ users' = [users EXCEPT ![p] = FALSE] /\ pipe' = [pipe EXCEPT ![p] = "none"]
    BY <1>1, <1>4, Stopping, HelpersRange DEF AgentTyped
  <1>6. AgentTyped' /\ PipeTyped'
    BY <1>1, <1>5 DEF AgentTyped, PipeTyped
  <1>7. PipelinesTyped' /\ HelpersTyped'
    BY <1>1, <1>3, <1>5 DEF PipelinesTyped, HelpersTyped
  <1>8. OnlyOneRuns'
    BY <1>1, HelpersStay
  <1> QED BY <1>3, <1>6, <1>7, <1>8

\* What the capture threads and a broken pipe do.
LEMMA ThreadsStepHolds ==
    ASSUME BridgeInv,
           \/ \E p \in Pipelines :
                 Bridge!EnterBridge(p) \/ Bridge!LeaveBridge(p) \/ Bridge!Park(p) \/ Bridge!Wake(p)
           \/ Bridge!InputFails \/ Bridge!Switch
    PROVE  BridgeInv'
  <1> USE DEF BridgeInv, Bridge!ctl, Bridge!elev, Bridge!pipes, Bridge!launcher, Bridge!helpers
  <1>1. UNCHANGED <<up, main, asked, reqs, reps, held, count, users, leaked, thread, job, lhelper, helper, writer>>
    BY DEF Bridge!EnterBridge, Bridge!LeaveBridge, Bridge!Park, Bridge!Wake, Bridge!InputFails,
           Bridge!Switch
  <1>2. /\ pipe' \in [Pipelines -> {"none", "local", "bridged"}]
        /\ parked' \in [Pipelines -> HelperNumbers]
        /\ bridgeUp' \in BOOLEAN /\ capturing' \in BOOLEAN /\ shown' \in BOOLEAN
    <2>1. ASSUME NEW p \in Pipelines, Bridge!EnterBridge(p)
          PROVE  <1>2!:
      <3>1. /\ Bridge!StartCapture /\ UNCHANGED <<parked, shown>>
            /\ pipe' = [pipe EXCEPT ![p] = IF capturing' THEN "bridged" ELSE "local"]
        BY <2>1 DEF Bridge!EnterBridge
      <3> QED BY <3>1, Commanding DEF PipelinesTyped, AgentTyped
    <2>2. ASSUME NEW p \in Pipelines, Bridge!LeaveBridge(p)
          PROVE  <1>2!:
      <3>1. /\ Bridge!StopCapture /\ UNCHANGED <<parked, shown>>
            /\ pipe' = [pipe EXCEPT ![p] = "local"]
        BY <2>2 DEF Bridge!LeaveBridge
      <3> QED BY <3>1, Commanding DEF PipelinesTyped, AgentTyped
    <2>3. ASSUME NEW p \in Pipelines, Bridge!Park(p) \/ Bridge!Wake(p)
          PROVE  <1>2!:
      <3>1. /\ UNCHANGED <<pipe, bridgeUp, capturing, shown>>
            /\ parked' = [parked EXCEPT ![p] = held] \/ parked' = [parked EXCEPT ![p] = 0]
        BY <2>3 DEF Bridge!Park, Bridge!Wake
      <3> QED BY <3>1, HelpersRange DEF PipelinesTyped, AgentTyped
    <2>4. CASE Bridge!InputFails \/ Bridge!Switch
      BY <2>4 DEF Bridge!InputFails, Bridge!Switch, PipelinesTyped, AgentTyped
    <2> QED BY <2>1, <2>2, <2>3, <2>4
  <1>3. AgentTyped' /\ PipelinesTyped'
    BY <1>1, <1>2 DEF AgentTyped, PipelinesTyped
  <1>4. PipeTyped' /\ HelpersTyped'
    BY <1>1 DEF PipeTyped, HelpersTyped
  <1>5. OnlyOneRuns' /\ CountIsRight'
    BY <1>1, HelpersStay, CountStays
  <1> QED BY <1>3, <1>4, <1>5

\* What the launcher and the helpers do.
LEMMA LauncherSideHolds ==
    ASSUME BridgeInv,
           \/ Bridge!Receive \/ Bridge!StopHelper \/ Bridge!SpawnHelper \/ Bridge!Reply
           \/ \E h \in Bridge!Helpers : Bridge!HelperEnds(h)
    PROVE  BridgeInv'
  <1> USE DEF BridgeInv, Bridge!ctl, Bridge!elev, Bridge!pipes, Bridge!launcher, Bridge!helpers
  <1>1. /\ UNCHANGED <<up, main, asked, held, bridgeUp, count, capturing, pipe, users, leaked, parked, shown>>
    BY DEF Bridge!Receive, Bridge!StopHelper, Bridge!SpawnHelper, Bridge!Reply, Bridge!HelperEnds
  <1>2. AgentTyped' /\ PipelinesTyped' /\ CountIsRight'
    BY <1>1, CountStays DEF AgentTyped, PipelinesTyped
  <1>3. Bridge!NoJob \in Bridge!Jobs
    BY BridgeAssumption DEF Bridge!NoJob, Bridge!Jobs
  <1>4. CASE Bridge!Receive
    <2>1. /\ thread = "read" /\ thread' = "stop" /\ UNCHANGED <<reps, lhelper, helper, writer>>
          /\ IF reqs = <<>> THEN job' = Bridge!NoJob /\ UNCHANGED reqs
             ELSE job' = [req |-> Head(reqs).req, helper |-> 0] /\ reqs' = Tail(reqs)
      BY <1>4 DEF Bridge!Receive
    <2>2. job' \in Bridge!Jobs /\ reqs' \in Seq(Requested)
      <3>1. CASE reqs = <<>>
        BY <1>3, <2>1, <3>1 DEF PipeTyped
      <3>2. CASE reqs # <<>>
        <4>1. Head(reqs) \in Requested /\ Tail(reqs) \in Seq(Requested)
          BY <3>2, HeadTailProperties DEF PipeTyped
        <4>2. Head(reqs).req \in 0 .. MaxHelpers + 1 /\ 0 \in 0 .. MaxHelpers
          BY <4>1, BridgeAssumption DEF Requested
        <4> QED BY <2>1, <3>2, <4>1, <4>2 DEF Bridge!Jobs
      <3> QED BY <3>1, <3>2
    <2>3. PipeTyped' /\ HelpersTyped' /\ OnlyOneRuns'
      BY <2>1, <2>2 DEF PipeTyped, HelpersTyped, OnlyOneRuns
    <2> QED BY <1>2, <2>3
  <1>5. CASE Bridge!StopHelper
    <2>1. /\ Bridge!Terminate /\ lhelper' = 0 /\ thread' \in {"spawn", "read", "gone"}
          /\ UNCHANGED <<reqs, reps, job, writer>>
      BY <1>5 DEF Bridge!StopHelper
    <2>2. helper' \in [Bridge!Helpers -> {"none", "runs", "ended"}]
          /\ \A h \in Bridge!Helpers : helper'[h] # "runs"
      <3>1. CASE lhelper = 0
        BY <2>1, <3>1, HelpersRange DEF Bridge!Terminate, HelpersTyped, OnlyOneRuns
      <3>2. CASE lhelper # 0
        <4>1. helper' = [helper EXCEPT ![lhelper] = "ended"]
          BY <2>1, <3>2 DEF Bridge!Terminate
        <4> QED BY <4>1 DEF HelpersTyped, OnlyOneRuns
      <3> QED BY <3>1, <3>2
    <2>3. PipeTyped' /\ HelpersTyped'
      BY <2>1, <2>2, HelpersRange DEF PipeTyped, HelpersTyped
    <2>4. OnlyOneRuns'
      BY <2>1, <2>2 DEF OnlyOneRuns
    <2> QED BY <1>2, <2>3, <2>4
  <1>6. CASE Bridge!SpawnHelper
    <2>1. thread = "spawn" /\ thread' = "reply" /\ lhelper = 0 /\ UNCHANGED <<reqs, reps>>
      BY <1>6 DEF Bridge!SpawnHelper, OnlyOneRuns
    <2>2. \A h \in Bridge!Helpers : helper[h] # "runs"
      BY <2>1, HelpersRange DEF OnlyOneRuns
    <2>3. CASE UNCHANGED <<job, lhelper, helper, writer>>
      BY <1>2, <2>1, <2>3 DEF PipeTyped, HelpersTyped, OnlyOneRuns
    <2>4. ASSUME NEW h \in Bridge!Helpers, helper' = [helper EXCEPT ![h] = "runs"], Bridge!HandOver(h)
          PROVE  BridgeInv'
      <3>1. writer' = [writer EXCEPT ![h] = up] /\ lhelper' = h /\ job' = [job EXCEPT !.helper = h]
        BY <2>4 DEF Bridge!HandOver
      <3>2. job' \in Bridge!Jobs
        BY <3>1, HelpersRange DEF Bridge!Jobs, HelpersTyped, HelperNumbers
      <3>3. HelpersTyped'
        BY <2>1, <2>4, <3>1, <3>2, HelpersRange DEF HelpersTyped, AgentTyped
      <3>4. OnlyOneRuns'
        BY <2>1, <2>2, <2>4, <3>1 DEF OnlyOneRuns, HelpersTyped
      <3> QED BY <1>2, <2>1, <3>3, <3>4 DEF PipeTyped
    <2> QED BY <1>6, <2>3, <2>4 DEF Bridge!SpawnHelper
  <1>7. CASE Bridge!Reply
    <2>1. /\ thread' \in {"read", "stop"} /\ job' = Bridge!NoJob
          /\ UNCHANGED <<reqs, lhelper, helper, writer>>
          /\ reps' = reps \/ reps' = Append(reps, job)
      BY <1>7 DEF Bridge!Reply
    <2>2. Append(reps, job) \in Seq(Bridge!Jobs)
      BY AppendProperties DEF PipeTyped, HelpersTyped
    <2>3. PipeTyped' /\ HelpersTyped' /\ OnlyOneRuns'
      BY <1>3, <2>1, <2>2 DEF PipeTyped, HelpersTyped, OnlyOneRuns
    <2> QED BY <1>2, <2>3
  <1>8. ASSUME NEW h \in Bridge!Helpers, Bridge!HelperEnds(h)
        PROVE  BridgeInv'
    <2>1. /\ helper' = [helper EXCEPT ![h] = "ended"]
          /\ UNCHANGED <<reqs, reps, thread, job, lhelper, writer>>
      BY <1>8 DEF Bridge!HelperEnds
    <2>2. PipeTyped' /\ HelpersTyped' /\ OnlyOneRuns'
      BY <2>1 DEF PipeTyped, HelpersTyped, OnlyOneRuns
    <2> QED BY <1>2, <2>2
  <1> QED BY <1>4, <1>5, <1>6, <1>7, <1>8

LEMMA BridgeStepHolds == BridgeInv /\ [Bridge!ElevationNext]_(Bridge!elevationVars) => BridgeInv'
  <1> SUFFICES ASSUME BridgeInv, [Bridge!ElevationNext]_(Bridge!elevationVars) PROVE BridgeInv'
    OBVIOUS
  <1>1. CASE Bridge!AgentDies
    <2> USE DEF BridgeInv, Bridge!ctl, Bridge!elev, Bridge!launcher
    <2>1. /\ up' = FALSE /\ main' = Bridge!Idle
          /\ writer' = [h \in Bridge!Helpers |-> FALSE] /\ parked' = [p \in Pipelines |-> 0]
          /\ UNCHANGED <<asked, reqs, reps, held, bridgeUp, count, capturing, pipe, users, leaked, thread, job,
                         lhelper, helper, shown>>
      BY <1>1 DEF Bridge!AgentDies
    <2>2. AgentTyped' /\ PipelinesTyped'
      BY <2>1, MainsRange, HelpersRange DEF AgentTyped, PipelinesTyped
    <2>3. PipeTyped' /\ HelpersTyped'
      BY <2>1 DEF PipeTyped, HelpersTyped
    <2>4. main'.at = "idle"
      BY <2>1, MainsRange
    <2>5. OnlyOneRuns' /\ CountIsRight'
      BY <2>1, <2>4, HelpersStay DEF CountIsRight
    <2> QED BY <2>2, <2>3, <2>5
  <1>2. CASE UNCHANGED Bridge!elevationVars
    <2> USE DEF BridgeInv, Bridge!elevationVars, Bridge!ctl, Bridge!elev, Bridge!pipes, Bridge!launcher,
                Bridge!helpers
    <2>1. AgentTyped' /\ PipelinesTyped'
      BY <1>2 DEF AgentTyped, PipelinesTyped
    <2>2. PipeTyped' /\ HelpersTyped'
      BY <1>2 DEF PipeTyped, HelpersTyped
    <2>3. OnlyOneRuns' /\ CountIsRight'
      BY <1>2, HelpersStay, CountStays
    <2> QED BY <2>1, <2>2, <2>3
  <1> QED BY <1>1, <1>2, Attaching, Answering, Rebuilding, Starting, Ending, ThreadsStepHolds, LauncherSideHolds
          DEF Bridge!ElevationNext

\* A helper that answers is let go by the last that used it.
\* A thread that waits for a frame is that of an attached pipeline on the bridge.
Waits ==
    \A p \in Pipelines :
        (parked[p] # 0 => pipe[p] = "bridged") /\ (pipe[p] = "bridged" => users[p])

LEMMA WaitsStepHolds ==
    BridgeInv /\ Waits /\ [Bridge!ElevationNext]_(Bridge!elevationVars) => Waits'
  <1> SUFFICES ASSUME BridgeInv, Waits, [Bridge!ElevationNext]_(Bridge!elevationVars)
               PROVE  Waits'
    OBVIOUS
  <1>1. CASE UNCHANGED <<parked, users, pipe>>
    BY <1>1 DEF Waits
  <1>2. CASE \E p \in Pipelines : Bridge!StopDesktop(p) /\ UNCHANGED parked
    <2>1. PICK p \in Pipelines : Bridge!StopDesktop(p) /\ UNCHANGED parked
      BY <1>2
    <2>2. /\ parked[p] = 0 /\ users' = [users EXCEPT ![p] = FALSE]
          /\ pipe' = [pipe EXCEPT ![p] = "none"]
      BY <2>1 DEF Bridge!StopDesktop
    <2>3. pipe'[p] = "none"
      BY <2>2 DEF BridgeInv, PipelinesTyped
    <2>4. \A q \in Pipelines : q # p => users'[q] = users[q] /\ pipe'[q] = pipe[q]
      BY <2>2 DEF BridgeInv, PipelinesTyped
    <2> QED BY <2>1, <2>2, <2>3, <2>4 DEF Waits
  <1>3. CASE Bridge!Started
    <2>1. /\ main.at = "start" /\ UNCHANGED parked
          /\ pipe' = [pipe EXCEPT ![main.p] = "local"] /\ users' = [users EXCEPT ![main.p] = main.ok]
      BY <1>3 DEF Bridge!Started
    <2>2. ~users[main.p]
      BY <2>1 DEF BridgeInv, CountIsRight
    <2>3. main.p \in Pipelines
      BY <2>1, MainsRange DEF BridgeInv, AgentTyped
    <2>4. parked[main.p] = 0 /\ pipe'[main.p] = "local"
      BY <2>1, <2>2, <2>3 DEF Waits, BridgeInv, PipelinesTyped
    <2>5. \A q \in Pipelines : q # main.p => users'[q] = users[q] /\ pipe'[q] = pipe[q]
      BY <2>1 DEF BridgeInv, PipelinesTyped
    <2> QED BY <2>1, <2>4, <2>5 DEF Waits
  <1>4. ASSUME NEW p \in Pipelines, Bridge!EnterBridge(p) \/ Bridge!LeaveBridge(p)
        PROVE  Waits'
    <2>1. parked[p] = 0 /\ UNCHANGED <<parked, users>>
      BY <1>4 DEF Bridge!EnterBridge, Bridge!LeaveBridge, Waits
    <2>2. pipe'[p] = "bridged" => users[p]
      <3>1. CASE Bridge!EnterBridge(p)
        BY <3>1 DEF Bridge!EnterBridge
      <3>2. CASE Bridge!LeaveBridge(p)
        BY <3>2 DEF Bridge!LeaveBridge, BridgeInv, PipelinesTyped
      <3> QED BY <1>4, <3>1, <3>2
    <2>3. \A q \in Pipelines : q # p => pipe'[q] = pipe[q]
      BY <1>4 DEF Bridge!EnterBridge, Bridge!LeaveBridge, BridgeInv, PipelinesTyped
    <2> QED BY <2>1, <2>2, <2>3 DEF Waits
  <1>5. ASSUME NEW p \in Pipelines, Bridge!Park(p) \/ Bridge!Wake(p)
        PROVE  Waits'
    <2>1. /\ UNCHANGED <<users, pipe>>
          /\ \A q \in Pipelines : q # p => parked'[q] = parked[q]
      BY <1>5 DEF Bridge!Park, Bridge!Wake, BridgeInv, PipelinesTyped
    <2>2. CASE Bridge!Park(p)
      <3>1. pipe[p] = "bridged"
        BY <2>2 DEF Bridge!Park
      <3> QED BY <2>1, <3>1 DEF Waits
    <2>3. CASE Bridge!Wake(p)
      <3>1. parked'[p] = 0
        BY <2>3 DEF Bridge!Wake, BridgeInv, PipelinesTyped
      <3> QED BY <2>1, <3>1 DEF Waits
    <2> QED BY <1>5, <2>2, <2>3
  <1>6. CASE Bridge!AgentDies
    BY <1>6 DEF Waits, Bridge!AgentDies
  <1>7. CASE Bridge!Rebuild \/ \E p \in Pipelines : Bridge!EndPipeline(p)
    <2>1. CASE Bridge!Rebuild
      <3>1. /\ main.at = "rebuild" /\ Bridge!StopDesktop(main.p) /\ UNCHANGED parked
        BY <2>1 DEF Bridge!Rebuild
      <3>2. main.p \in Pipelines
        BY <3>1, MainsRange DEF BridgeInv, AgentTyped
      <3> QED BY <1>2, <3>1, <3>2
    <2>2. CASE \E p \in Pipelines : Bridge!EndPipeline(p)
      BY <1>2, <2>2 DEF Bridge!EndPipeline
    <2> QED BY <1>7, <2>1, <2>2
  <1>8. CASE \/ Bridge!EmptyRectangle \/ Bridge!StartFails \/ Bridge!Answer \/ Bridge!NoAnswer
             \/ Bridge!InputFails \/ Bridge!Switch \/ \E p \in Pipelines : Bridge!Attach(p)
    BY <1>1, <1>8 DEF Bridge!EmptyRectangle, Bridge!StartFails, Bridge!Answer, Bridge!NoAnswer,
       Bridge!InputFails, Bridge!Switch, Bridge!Attach, Bridge!pipes
  <1>9. CASE \/ Bridge!Receive \/ Bridge!StopHelper \/ Bridge!SpawnHelper \/ Bridge!Reply
             \/ \E h \in Bridge!Helpers : Bridge!HelperEnds(h)
             \/ UNCHANGED Bridge!elevationVars
    BY <1>1, <1>9 DEF Bridge!Receive, Bridge!StopHelper, Bridge!SpawnHelper, Bridge!Reply,
       Bridge!HelperEnds, Bridge!elevationVars, Bridge!pipes
  <1> QED BY <1>3, <1>4, <1>5, <1>6, <1>7, <1>8, <1>9 DEF Bridge!ElevationNext

LEMMA LetGo ==
    BridgeInv /\ Waits' /\ [Bridge!ElevationNext]_(Bridge!elevationVars) => Bridge!LetGoByTheLast
  <1> SUFFICES ASSUME BridgeInv, Waits', [Bridge!ElevationNext]_(Bridge!elevationVars),
                      bridgeUp, held # 0, held' # held, up'
               PROVE  Using(users') = {} /\ leaked' = 0
    BY DEF Bridge!LetGoByTheLast, Bridge!Attached, Using, Waits
  <1>1. ASSUME NEW p \in Pipelines, Bridge!Attach(p) PROVE FALSE
    BY <1>1 DEF Bridge!Attach, Bridge!Ready
  <1>2. ASSUME Bridge!Answer \/ Bridge!NoAnswer PROVE FALSE
    <2>1. main.at = "ask"
      BY <1>2 DEF Bridge!Answer, Bridge!NoAnswer
    <2>2. main # Bridge!Idle /\ ~Underway
      BY <2>1, MainsRange DEF Underway
    <2> QED BY <2>2 DEF BridgeInv, CountIsRight
  <1>3. ASSUME Bridge!Rebuild \/ Bridge!Started \/ Bridge!EmptyRectangle \/ Bridge!StartFails
        PROVE  Using(users') = {} /\ leaked' = 0
    BY <1>3, Rebuilding, Starting
  <1>4. ASSUME NEW p \in Pipelines, Bridge!EndPipeline(p)
        PROVE  Using(users') = {} /\ leaked' = 0
    BY <1>4, Ending
  <1>5. ASSUME NEW p \in Pipelines,
               Bridge!EnterBridge(p) \/ Bridge!LeaveBridge(p) \/ Bridge!Park(p) \/ Bridge!Wake(p)
        PROVE  FALSE
    BY <1>5 DEF Bridge!EnterBridge, Bridge!LeaveBridge, Bridge!Park, Bridge!Wake, Bridge!elev
  <1>6. ~(Bridge!InputFails \/ Bridge!Switch \/ Bridge!AgentDies \/ UNCHANGED Bridge!elevationVars)
    BY DEF Bridge!InputFails, Bridge!Switch, Bridge!AgentDies, Bridge!elev, Bridge!elevationVars
  <1>7. ~(Bridge!Receive \/ Bridge!StopHelper \/ Bridge!SpawnHelper \/ Bridge!Reply)
    BY DEF Bridge!Receive, Bridge!StopHelper, Bridge!SpawnHelper, Bridge!Reply, Bridge!elev
  <1>8. ASSUME NEW h \in Bridge!Helpers, Bridge!HelperEnds(h) PROVE FALSE
    BY <1>8 DEF Bridge!HelperEnds, Bridge!elev
  <1> QED BY <1>1, <1>2, <1>3, <1>4, <1>5, <1>6, <1>7, <1>8 DEF Bridge!ElevationNext

LEMMA BridgeInvariance == Bridge!ElevationSpec => []BridgeInv
  BY BridgeInitHolds, BridgeStepHolds, PTL DEF Bridge!ElevationSpec

\* Every variable of the bridge stays in its range: the count is bounded by
\* the pipelines, what they have left behind and the rebuild underway
\* (elevated.c, g_elev).
THEOREM BridgeTypesHold == Bridge!ElevationSpec => []Bridge!ElevationTypeOK
  <1>1. BridgeInv => Bridge!ElevationTypeOK
    BY SameCardinality
       DEF BridgeInv, AgentTyped, PipelinesTyped, PipeTyped, HelpersTyped, CountIsRight, HelperNumbers,
           Requested, Bridge!ElevationTypeOK
  <1> QED BY <1>1, BridgeInvariance, PTL

\* For any number of pipelines and helpers: one SYSTEM helper at most runs;
\* while the main loop is at rest the count is that of the pipelines that use
\* it and of the attachments left behind; and a helper that answers is let go
\* by the last of them, under no pipeline and no thread that waits for its
\* frames (DirectGate_Elevated_Attach and DirectGate_Elevated_Detach, with what
\* desktop_win.c makes of them).
THEOREM HelpersAreCounted == Bridge!ElevationSpec => HelperIsCounted
  <1>1. BridgeInv => Bridge!CountIsTrue
    <2> SUFFICES ASSUME BridgeInv PROVE Bridge!CountIsTrue
      OBVIOUS
    <2> DEFINE R == {h \in Bridge!Helpers : helper[h] = "runs"}
    <2>1. R \subseteq {lhelper}
      BY DEF BridgeInv, OnlyOneRuns
    <2>2. IsFiniteSet({lhelper}) /\ Cardinality({lhelper}) = 1
      BY FS_Singleton
    <2>3. Cardinality(R) <= 1
      BY <2>1, <2>2, FS_Subset
    <2>4. (up /\ main = Bridge!Idle) =>
             count = Cardinality(Bridge!Attached) + leaked /\ (held # 0 => count > 0)
      <3> SUFFICES ASSUME up, main = Bridge!Idle
                   PROVE  count = Cardinality(Bridge!Attached) + leaked /\ (held # 0 => count > 0)
        OBVIOUS
      <3>1. ~Underway /\ Extra = 0 /\ Bridge!Attached = Using(users)
        BY MainsRange DEF Underway, Extra, Using, Bridge!Attached
      <3>2. Cardinality(Using(users)) \in Nat /\ leaked \in Nat
        BY UsersAreFinite, BridgeAssumption DEF BridgeInv, PipelinesTyped
      <3> QED BY <3>1, <3>2 DEF BridgeInv, CountIsRight
    <2> QED BY <2>3, <2>4, SameCardinality DEF Bridge!CountIsTrue
  <1>2. Bridge!ElevationInit => Waits
    BY DEF Bridge!ElevationInit, Waits
  <1>3. Bridge!ElevationSpec => []Waits
    BY <1>2, WaitsStepHolds, BridgeInvariance, PTL DEF Bridge!ElevationSpec
  <1>4. BridgeInv /\ Waits' /\ [Bridge!ElevationNext]_(Bridge!elevationVars) /\ Bridge!CountIsTrue'
          => [Bridge!CountIsTrue' /\ Bridge!LetGoByTheLast]_helperVars
    BY LetGo
  <1> QED BY <1>1, <1>3, <1>4, BridgeInvariance, PTL DEF HelperIsCounted, Bridge!ElevationSpec

-----------------------------------------------------------------------------
(* The capture.                                                             *)

\* The ranges of the capture's variables: flags, counts and the encoder.
Passes == {"off", "init", "top", "gate", "take", "capture", "encode", "idle", "left"}
FlagsTyped ==
    /\ pass \in Passes
    /\ running \in BOOLEAN /\ force \in BOOLEAN /\ hold \in BOOLEAN /\ applyQ \in BOOLEAN
    /\ box \in {"none", "p", "key"} /\ have \in BOOLEAN /\ published \in BOOLEAN
    /\ gdi \in BOOLEAN /\ dup \in BOOLEAN
    /\ att \in BOOLEAN /\ bridged \in BOOLEAN /\ noLocal \in BOOLEAN
    /\ ready \in BOOLEAN /\ secure \in BOOLEAN /\ broken \in BOOLEAN /\ lost \in BOOLEAN

CountsTyped ==
    /\ left \in 0 .. Candidates /\ reinit \in 0 .. MaxReinit
    /\ failures \in 0 .. MaxFailures /\ starts \in 0 .. MaxStarts

Encoders == [up : BOOLEAN, inside : Seq(BOOLEAN), proven : BOOLEAN, stalls : 0 .. MaxStalls,
             key : BOOLEAN]
EncoderTyped == enc \in Encoders /\ Len(enc.inside) <= MaxInside /\ (enc.up => left > 0)

\* A new pipeline starts with its request, and a pass begins with the mailbox
\* empty: nothing but the pass itself fills it.
BeginsWithKey == pass = "init" => force
BoxIsFree == pass \in {"take", "capture", "encode", "idle"} => box = "none"

CaptureInv ==
    /\ FlagsTyped /\ CountsTyped /\ EncoderTyped
    /\ BeginsWithKey /\ BoxIsFree /\ KeyIsOwed

LEMMA EncodersTyped ==
    /\ Capture!NoEncoder \in Encoders /\ Len(Capture!NoEncoder.inside) = 0 /\ ~Capture!NoEncoder.up
    /\ Capture!NewEncoder \in Encoders /\ Len(Capture!NewEncoder.inside) = 0
  <1>1. <<>> \in Seq(BOOLEAN) /\ Len(<<>>) = 0 /\ 0 \in 0 .. MaxStalls
    BY EmptySeq, CaptureAssumption
  <1> QED BY <1>1 DEF Capture!NoEncoder, Capture!NewEncoder, Encoders

\* A frame that leaves a queue for the mailbox is not lost.
LEMMA FramesAreKept ==
    ASSUME NEW q \in Seq(BOOLEAN), q # <<>>
    PROVE  /\ Tail(q) \in Seq(BOOLEAN) /\ Len(Tail(q)) = Len(q) - 1 /\ Head(q) \in BOOLEAN
           /\ \A i \in 1 .. Len(q) : q[i] => Head(q) \/ \E j \in 1 .. Len(Tail(q)) : Tail(q)[j]
  <1>1. /\ Tail(q) \in Seq(BOOLEAN) /\ Len(Tail(q)) = Len(q) - 1 /\ Head(q) \in BOOLEAN
        /\ Len(q) \in Nat /\ Head(q) = q[1]
        /\ \A j \in 1 .. Len(Tail(q)) : Tail(q)[j] = q[j + 1]
    BY HeadTailProperties, LenProperties
  <1>2. ASSUME NEW i \in 1 .. Len(q), q[i], ~Head(q)
        PROVE  \E j \in 1 .. Len(Tail(q)) : Tail(q)[j]
    <2>1. i # 1
      BY <1>1, <1>2
    <2>2. i - 1 \in 1 .. Len(Tail(q)) /\ (i - 1) + 1 = i
      BY <1>1, <2>1
    <2> QED BY <1>1, <1>2, <2>2
  <1> QED BY <1>1, <1>2

LEMMA InputsAreKept ==
    ASSUME NEW s \in Seq(BOOLEAN), NEW b \in BOOLEAN
    PROVE  /\ Append(s, b) \in Seq(BOOLEAN) /\ Append(s, b) # <<>> /\ Len(Append(s, b)) = Len(s) + 1
           /\ b => \E i \in 1 .. Len(Append(s, b)) : Append(s, b)[i]
           /\ (\E i \in 1 .. Len(s) : s[i]) => \E i \in 1 .. Len(Append(s, b)) : Append(s, b)[i]
  <1>1. /\ Append(s, b) \in Seq(BOOLEAN) /\ Len(Append(s, b)) = Len(s) + 1 /\ Len(s) \in Nat
        /\ Append(s, b)[Len(s) + 1] = b /\ \A i \in 1 .. Len(s) : Append(s, b)[i] = s[i]
    BY AppendProperties, LenProperties
  <1>2. Append(s, b) # <<>>
    BY <1>1, EmptySeq
  <1>3. Len(s) + 1 \in 1 .. Len(Append(s, b)) /\ \A i \in 1 .. Len(s) : i \in 1 .. Len(Append(s, b))
    BY <1>1
  <1> QED BY <1>1, <1>2, <1>3

LEMMA CaptureInitHolds == Capture!WinInit => CaptureInv
  <1> SUFFICES ASSUME Capture!WinInit PROVE CaptureInv
    OBVIOUS
  <1>1. FlagsTyped
    BY DEF Capture!WinInit, FlagsTyped, Passes
  <1>2. CountsTyped
    BY CaptureAssumption DEF Capture!WinInit, CountsTyped
  <1>3. EncoderTyped
    <2>1. enc = Capture!NoEncoder
      BY DEF Capture!WinInit
    <2> QED BY <2>1, EncodersTyped, CaptureAssumption DEF EncoderTyped
  <1>4. BeginsWithKey /\ BoxIsFree /\ KeyIsOwed
    BY DEF Capture!WinInit, BeginsWithKey, BoxIsFree, KeyIsOwed, Capture!KeyIsOwed
  <1> QED BY <1>1, <1>2, <1>3, <1>4 DEF CaptureInv

\* A frame published from a queue of the encoder's own.
LEMMA Publishing ==
    ASSUME NEW q \in Seq(BOOLEAN), q # <<>>, Capture!Publish(q), enc'.inside = Tail(q),
           \E i \in 1 .. Len(q) : q[i]
    PROVE  Capture!OnItsWay'
  <1>1. Head(q) \/ \E j \in 1 .. Len(Tail(q)) : Tail(q)[j]
    BY FramesAreKept
  <1>2. CASE Head(q)
    <2>1. box' = "key"
      BY <1>2 DEF Capture!Publish
    <2> QED BY <2>1 DEF Capture!OnItsWay
  <1>3. CASE \E j \in 1 .. Len(Tail(q)) : Tail(q)[j]
    BY <1>3 DEF Capture!OnItsWay
  <1> QED BY <1>1, <1>2, <1>3

\* Away from the encoder, what was lost stays lost until a key frame is asked
\* for.
LEMMA Remembers ==
    ASSUME lost' = (lost /\ ~force')
    PROVE  lost' \in BOOLEAN /\ (lost => lost' \/ Capture!OnItsWay')
  BY DEF Capture!OnItsWay

\* At the encoder, nothing gets lost unnoticed.
LEMMA Losing ==
    ASSUME FlagsTyped, NEW f \in BOOLEAN, NEW r \in BOOLEAN, Capture!Loses(f, r)
    PROVE  /\ lost' \in BOOLEAN /\ broken' \in BOOLEAN /\ (~f => broken' = broken)
           /\ f \/ r \/ lost => lost' \/ Capture!OnItsWay'
  BY DEF Capture!Loses, Capture!OnItsWay, FlagsTyped

LEMMA Dropping ==
    ASSUME NEW q \in Seq(BOOLEAN), NEW n \in 0 .. Len(q)
    PROVE  /\ SubSeq(q, n + 1, Len(q)) \in Seq(BOOLEAN)
           /\ Len(SubSeq(q, n + 1, Len(q))) = Len(q) - n
           /\ n = 0 => SubSeq(q, n + 1, Len(q)) = q
  <1> DEFINE r == SubSeq(q, n + 1, Len(q))
  <1>1. Len(q) \in Nat /\ \A i \in 1 .. Len(q) : q[i] \in BOOLEAN
    BY LenProperties, ElementOfSeq
  <1>2. n \in Int /\ n + 1 \in Int /\ \A i \in n + 1 .. Len(q) : q[i] \in BOOLEAN
    BY <1>1
  <1>3. /\ r \in Seq(BOOLEAN) /\ Len(r) = IF n + 1 <= Len(q) THEN Len(q) - (n + 1) + 1 ELSE 0
        /\ \A i \in 1 .. Len(q) - (n + 1) + 1 : r[i] = q[n + 1 + i - 1]
    BY <1>1, <1>2, SubSeqProperties
  <1> HIDE DEF r
  <1>4. Len(r) = Len(q) - n
    BY <1>1, <1>3
  <1>5. ASSUME n = 0 PROVE r = q
    <2>1. Len(r) = Len(q) /\ \A i \in 1 .. Len(r) : r[i] = q[i]
      BY <1>1, <1>3, <1>4, <1>5
    <2> QED BY <1>3, <2>1, SeqEqual
  <1> QED BY <1>3, <1>4, <1>5 DEF r

\* What the encoder holds before it is fed, and after.
LEMMA Before ==
    ASSUME CaptureInv, NEW n \in 0 .. Len(enc.inside), NEW k \in BOOLEAN
    PROVE  /\ Capture!After(n, k) \in Encoders /\ Capture!After(n, k).up = enc.up
           /\ Capture!After(n, k).key = k /\ Capture!After(n, k).stalls = enc.stalls
           /\ Len(Capture!After(n, k).inside) <= MaxInside /\ Len(Capture!After(n, k).inside) \in Nat
           /\ n = 0 => Capture!After(n, k).inside = enc.inside
  <1> DEFINE q == enc.inside
             r == SubSeq(q, n + 1, Len(q))
  <1>1. q \in Seq(BOOLEAN) /\ Len(q) \in Nat /\ Len(q) <= MaxInside /\ enc \in Encoders
    BY LenProperties DEF CaptureInv, EncoderTyped, Encoders
  <1>2. r \in Seq(BOOLEAN) /\ Len(r) = Len(q) - n /\ (n = 0 => r = q)
    BY <1>1, Dropping
  <1>3. Len(r) <= MaxInside /\ Len(r) \in Nat
    BY <1>1, <1>2, CaptureAssumption
  <1>4. Capture!After(n, k) = [enc EXCEPT !.inside = r, !.key = k]
    BY DEF Capture!After
  <1> HIDE DEF r
  <1> QED BY <1>1, <1>2, <1>3, <1>4 DEF Encoders

LEMMA Feeding ==
    ASSUME NEW e \in Encoders, NEW x \in BOOLEAN
    PROVE  /\ Capture!Fed(e, x) \in Encoders /\ Capture!Fed(e, x).up = e.up
           /\ Capture!Fed(e, x).inside = Append(e.inside, x)
  <1>1. Append(e.inside, x) \in Seq(BOOLEAN)
    BY AppendProperties DEF Encoders
  <1>2. 0 \in 0 .. MaxStalls
    BY CaptureAssumption
  <1> QED BY <1>1, <1>2 DEF Capture!Fed, Encoders

LEMMA EncoderAtWork ==
    ASSUME CaptureInv, Capture!EncodeFrame
    PROVE  CaptureInv'
  <1> USE DEF CaptureInv, Capture!source, Capture!outside
  <1>1. /\ pass = "encode" /\ pass' = "top"
        /\ UNCHANGED <<running, applyQ, hold, gdi, dup, reinit, bridged, noLocal, att, ready, secure, starts>>
    BY DEF Capture!EncodeFrame
  <1>2. BeginsWithKey' /\ BoxIsFree'
    BY <1>1 DEF BeginsWithKey, BoxIsFree
  <1>3. /\ enc.inside \in Seq(BOOLEAN) /\ enc.key \in BOOLEAN /\ Capture!Forced \in BOOLEAN
        /\ Len(enc.inside) \in Nat /\ Len(enc.inside) <= MaxInside
    BY LenProperties DEF EncoderTyped, Encoders, Capture!Forced
  <1>4. Capture!Upto(failures, MaxFailures) \in 0 .. MaxFailures /\ 0 \in 0 .. MaxFailures
    BY CaptureAssumption DEF CountsTyped, Capture!Upto
  <1>5. box = "none" /\ box # "key"
    BY <1>1 DEF BoxIsFree
  \* What is owed before the step is in the hands of the pass or the encoder.
  <1>6. running /\ broken /\ enc.up
        => force \/ hold \/ enc.key \/ lost \/ \E i \in 1 .. Len(enc.inside) : enc.inside[i]
    BY <1>1, <1>5 DEF KeyIsOwed, Capture!KeyIsOwed, Capture!OnItsWay
  <1>7. PICK n \in 0 .. Len(enc.inside), k \in {enc.key, Capture!Forced} :
            \/ Capture!Accepted(n, k) \/ Capture!Collected(n, k)
            \/ Capture!Refused(n, k) \/ Capture!Stalled(n, k)
    BY DEF Capture!EncodeFrame
  <1> DEFINE e == Capture!After(n, k)
  <1>8. k \in BOOLEAN /\ (enc.key => k) /\ (n > 0) \in BOOLEAN /\ n \in Nat
    <2>1. k \in BOOLEAN /\ (enc.key => k)
      BY <1>3, <1>7 DEF Capture!Forced
    <2>2. (n > 0) \in BOOLEAN
      BY Z3
    <2>3. n \in Nat
      BY <1>3, <1>7
    <2> QED BY <2>1, <2>2, <2>3
  <1>9. /\ e \in Encoders /\ e.up = enc.up /\ e.key = k /\ e.stalls = enc.stalls
        /\ Len(e.inside) <= MaxInside /\ Len(e.inside) \in Nat /\ e.inside \in Seq(BOOLEAN)
        /\ n = 0 => e.inside = enc.inside
    BY <1>7, <1>8, Before DEF Encoders
  <1>10. ~(n > 0) => n = 0
    BY <1>8
  <1> HIDE DEF e
  <1>11. CASE Capture!Accepted(n, k)
    <2>1. PICK x \in {k, TRUE} :
             /\ Capture!Loses(n > 0, hold /\ ~x)
             /\ \/ /\ Capture!Publish(Capture!Fed(e, x).inside)
                   /\ enc' = [Capture!Fed(e, x) EXCEPT !.inside = Tail(Capture!Fed(e, x).inside),
                                                       !.proven = TRUE]
                   /\ have' = (have /\ ~gdi)
                \/ /\ Len(Capture!Fed(e, x).inside) <= MaxInside /\ enc' = Capture!Fed(e, x)
                   /\ UNCHANGED <<box, published, have>>
      BY <1>11 DEF Capture!Accepted, e
    <2> DEFINE d == Capture!Fed(e, x)
               q == d.inside
    <2>2. enc.up /\ failures' = 0 /\ UNCHANGED <<force, left>>
      BY <1>11 DEF Capture!Accepted
    <2>3. x \in BOOLEAN /\ (hold /\ ~x) \in BOOLEAN
      BY <1>8, <2>1
    <2>4. d \in Encoders /\ d.up /\ q = Append(e.inside, x)
      BY <1>9, <2>2, <2>3, Feeding
    <2>5. /\ q \in Seq(BOOLEAN) /\ q # <<>> /\ Len(q) = Len(e.inside) + 1
          /\ x => \E i \in 1 .. Len(q) : q[i]
          /\ (\E i \in 1 .. Len(e.inside) : e.inside[i]) => \E i \in 1 .. Len(q) : q[i]
      BY <1>9, <2>3, <2>4, InputsAreKept
    <2>6. /\ lost' \in BOOLEAN /\ broken' \in BOOLEAN /\ (~(n > 0) => broken' = broken)
          /\ n > 0 \/ (hold /\ ~x) \/ lost => lost' \/ Capture!OnItsWay'
      BY <1>8, <2>1, <2>3, Losing
    <2>7. running /\ broken'
          => lost' \/ Capture!OnItsWay' \/ force \/ \E i \in 1 .. Len(q) : q[i]
      <3>1. CASE n > 0 \/ (hold /\ ~x) \/ lost
        BY <2>6, <3>1
      <3>2. CASE n = 0 /\ ~(hold /\ ~x) /\ ~lost
        <4>1. enc.key => x
          BY <1>8, <2>1
        <4>2. hold \/ enc.key => \E i \in 1 .. Len(q) : q[i]
          BY <2>5, <3>2, <4>1
        <4>3. (\E i \in 1 .. Len(enc.inside) : enc.inside[i]) => \E i \in 1 .. Len(q) : q[i]
          BY <1>9, <2>5, <3>2
        <4>4. broken' = broken
          BY <2>6, <3>2
        <4> QED BY <1>6, <2>2, <3>2, <4>2, <4>3, <4>4
      <3> QED BY <1>10, <3>1, <3>2
    <2> HIDE DEF q, d
    <2>8. Tail(q) \in Seq(BOOLEAN) /\ Len(Tail(q)) = Len(q) - 1 /\ Head(q) \in BOOLEAN
      BY <2>5, FramesAreKept
    <2>9. CountsTyped'
      BY <1>1, <1>4, <2>2 DEF CountsTyped
    <2>10. CASE /\ Capture!Publish(q) /\ enc' = [d EXCEPT !.inside = Tail(q), !.proven = TRUE]
                /\ have' = (have /\ ~gdi)
      <3>1. FlagsTyped'
        <4>1. box' \in {"none", "p", "key"} /\ published' = TRUE
          BY <2>10 DEF Capture!Publish
        <4> QED BY <1>1, <2>2, <2>6, <2>10, <4>1 DEF FlagsTyped, Passes
      <3>2. enc' \in Encoders /\ enc'.inside = Tail(q) /\ enc'.up
        BY <2>4, <2>8, <2>10 DEF Encoders
      <3>3. EncoderTyped'
        BY <1>9, <2>2, <2>5, <2>8, <3>2 DEF EncoderTyped
      <3>4. running /\ broken' => lost' \/ Capture!OnItsWay'
        <4>1. CASE force
          BY <2>2, <4>1 DEF Capture!OnItsWay
        <4>2. CASE \E i \in 1 .. Len(q) : q[i]
          BY <2>5, <2>10, <3>2, <4>2, Publishing
        <4> QED BY <2>7, <4>1, <4>2
      <3>5. KeyIsOwed'
        BY <1>1, <3>4 DEF KeyIsOwed, Capture!KeyIsOwed
      <3> QED BY <1>2, <2>9, <3>1, <3>3, <3>5
    <2>11. CASE Len(q) <= MaxInside /\ enc' = d /\ UNCHANGED <<box, published, have>>
      <3>1. FlagsTyped'
        BY <1>1, <2>2, <2>6, <2>11 DEF FlagsTyped, Passes
      <3>2. enc' \in Encoders /\ enc'.inside = q
        BY <2>4, <2>11 DEF q
      <3>3. EncoderTyped'
        BY <2>2, <2>11, <3>2 DEF EncoderTyped
      <3>4. running /\ broken' => lost' \/ Capture!OnItsWay'
        BY <2>2, <2>7, <3>2 DEF Capture!OnItsWay
      <3>5. KeyIsOwed'
        BY <1>1, <3>4 DEF KeyIsOwed, Capture!KeyIsOwed
      <3> QED BY <1>2, <2>9, <3>1, <3>3, <3>5
    <2> QED BY <2>1, <2>10, <2>11 DEF q, d
  <1>12. CASE Capture!Collected(n, k)
    <2> DEFINE q == e.inside
    <2>1. /\ enc.up /\ q # <<>> /\ Capture!Publish(q)
          /\ enc' = [e EXCEPT !.inside = Tail(q), !.proven = TRUE, !.stalls = 0]
          /\ have' = (have /\ ~gdi) /\ failures' = 0 /\ UNCHANGED <<force, left>>
          /\ Capture!Loses(n > 0, hold /\ ~k)
      BY <1>12 DEF Capture!Collected, e
    <2>2. Tail(q) \in Seq(BOOLEAN) /\ Len(Tail(q)) = Len(q) - 1 /\ Head(q) \in BOOLEAN
      BY <1>9, <2>1, FramesAreKept
    <2>3. enc' \in Encoders /\ enc'.inside = Tail(q) /\ enc'.up = enc.up /\ enc'.key = k
      <3>1. 0 \in 0 .. MaxStalls
        BY CaptureAssumption
      <3> QED BY <1>9, <2>1, <2>2, <3>1 DEF Encoders
    <2>4. (hold /\ ~k) \in BOOLEAN
      OBVIOUS
    <2>5. /\ lost' \in BOOLEAN /\ broken' \in BOOLEAN /\ (~(n > 0) => broken' = broken)
          /\ n > 0 \/ (hold /\ ~k) \/ lost => lost' \/ Capture!OnItsWay'
      BY <1>8, <2>1, <2>4, Losing
    <2>6. FlagsTyped'
      <3>1. box' \in {"none", "p", "key"} /\ published' = TRUE
        BY <2>1 DEF Capture!Publish
      <3> QED BY <1>1, <2>1, <2>5, <3>1 DEF FlagsTyped, Passes
    <2>7. CountsTyped'
      BY <1>1, <1>4, <2>1 DEF CountsTyped
    <2>8. EncoderTyped'
      <3>1. Len(enc'.inside) <= MaxInside
        BY <1>9, <2>2, <2>3, CaptureAssumption
      <3> QED BY <2>1, <2>3, <3>1 DEF EncoderTyped
    <2>9. running /\ broken' => lost' \/ Capture!OnItsWay'
      <3>1. CASE n > 0 \/ (hold /\ ~k) \/ lost
        BY <2>5, <3>1
      <3>2. CASE n = 0 /\ ~(hold /\ ~k) /\ ~lost
        <4>1. force \/ hold \/ enc.key => Capture!OnItsWay'
          BY <1>8, <2>1, <2>3, <3>2 DEF Capture!OnItsWay
        <4>2. (\E i \in 1 .. Len(q) : q[i]) => Capture!OnItsWay'
          BY <1>9, <2>1, <2>3, Publishing
        <4>3. q = enc.inside /\ broken' = broken
          BY <1>9, <2>5, <3>2
        <4> QED BY <1>6, <2>1, <3>2, <4>1, <4>2, <4>3
      <3> QED BY <1>10, <3>1, <3>2
    <2>10. KeyIsOwed'
      BY <1>1, <2>9 DEF KeyIsOwed, Capture!KeyIsOwed
    <2> QED BY <1>2, <2>6, <2>7, <2>8, <2>10
  <1>13. CASE Capture!Refused(n, k)
    <2>1. /\ failures' = Capture!Upto(failures, MaxFailures) /\ force' = (force \/ hold)
          /\ UNCHANGED <<box, published, have, left>>
      BY <1>13 DEF Capture!Refused, Capture!Fails, Capture!Restored
    <2>2. CountsTyped'
      BY <1>1, <1>4, <2>1 DEF CountsTyped
    \* Whatever the encoder is left with, it has lost nothing unnoticed.
    <2>3. ASSUME NEW f \in BOOLEAN, Capture!Loses(f, FALSE), enc' \in Encoders,
                 Len(enc'.inside) <= MaxInside, enc'.up = enc.up,
                 ~f /\ enc.up => (enc.key => Capture!OnItsWay')
                                 /\ ((\E i \in 1 .. Len(enc.inside) : enc.inside[i]) => Capture!OnItsWay')
          PROVE  CaptureInv'
      <3>1. /\ lost' \in BOOLEAN /\ broken' \in BOOLEAN /\ (~f => broken' = broken)
            /\ f \/ lost => lost' \/ Capture!OnItsWay'
        BY <2>3, Losing
      <3>2. FlagsTyped'
        <4>1. force' \in BOOLEAN
          BY <2>1
        <4> QED BY <1>1, <2>1, <3>1, <4>1 DEF FlagsTyped, Passes
      <3>3. EncoderTyped'
        BY <2>1, <2>3 DEF EncoderTyped
      <3>4. force \/ hold => Capture!OnItsWay'
        BY <2>1 DEF Capture!OnItsWay
      <3>5. running /\ broken' /\ enc.up => lost' \/ Capture!OnItsWay'
        BY <1>6, <2>3, <3>1, <3>4
      <3>6. KeyIsOwed'
        BY <1>1, <2>3, <3>5 DEF KeyIsOwed, Capture!KeyIsOwed
      <3> QED BY <1>2, <2>2, <3>2, <3>3, <3>6
    <2>4. CASE ~enc.up /\ UNCHANGED enc /\ Capture!Loses(FALSE, FALSE)
      BY <1>3, <2>3, <2>4 DEF EncoderTyped
    <2>5. CASE enc.up /\ enc' \in {e, [e EXCEPT !.proven = @ \/ n > 0]} /\ Capture!Loses(n > 0, FALSE)
      <3>1. (e.proven \/ n > 0) \in BOOLEAN
        OBVIOUS
      <3>2. /\ enc' \in Encoders /\ enc'.up = e.up /\ enc'.inside = e.inside /\ enc'.key = e.key
        BY <1>9, <2>5, <3>1 DEF Encoders
      <3>3. enc.key => Capture!OnItsWay'
        BY <1>8, <1>9, <3>2 DEF Capture!OnItsWay
      <3>4. n = 0 => ((\E i \in 1 .. Len(enc.inside) : enc.inside[i]) => Capture!OnItsWay')
        BY <1>9, <3>2 DEF Capture!OnItsWay
      <3> QED BY <1>8, <1>9, <1>10, <2>3, <2>5, <3>2, <3>3, <3>4
    <2>6. ASSUME enc.up, NEW x \in {k, TRUE}, NEW m \in {0, 1},
                 Len(Capture!Fed(e, x).inside) - m <= MaxInside, Capture!Loses(n + m > 0, FALSE),
                 enc' = [Capture!Fed(e, x) EXCEPT
                            !.inside = SubSeq(Capture!Fed(e, x).inside, m + 1, Len(Capture!Fed(e, x).inside))]
          PROVE  CaptureInv'
      <3> DEFINE d == Capture!Fed(e, x)
                 q == d.inside
                 r == SubSeq(q, m + 1, Len(q))
      <3>1. x \in BOOLEAN /\ (enc.key => x) /\ (n + m > 0) \in BOOLEAN
        <4>1. (n + m > 0) \in BOOLEAN
          BY Z3
        <4> QED BY <1>8, <2>6, <4>1
      <3>2. d \in Encoders /\ d.up = e.up /\ q = Append(e.inside, x)
        BY <1>9, <3>1, Feeding
      <3>3. /\ q \in Seq(BOOLEAN) /\ Len(q) = Len(e.inside) + 1
            /\ x => \E i \in 1 .. Len(q) : q[i]
            /\ (\E i \in 1 .. Len(e.inside) : e.inside[i]) => \E i \in 1 .. Len(q) : q[i]
        BY <1>9, <3>1, <3>2, InputsAreKept
      <3> HIDE DEF q, d
      <3>4. m \in 0 .. Len(q)
        BY <1>9, <2>6, <3>3
      <3>5. r \in Seq(BOOLEAN) /\ Len(r) = Len(q) - m /\ (m = 0 => r = q)
        BY <3>3, <3>4, Dropping
      <3>6. enc' = [d EXCEPT !.inside = r]
        BY <2>6 DEF q, d
      <3>7. Len(r) <= MaxInside
        BY <2>6, <3>5 DEF q, d
      <3> HIDE DEF r
      <3>8. enc' \in Encoders /\ enc'.up = enc.up /\ enc'.inside = r
        BY <1>9, <3>2, <3>5, <3>6 DEF Encoders
      <3>9. ~(n + m > 0) => m = 0 /\ n = 0
        BY <1>8, <2>6
      <3>10. m = 0 => ((\E i \in 1 .. Len(q) : q[i]) => Capture!OnItsWay')
        BY <3>5, <3>8 DEF Capture!OnItsWay
      <3>11. m = 0 /\ n = 0 => (enc.key => Capture!OnItsWay')
                              /\ ((\E i \in 1 .. Len(enc.inside) : enc.inside[i]) => Capture!OnItsWay')
        BY <1>9, <3>1, <3>3, <3>10
      <3>12. Len(enc'.inside) <= MaxInside
        BY <3>7, <3>8
      <3> QED BY <2>3, <2>6, <3>1, <3>8, <3>9, <3>11, <3>12
    <2> QED BY <1>13, <2>4, <2>5, <2>6 DEF Capture!Refused, e
  <1>14. CASE Capture!Stalled(n, k)
    <2> DEFINE d == Capture!Stall(e)
    <2>1. enc.up /\ UNCHANGED <<box, published, have>>
      BY <1>14 DEF Capture!Stalled
    <2>2. CASE Capture!IsWedged(d)
      <3>1. /\ left' = left - 1 /\ broken' = TRUE /\ Capture!Create(left') /\ lost' = (lost /\ ~force')
            /\ \/ enc'.up /\ failures' = 0 /\ force' = TRUE
               \/ ~enc'.up /\ failures' = Capture!Upto(failures, MaxFailures) /\ force' = (force \/ hold)
        BY <1>14, <2>2 DEF Capture!Stalled, Capture!SwapEncoder, Capture!Reject, Capture!Fails,
           Capture!Restored, e
      <3>2. left' \in 0 .. Candidates
        <4>1. left > 0 /\ left \in 0 .. Candidates
          BY <2>1 DEF EncoderTyped, CountsTyped
        <4> QED BY <3>1, <4>1, CaptureAssumption
      <3>3. /\ enc' \in Encoders /\ Len(enc'.inside) <= MaxInside
            /\ enc'.up => left' > 0
        BY <3>1, <3>2, EncodersTyped, CaptureAssumption DEF Capture!Create, Capture!Configured
      <3>4. FlagsTyped'
        <4>1. force' \in BOOLEAN /\ lost' \in BOOLEAN
          BY <3>1 DEF FlagsTyped
        <4> QED BY <1>1, <2>1, <3>1, <4>1 DEF FlagsTyped, Passes
      <3>5. CountsTyped'
        BY <1>1, <1>4, <3>1, <3>2 DEF CountsTyped
      <3>6. EncoderTyped'
        BY <3>3 DEF EncoderTyped
      <3>7. KeyIsOwed'
        BY <3>1 DEF KeyIsOwed, Capture!KeyIsOwed, Capture!OnItsWay
      <3> QED BY <1>2, <3>4, <3>5, <3>6, <3>7
    <2>3. CASE ~Capture!IsWedged(d)
      <3>1. /\ enc' = d /\ failures' = Capture!Upto(failures, MaxFailures)
            /\ force' = (force \/ hold) /\ UNCHANGED left /\ Capture!Loses(n > 0, FALSE)
        BY <1>14, <2>3 DEF Capture!Stalled, Capture!Fails, Capture!Restored, e
      <3>2. enc' = [e EXCEPT !.stalls = e.stalls + 1]
        BY <3>1 DEF Capture!Stall
      <3>3. e.stalls \in 0 .. MaxStalls
        BY <1>9 DEF Encoders
      <3>4. enc'.stalls = e.stalls + 1
        BY <1>9, <3>2 DEF Encoders
      <3>5. enc'.stalls < MaxStalls
        BY <2>3, <3>1, <3>3, <3>4, CaptureAssumption DEF Capture!IsWedged
      <3>6. e.stalls + 1 \in 0 .. MaxStalls
        BY <3>3, <3>4, <3>5, CaptureAssumption
      <3>7. enc' \in Encoders /\ enc'.inside = e.inside /\ enc'.up = enc.up /\ enc'.key = k
        BY <1>9, <3>2, <3>6 DEF Encoders
      <3>8. /\ lost' \in BOOLEAN /\ broken' \in BOOLEAN /\ (~(n > 0) => broken' = broken)
            /\ n > 0 \/ lost => lost' \/ Capture!OnItsWay'
        BY <1>8, <3>1, Losing
      <3>9. FlagsTyped'
        <4>1. force' \in BOOLEAN
          BY <3>1
        <4> QED BY <1>1, <2>1, <3>8, <4>1 DEF FlagsTyped, Passes
      <3>10. CountsTyped'
        BY <1>1, <1>4, <3>1 DEF CountsTyped
      <3>11. EncoderTyped'
        BY <1>9, <3>1, <3>7 DEF EncoderTyped
      <3>12. running /\ broken' => lost' \/ Capture!OnItsWay'
        <4>1. CASE n > 0 \/ lost
          BY <3>8, <4>1
        <4>2. CASE n = 0 /\ ~lost
          <5>1. force \/ hold \/ enc.key => Capture!OnItsWay'
            BY <1>8, <3>1, <3>7 DEF Capture!OnItsWay
          <5>2. (\E i \in 1 .. Len(enc.inside) : enc.inside[i]) => Capture!OnItsWay'
            BY <1>9, <3>7, <4>2 DEF Capture!OnItsWay
          <5>3. broken' = broken
            BY <3>8, <4>2
          <5> QED BY <1>6, <2>1, <4>2, <5>1, <5>2, <5>3
        <4> QED BY <1>10, <4>1, <4>2
      <3>13. KeyIsOwed'
        BY <1>1, <3>12 DEF KeyIsOwed, Capture!KeyIsOwed
      <3> QED BY <1>2, <3>9, <3>10, <3>11, <3>13
    <2> QED BY <2>2, <2>3
  <1> QED BY <1>7, <1>11, <1>12, <1>13, <1>14

LEMMA EncoderDrained ==
    ASSUME CaptureInv, Capture!Idle
    PROVE  CaptureInv'
  <1> USE DEF CaptureInv, Capture!source, Capture!outside
  <1>1. /\ pass = "idle" /\ pass' = "top" /\ force' = (force \/ hold)
        /\ UNCHANGED <<running, applyQ, hold, left, have, gdi, dup, reinit, bridged, noLocal,
                       att, ready, secure, starts>>
    BY DEF Capture!Idle, Capture!Restored
  <1>2. BeginsWithKey' /\ BoxIsFree'
    BY <1>1 DEF BeginsWithKey, BoxIsFree
  <1>3. box = "none" /\ box # "key" /\ force' \in BOOLEAN
    BY <1>1 DEF BoxIsFree
  <1>4. /\ enc.inside \in Seq(BOOLEAN) /\ Len(enc.inside) \in Nat /\ Len(enc.inside) <= MaxInside
        /\ enc \in Encoders
    BY LenProperties DEF EncoderTyped, Encoders
  <1>5. Capture!Upto(failures, MaxFailures) \in 0 .. MaxFailures
    BY CaptureAssumption DEF CountsTyped, Capture!Upto
  <1>6. force \/ hold => Capture!OnItsWay'
    BY <1>1 DEF Capture!OnItsWay
  <1>7. CASE /\ enc.up /\ enc.inside # <<>> /\ Capture!Publish(enc.inside) /\ UNCHANGED failures
             /\ enc' = [enc EXCEPT !.inside = Tail(@), !.proven = TRUE, !.stalls = 0]
             /\ Capture!Loses(FALSE, FALSE)
    <2>1. Tail(enc.inside) \in Seq(BOOLEAN) /\ Len(Tail(enc.inside)) = Len(enc.inside) - 1
      BY <1>4, <1>7, FramesAreKept
    <2>2. 0 \in 0 .. MaxStalls
      BY CaptureAssumption
    <2>3. /\ enc' \in Encoders /\ enc'.inside = Tail(enc.inside) /\ enc'.up = enc.up
          /\ enc'.key = enc.key
      BY <1>4, <1>7, <2>1, <2>2 DEF Encoders
    <2>4. lost' \in BOOLEAN /\ broken' = broken /\ (lost => lost' \/ Capture!OnItsWay')
      BY <1>7, Losing
    <2>5. EncoderTyped'
      <3>1. Len(enc'.inside) <= MaxInside
        BY <1>4, <2>1, <2>3, CaptureAssumption
      <3> QED BY <1>1, <2>3, <3>1 DEF EncoderTyped
    <2>6. FlagsTyped' /\ CountsTyped'
      <3>1. box' \in {"none", "p", "key"} /\ published' = TRUE
        BY <1>7 DEF Capture!Publish
      <3> QED BY <1>1, <1>3, <1>7, <2>4, <3>1 DEF FlagsTyped, Passes, CountsTyped
    <2>7. (\E i \in 1 .. Len(enc.inside) : enc.inside[i]) => Capture!OnItsWay'
      BY <1>4, <1>7, <2>3, Publishing
    <2>8. enc.key => Capture!OnItsWay'
      BY <2>3 DEF Capture!OnItsWay
    <2>9. Capture!OnItsWay \/ lost => Capture!OnItsWay' \/ lost'
      BY <1>3, <1>6, <2>4, <2>7, <2>8 DEF Capture!OnItsWay
    <2>10. KeyIsOwed'
      BY <1>1, <2>3, <2>4, <2>9 DEF KeyIsOwed, Capture!KeyIsOwed
    <2> QED BY <1>2, <2>5, <2>6, <2>10
  <1>8. CASE /\ enc.up /\ enc.inside # <<>> /\ enc' = [enc EXCEPT !.inside = Tail(@)] /\ Capture!Fails
             /\ Capture!Loses(TRUE, FALSE) /\ UNCHANGED <<box, published>>
    <2>1. Tail(enc.inside) \in Seq(BOOLEAN) /\ Len(Tail(enc.inside)) = Len(enc.inside) - 1
      BY <1>4, <1>8, FramesAreKept
    <2>2. enc' \in Encoders /\ enc'.inside = Tail(enc.inside) /\ enc'.up = enc.up
      BY <1>4, <1>8, <2>1 DEF Encoders
    <2>3. lost' \in BOOLEAN /\ broken' \in BOOLEAN /\ (lost' \/ Capture!OnItsWay')
      BY <1>8, Losing
    <2>4. EncoderTyped'
      <3>1. Len(enc'.inside) <= MaxInside
        BY <1>4, <2>1, <2>2, CaptureAssumption
      <3> QED BY <1>1, <2>2, <3>1 DEF EncoderTyped
    <2>5. FlagsTyped'
      BY <1>1, <1>3, <1>8, <2>3 DEF FlagsTyped, Passes
    <2>6. CountsTyped'
      BY <1>1, <1>5, <1>8 DEF CountsTyped, Capture!Fails
    <2>7. KeyIsOwed'
      BY <2>3 DEF KeyIsOwed, Capture!KeyIsOwed
    <2> QED BY <1>2, <2>4, <2>5, <2>6, <2>7
  <1>9. CASE /\ UNCHANGED <<box, published, enc>> /\ Capture!Loses(FALSE, FALSE)
             /\ failures' \in {failures, Capture!Upto(failures, MaxFailures)}
    <2>1. lost' \in BOOLEAN /\ broken' = broken /\ (lost => lost' \/ Capture!OnItsWay')
      BY <1>9, Losing
    <2>2. FlagsTyped'
      BY <1>1, <1>3, <1>9, <2>1 DEF FlagsTyped, Passes
    <2>3. CountsTyped' /\ EncoderTyped'
      BY <1>1, <1>5, <1>9 DEF CountsTyped, EncoderTyped
    <2>4. Capture!OnItsWay => Capture!OnItsWay'
      BY <1>1, <1>9 DEF Capture!OnItsWay
    <2>5. KeyIsOwed'
      BY <1>1, <1>9, <2>1, <2>4 DEF KeyIsOwed, Capture!KeyIsOwed
    <2> QED BY <1>2, <2>2, <2>3, <2>5
  <1> QED BY <1>7, <1>8, <1>9 DEF Capture!Idle

\* A pass that captures keeps the request: it goes on with it, or puts it back.
LEMMA Capturing ==
    ASSUME CaptureInv, Capture!Capture, lost' = (lost /\ ~force')
    PROVE  CaptureInv'
  <1>0. lost' \in BOOLEAN /\ (lost => lost' \/ Capture!OnItsWay')
    BY Remembers
  <1> USE <1>0
  <1> USE DEF CaptureInv, Capture!source, Capture!outside, Capture!output
  <1> DEFINE Kept == /\ pass' \in {"encode", "idle", "top"} /\ force' \in BOOLEAN
                     /\ force => force'
                     /\ hold /\ pass' = "top" => force'
             Sources == /\ gdi' \in BOOLEAN /\ dup' \in BOOLEAN /\ reinit' \in 0 .. MaxReinit
                        /\ bridged' \in BOOLEAN /\ noLocal' \in BOOLEAN
                        /\ have' \in BOOLEAN /\ failures' \in 0 .. MaxFailures
  <1>1. /\ pass = "capture"
        /\ UNCHANGED <<running, applyQ, box, hold, enc, left, published, broken, att, ready, secure,
                       starts>>
    BY DEF Capture!Capture
  <1>2. Capture!Upto(failures, MaxFailures) \in 0 .. MaxFailures
        /\ Capture!Upto(reinit, MaxReinit) \in 0 .. MaxReinit /\ 0 \in 0 .. MaxReinit
    BY CaptureAssumption DEF CountsTyped, Capture!Upto
  <1>3. ASSUME NEW new \in BOOLEAN, Capture!Goes(new)
        PROVE  pass' \in {"encode", "idle"}
    BY <1>3 DEF Capture!Goes
  <1>4. Capture!CaptureGdi => pass' \in {"encode", "idle"} /\ have' = TRUE
    BY <1>3 DEF Capture!CaptureGdi
  <1>5. Capture!Leave => /\ UNCHANGED <<gdi, noLocal>> /\ bridged' = FALSE /\ dup' \in BOOLEAN
                         /\ reinit' \in 0 .. MaxReinit
    BY <1>2 DEF Capture!Leave, CountsTyped, FlagsTyped
  <1>6. Kept /\ Sources
    <2>1. CASE Capture!CaptureBridged
      <3>1. CASE ready
        <4>1. PICK new \in BOOLEAN : have' = (have \/ new) /\ Capture!Goes(new)
          BY <2>1, <3>1 DEF Capture!CaptureBridged
        <4>2. pass' \in {"encode", "idle"}
          BY <1>3, <4>1
        <4>3. UNCHANGED <<force, gdi, dup, reinit, bridged, noLocal, failures>>
          BY <2>1, <3>1 DEF Capture!CaptureBridged
        <4>4. have' \in BOOLEAN
          BY <4>1
        <4> QED BY <4>2, <4>3, <4>4 DEF FlagsTyped, CountsTyped
      <3>2. CASE ~ready
        <4>1. pass' = "top" /\ UNCHANGED <<have, failures>>
          BY <2>1, <3>2 DEF Capture!CaptureBridged
        <4>2. CASE Capture!CanLeave
          <5>1. Capture!Leave /\ force' = TRUE
            BY <2>1, <3>2, <4>2 DEF Capture!CaptureBridged
          <5> QED BY <1>5, <4>1, <5>1 DEF FlagsTyped, CountsTyped
        <4>3. CASE ~Capture!CanLeave
          <5>1. UNCHANGED <<gdi, dup, reinit, bridged, noLocal>> /\ force' = (force \/ hold)
            BY <2>1, <3>2, <4>3 DEF Capture!CaptureBridged, Capture!Restored
          <5> QED BY <4>1, <5>1 DEF FlagsTyped, CountsTyped
        <4> QED BY <4>2, <4>3
      <3> QED BY <3>1, <3>2
    <2>2. CASE Capture!CaptureDxgi
      <3>1. PICK new \in BOOLEAN : have' = (have \/ new) /\ Capture!Goes(new)
        BY <2>2 DEF Capture!CaptureDxgi
      <3>2. pass' \in {"encode", "idle"} /\ have' \in BOOLEAN
        BY <1>3, <3>1
      <3>3. UNCHANGED <<force, gdi, dup, reinit, bridged, noLocal, failures>>
        BY <2>2 DEF Capture!CaptureDxgi
      <3> QED BY <3>2, <3>3 DEF FlagsTyped, CountsTyped
    <2>3. CASE Capture!DuplicationLost
      <3>1. failures' \in 0 .. MaxFailures
        BY <1>2, <2>3 DEF Capture!DuplicationLost, Capture!Fails
      <3>2. CASE /\ dup' = TRUE /\ reinit' = 0 /\ pass' = "top" /\ Capture!Restored
                 /\ UNCHANGED <<gdi, bridged, noLocal, have>>
        BY <1>2, <3>1, <3>2 DEF FlagsTyped, Capture!Restored
      <3>3. CASE /\ reinit' = Capture!Upto(reinit, MaxReinit) /\ gdi' = (reinit' = MaxReinit)
                 /\ dup' = FALSE /\ UNCHANGED noLocal
                 /\ IF secure /\ Capture!CanEnter
                    THEN bridged' = TRUE /\ pass' = "top" /\ force' = TRUE /\ UNCHANGED have
                    ELSE /\ UNCHANGED bridged /\ Capture!Restored
                         /\ Capture!CaptureGdi \/ (pass' = "top" /\ UNCHANGED have)
        <4>1. gdi' \in BOOLEAN
          BY <3>3
        <4>2. CASE secure /\ Capture!CanEnter
          BY <1>2, <3>1, <3>3, <4>1, <4>2 DEF FlagsTyped
        <4>3. CASE ~(secure /\ Capture!CanEnter)
          <5>1. /\ UNCHANGED bridged /\ force' = (force \/ hold)
                /\ Capture!CaptureGdi \/ (pass' = "top" /\ UNCHANGED have)
            BY <3>3, <4>3 DEF Capture!Restored
          <5>2. pass' \in {"encode", "idle", "top"} /\ have' \in BOOLEAN
            BY <1>4, <5>1 DEF FlagsTyped
          <5> QED BY <1>2, <3>1, <3>3, <4>1, <5>1, <5>2 DEF FlagsTyped
        <4> QED BY <4>2, <4>3
      <3> QED BY <2>3, <3>2, <3>3 DEF Capture!DuplicationLost
    <2>4. CASE Capture!CaptureByGdi
      <3>1. UNCHANGED <<gdi, dup, reinit, bridged, noLocal>>
        BY <2>4 DEF Capture!CaptureByGdi
      <3>2. CASE Capture!CaptureGdi /\ UNCHANGED <<force, failures>>
        BY <1>4, <3>1, <3>2 DEF FlagsTyped, CountsTyped
      <3>3. CASE pass' = "top" /\ Capture!Fails /\ Capture!Restored /\ UNCHANGED have
        BY <1>2, <3>1, <3>3 DEF FlagsTyped, CountsTyped, Capture!Fails, Capture!Restored
      <3> QED BY <2>4, <3>2, <3>3 DEF Capture!CaptureByGdi
    <2> QED BY <2>1, <2>2, <2>3, <2>4 DEF Capture!Capture
  <1>7. FlagsTyped'
    BY <1>1, <1>6 DEF FlagsTyped, Passes
  <1>8. CountsTyped' /\ EncoderTyped'
    BY <1>1, <1>6 DEF CountsTyped, EncoderTyped
  <1>9. BeginsWithKey' /\ BoxIsFree'
    BY <1>1, <1>6 DEF BeginsWithKey, BoxIsFree
  <1>10. KeyIsOwed'
    <2>1. Capture!OnItsWay => Capture!OnItsWay'
      BY <1>1, <1>6 DEF Capture!OnItsWay
    <2> QED BY <1>1, <2>1 DEF KeyIsOwed, Capture!KeyIsOwed
  <1> QED BY <1>7, <1>8, <1>9, <1>10

LEMMA StepsElsewhere ==
    ASSUME CaptureInv, lost' = (lost /\ ~force'),
           \/ Capture!Start \/ Capture!StopDesktop \/ Capture!Free \/ Capture!Requests
           \/ Capture!DrainMain \/ Capture!InitPipeline \/ Capture!ApplyPendingControls
           \/ Capture!Gate \/ Capture!ThreadLeaves \/ Capture!Take \/ Capture!Capture
           \/ Capture!Outside
    PROVE  CaptureInv'
  <1>0. lost' \in BOOLEAN /\ (lost => lost' \/ Capture!OnItsWay')
    BY Remembers
  <1> USE <1>0
  <1> USE DEF CaptureInv, Capture!source, Capture!outside, Capture!output, Capture!shared
  <1>1. CASE Capture!Start
    <2>1. FlagsTyped'
      <3>1. ready' \in BOOLEAN /\ att' \in BOOLEAN
        BY <1>1 DEF Capture!Start, FlagsTyped
      <3> QED BY <1>1, <3>1 DEF FlagsTyped, Passes, Capture!Start
    <2>2. CountsTyped'
      BY <1>1, CaptureAssumption DEF CountsTyped, Capture!Start
    <2>3. EncoderTyped'
      <3>1. enc' = Capture!NoEncoder
        BY <1>1 DEF Capture!Start
      <3> QED BY <3>1, EncodersTyped, CaptureAssumption DEF EncoderTyped
    <2>4. BeginsWithKey' /\ BoxIsFree' /\ KeyIsOwed'
      BY <1>1 DEF Capture!Start, BeginsWithKey, BoxIsFree, KeyIsOwed, Capture!KeyIsOwed
    <2> QED BY <2>1, <2>2, <2>3, <2>4
  <1>2. CASE Capture!StopDesktop
    <2>1. FlagsTyped' /\ CountsTyped'
      <3>1. FlagsTyped'
        <4>1. /\ UNCHANGED <<pass, force, applyQ, box, hold, published, broken, have, gdi, dup, bridged,
                             noLocal, att, ready, secure>>
              /\ running' = FALSE
          BY <1>2 DEF Capture!StopDesktop
        <4>2. running' \in BOOLEAN
          BY <4>1
        <4> QED BY <4>1, <4>2 DEF FlagsTyped
      <3>2. CountsTyped'
        BY <1>2 DEF Capture!StopDesktop, CountsTyped
      <3> QED BY <3>1, <3>2
    <2>2. EncoderTyped'
      BY <1>2 DEF Capture!StopDesktop, EncoderTyped
    <2>3. BeginsWithKey' /\ BoxIsFree' /\ KeyIsOwed'
      BY <1>2 DEF Capture!StopDesktop, BeginsWithKey, BoxIsFree, KeyIsOwed, Capture!KeyIsOwed
    <2> QED BY <2>1, <2>2, <2>3
  <1>3. CASE Capture!Free
    <2>1. FlagsTyped'
      BY <1>3 DEF Capture!Free, FlagsTyped, Passes
    <2>2. CountsTyped' /\ EncoderTyped'
      BY <1>3 DEF Capture!Free, CountsTyped, EncoderTyped
    <2>3. BeginsWithKey' /\ BoxIsFree' /\ KeyIsOwed'
      BY <1>3 DEF Capture!Free, BeginsWithKey, BoxIsFree, KeyIsOwed, Capture!KeyIsOwed
    <2> QED BY <2>1, <2>2, <2>3
  <1>4. CASE Capture!Requests
    <2>1. /\ UNCHANGED <<pass, running, box, hold, enc, left, published, broken, have, gdi, dup, reinit,
                         bridged, noLocal, failures, att, ready, secure, starts>>
          /\ force' \in BOOLEAN /\ applyQ' \in BOOLEAN /\ (force => force')
      <3>1. \/ force' = TRUE /\ applyQ' = applyQ
            \/ applyQ' = TRUE /\ force' = force
        BY <1>4 DEF Capture!Requests
      <3>2. force' \in BOOLEAN /\ applyQ' \in BOOLEAN /\ (force => force')
        BY <3>1 DEF FlagsTyped
      <3> QED BY <1>4, <3>2 DEF Capture!Requests
    <2>2. FlagsTyped' /\ CountsTyped' /\ EncoderTyped'
      BY <2>1 DEF FlagsTyped, CountsTyped, EncoderTyped
    <2>3. BeginsWithKey' /\ BoxIsFree'
      BY <2>1 DEF BeginsWithKey, BoxIsFree
    <2>4. Capture!OnItsWay => Capture!OnItsWay'
      BY <2>1 DEF Capture!OnItsWay
    <2>5. KeyIsOwed'
      BY <2>1, <2>4 DEF KeyIsOwed, Capture!KeyIsOwed
    <2> QED BY <2>2, <2>3, <2>5
  <1>5. CASE Capture!DrainMain
    <2>1. /\ UNCHANGED <<pass, running, applyQ, hold, enc, left, published, have, gdi, dup, reinit,
                         bridged, noLocal, failures, att, ready, secure, starts>>
          /\ box' = "none" /\ running
          /\ \/ broken' = (broken /\ box # "key") /\ force' = force
             \/ broken' = TRUE /\ force' = TRUE
      BY <1>5 DEF Capture!DrainMain
    <2>2. FlagsTyped' /\ CountsTyped' /\ EncoderTyped'
      <3>1. force' \in BOOLEAN /\ broken' \in BOOLEAN
        BY <2>1 DEF FlagsTyped
      <3> QED BY <2>1, <3>1 DEF FlagsTyped, CountsTyped, EncoderTyped
    <2>3. BeginsWithKey' /\ BoxIsFree'
      BY <2>1 DEF BeginsWithKey, BoxIsFree
    <2>4. Capture!OnItsWay /\ box # "key" /\ force' = force => Capture!OnItsWay'
      BY <2>1 DEF Capture!OnItsWay
    <2>5. force' = TRUE => Capture!OnItsWay'
      BY DEF Capture!OnItsWay
    <2>6. KeyIsOwed'
      BY <2>1, <2>4, <2>5 DEF KeyIsOwed, Capture!KeyIsOwed
    <2> QED BY <2>2, <2>3, <2>6
  <1>6. CASE Capture!InitPipeline
    <2>1. /\ UNCHANGED <<applyQ, box, hold, left, published, broken, reinit, failures, att, ready,
                         secure, starts>>
          /\ pass = "init" /\ Capture!Create(left) /\ gdi' \in BOOLEAN
          /\ dup' \in BOOLEAN /\ bridged' \in BOOLEAN /\ noLocal' \in BOOLEAN /\ have' \in BOOLEAN
          /\ running' \in BOOLEAN
      BY <1>6 DEF Capture!InitPipeline, FlagsTyped
    <2>2. /\ pass' \in {"top", "left"} /\ force' = TRUE
      BY <1>6 DEF Capture!InitPipeline, BeginsWithKey, FlagsTyped
    <2>3. FlagsTyped' /\ CountsTyped'
      BY <2>1, <2>2 DEF FlagsTyped, Passes, CountsTyped
    <2>4. EncoderTyped'
      BY <2>1, EncodersTyped, CaptureAssumption
         DEF EncoderTyped, Capture!Create, Capture!Configured, CountsTyped
    <2>5. BeginsWithKey' /\ BoxIsFree' /\ KeyIsOwed'
      BY <2>2 DEF BeginsWithKey, BoxIsFree, KeyIsOwed, Capture!KeyIsOwed, Capture!OnItsWay
    <2> QED BY <2>3, <2>4, <2>5
  <1>7. CASE Capture!ApplyPendingControls
    <2>1. /\ UNCHANGED <<running, box, hold, enc, left, published, broken, have, gdi, dup, reinit,
                         bridged, noLocal, failures, att, ready, secure, starts>>
          /\ pass = "top" /\ pass' = "gate" /\ applyQ' = FALSE /\ force' = (force \/ applyQ)
      BY <1>7 DEF Capture!ApplyPendingControls
    <2>2. FlagsTyped' /\ CountsTyped' /\ EncoderTyped'
      <3>1. force' \in BOOLEAN
        BY <2>1 DEF FlagsTyped
      <3>2. applyQ' \in BOOLEAN /\ pass' \in Passes
        BY <2>1 DEF Passes
      <3>3. FlagsTyped'
        BY <2>1, <3>1, <3>2 DEF FlagsTyped
      <3> QED BY <2>1, <3>3 DEF CountsTyped, EncoderTyped
    <2>3. BeginsWithKey' /\ BoxIsFree'
      BY <2>1 DEF BeginsWithKey, BoxIsFree
    <2>4. Capture!OnItsWay => Capture!OnItsWay'
      BY <2>1 DEF Capture!OnItsWay
    <2>5. KeyIsOwed'
      BY <2>1, <2>4 DEF KeyIsOwed, Capture!KeyIsOwed
    <2> QED BY <2>2, <2>3, <2>5
  <1>8. CASE Capture!Gate
    <2>1. /\ UNCHANGED <<running, force, applyQ, box, hold, enc, left, published, broken, have, gdi, dup,
                         reinit, bridged, noLocal, failures, att, ready, secure, starts>>
          /\ pass = "gate" /\ (pass' = "top" \/ (pass' = "take" /\ box = "none"))
      BY <1>8 DEF Capture!Gate
    <2>2. FlagsTyped' /\ CountsTyped' /\ EncoderTyped'
      BY <2>1 DEF FlagsTyped, Passes, CountsTyped, EncoderTyped
    <2>3. BeginsWithKey' /\ BoxIsFree'
      BY <2>1 DEF BeginsWithKey, BoxIsFree
    <2>4. Capture!OnItsWay => Capture!OnItsWay'
      BY <2>1 DEF Capture!OnItsWay
    <2>5. KeyIsOwed'
      BY <2>1, <2>4 DEF KeyIsOwed, Capture!KeyIsOwed
    <2> QED BY <2>2, <2>3, <2>5
  <1>9. CASE Capture!ThreadLeaves
    <2>1. FlagsTyped'
      <3>1. /\ UNCHANGED <<running, force, applyQ, box, hold, published, broken, have, gdi, bridged,
                           noLocal, att, ready, secure>>
            /\ pass' = "left" /\ dup' = FALSE
        BY <1>9 DEF Capture!ThreadLeaves
      <3>2. dup' \in BOOLEAN /\ pass' \in Passes
        BY <3>1 DEF Passes
      <3> QED BY <3>1, <3>2 DEF FlagsTyped
    <2>2. CountsTyped'
      BY <1>9 DEF Capture!ThreadLeaves, CountsTyped
    <2>3. EncoderTyped'
      <3>1. enc' = Capture!NoEncoder
        BY <1>9 DEF Capture!ThreadLeaves
      <3> QED BY <3>1, EncodersTyped, CaptureAssumption DEF EncoderTyped
    <2>4. BeginsWithKey' /\ BoxIsFree' /\ KeyIsOwed'
      BY <1>9 DEF Capture!ThreadLeaves, BeginsWithKey, BoxIsFree, KeyIsOwed, Capture!KeyIsOwed
    <2> QED BY <2>1, <2>2, <2>3, <2>4
  <1>10. CASE Capture!Take
    <2>1. /\ UNCHANGED <<running, applyQ, box, enc, left, published, broken, have, failures, att, ready,
                         secure, starts>>
          /\ pass = "take" /\ pass' = "capture" /\ hold' = force /\ force' \in BOOLEAN
      BY <1>10 DEF Capture!Take
    <2>2. /\ gdi' \in BOOLEAN /\ dup' \in BOOLEAN /\ reinit' \in 0 .. MaxReinit
          /\ bridged' \in BOOLEAN /\ noLocal' \in BOOLEAN
      <3>1. CASE Capture!Enter
        BY <3>1 DEF Capture!Enter, FlagsTyped, CountsTyped
      <3>2. CASE Capture!Leave
        <4>1. 0 \in 0 .. MaxReinit
          BY CaptureAssumption
        <4> QED BY <3>2, <4>1 DEF Capture!Leave, FlagsTyped, CountsTyped
      <3>3. CASE UNCHANGED Capture!source
        BY <3>3 DEF FlagsTyped, CountsTyped
      <3> QED BY <1>10, <3>1, <3>2, <3>3 DEF Capture!Take
    <2>3. FlagsTyped' /\ CountsTyped' /\ EncoderTyped'
      BY <2>1, <2>2 DEF FlagsTyped, Passes, CountsTyped, EncoderTyped
    <2>4. BeginsWithKey' /\ BoxIsFree'
      BY <2>1 DEF BeginsWithKey, BoxIsFree
    <2>5. Capture!OnItsWay => Capture!OnItsWay'
      BY <2>1 DEF Capture!OnItsWay
    <2>6. KeyIsOwed'
      BY <2>1, <2>5 DEF KeyIsOwed, Capture!KeyIsOwed
    <2> QED BY <2>3, <2>4, <2>6
  <1>11. CASE Capture!Capture
    BY <1>11, Capturing
  <1>12. CASE Capture!Outside
    <2>1. /\ UNCHANGED <<pass, running, force, applyQ, box, hold, enc, left, published, broken, have, gdi,
                         dup, reinit, bridged, noLocal, failures, att, starts>>
          /\ secure' \in BOOLEAN /\ ready' \in BOOLEAN
      BY <1>12 DEF Capture!Outside, FlagsTyped
    <2>2. FlagsTyped' /\ CountsTyped' /\ EncoderTyped'
      BY <2>1 DEF FlagsTyped, CountsTyped, EncoderTyped
    <2>3. BeginsWithKey' /\ BoxIsFree'
      BY <2>1 DEF BeginsWithKey, BoxIsFree
    <2>4. Capture!OnItsWay => Capture!OnItsWay'
      BY <2>1 DEF Capture!OnItsWay
    <2>5. KeyIsOwed'
      BY <2>1, <2>4 DEF KeyIsOwed, Capture!KeyIsOwed
    <2> QED BY <2>2, <2>3, <2>5
  <1> QED BY <1>1, <1>2, <1>3, <1>4, <1>5, <1>6, <1>7, <1>8, <1>9, <1>10, <1>11, <1>12

LEMMA CaptureStepHolds == CaptureInv /\ [Capture!WinNext]_(Capture!winVars) => CaptureInv'
  <1> SUFFICES ASSUME CaptureInv, [Capture!WinNext]_(Capture!winVars) PROVE CaptureInv'
    OBVIOUS
  <1>1. CASE Capture!Idle
    BY <1>1, EncoderDrained
  <1>2. CASE Capture!EncodeFrame
    BY <1>2, EncoderAtWork
  <1>3. CASE UNCHANGED Capture!winVars
    BY <1>3 DEF CaptureInv, FlagsTyped, CountsTyped, EncoderTyped, BeginsWithKey, BoxIsFree, KeyIsOwed,
       Capture!KeyIsOwed, Capture!OnItsWay, Capture!winVars, Capture!shared, Capture!output,
       Capture!source, Capture!outside
  <1> QED BY <1>1, <1>2, <1>3, StepsElsewhere DEF Capture!WinNext

LEMMA CaptureInvariance == Capture!WinSpec => []CaptureInv
  BY CaptureInitHolds, CaptureStepHolds, PTL DEF Capture!WinSpec

\* Every variable of the capture stays in its range, the queue of the encoder
\* within its bound (desktop_win.c, mfenc.c).
THEOREM CaptureTypesHold == Capture!WinSpec => []Capture!WinTypeOK
  <1>1. CaptureInv => Capture!WinTypeOK
    BY DEF CaptureInv, FlagsTyped, Passes, CountsTyped, EncoderTyped, Encoders, Capture!WinTypeOK
  <1> QED BY <1>1, CaptureInvariance, PTL

\* For every depth of the encoder's queue and any number of candidates, stalls
\* and failures: as long as the viewer lacks a key frame, one is on its way,
\* unless the encoder forgot the request or failed a frame and none was asked
\* for since (bForceKeyframe, DirectGate_MfEnc_Encode).
THEOREM KeyFramesComeThrough == Capture!WinSpec => []KeyIsOwed
  <1>1. CaptureInv => KeyIsOwed
    BY DEF CaptureInv
  <1> QED BY <1>1, CaptureInvariance, PTL

=============================================================================
