------------------------------ MODULE ClientLogin ------------------------------
(* The client's account session (login.c, webapi.c and the first half of      *)
(* DirectGate_Client_Prepare): signing in through the browser, refreshing a   *)
(* token that rotates, and the file that keeps the session between runs. One  *)
(* run follows another; any of them may be killed at any step.                *)
(*                                                                            *)
(* A session is the number of the token the API issued; what an HTTP request  *)
(* comes to is an outcome.                                                    *)
EXTENDS Integers

CONSTANTS
    MaxRuns,      \* bound: runs of the client
    MaxTokens     \* bound: tokens the API issues

ASSUME LoginAssumption == MaxRuns \in Nat /\ MaxTokens \in Nat

VARIABLES
    at,       \* what the run is about to do; "idle" between runs
    cmd,      \* logout, login, or anything that needs the devices
    tty,      \* DirectGate_Client_IsInteractive
    acct,     \* the session in memory
    again,    \* LoadDevices has been through its refresh
    paste,    \* bAllowPaste
    code,     \* sCode: none, the flow's own one, or another
    file,     \* the account file: the token, and whether it has not expired
    api,      \* tokens issued, the refresh tokens and the access tokens taken
    runs      \* runs left

loginVars == <<at, cmd, tty, acct, again, paste, code, file, api, runs>>
locals == <<cmd, tty, again, runs>>

None == 0
NoFile == [gen |-> None, fresh |-> FALSE]
Tokens == 1 .. MaxTokens

Steps == {"idle", "begin", "refresh", "retry", "listen", "await", "redeem", "save", "fetch", "pick"}

LoginTypeOK ==
    /\ at \in Steps /\ cmd \in {"logout", "login", "devices"} /\ tty \in BOOLEAN
    /\ acct \in Tokens \cup {None} /\ again \in BOOLEAN /\ paste \in BOOLEAN
    /\ code \in {"none", "own", "other"}
    /\ file \in [gen : Tokens \cup {None}, fresh : BOOLEAN]
    /\ api \in [issued : 0 .. MaxTokens, live : SUBSET Tokens, taken : SUBSET Tokens]
    /\ runs \in 0 .. MaxRuns

LoginInit ==
    /\ at = "idle" /\ cmd = "devices" /\ tty = FALSE /\ acct = None /\ again = FALSE
    /\ paste = FALSE /\ code = "none" /\ file = NoFile
    /\ api = [issued |-> 0, live |-> {}, taken |-> {}] /\ runs = MaxRuns

(* The end of a run, and its first step.                                      *)
RunEnds == at' = "idle" /\ acct' = None

Start ==
    /\ at = "idle" /\ runs > 0 /\ runs' = runs - 1
    /\ cmd' \in {"logout", "login", "devices"} /\ tty' \in BOOLEAN
    /\ at' = "begin" /\ acct' = None /\ again' = FALSE /\ paste' = FALSE /\ code' = "none"
    /\ UNCHANGED <<file, api>>

-----------------------------------------------------------------------------
(* The account file.                                                          *)

(* DirectGate_Account_Save: a new file in place of the old one, or a failure  *)
(* that leaves the old one.                                                   *)
Saved == file' = [gen |-> acct, fresh |-> TRUE]
Save == Saved \/ UNCHANGED file

(* DirectGate_Account_Forget                                                  *)
Forget == file' = NoFile \/ UNCHANGED file

(* DirectGate_Account_IsExpired                                               *)
IsExpired == ~file.fresh

-----------------------------------------------------------------------------
(* The API. A refresh takes the token it was given and issues another one;    *)
(* the answer may get lost on its way.                                        *)

Issue(old) ==
    /\ api.issued < MaxTokens
    /\ api' = [issued |-> api.issued + 1,
               live |-> (api.live \ {old}) \cup {api.issued + 1},
               taken |-> api.taken \cup {api.issued + 1}]

(* DirectGate_Login_ApplyToken                                                *)
ApplyToken == acct' = api.issued + 1

(* DirectGate_Login_Refresh, and the outcome it reports.                      *)
Refresh(outcome) ==
    \/ outcome = "ok" /\ acct \in api.live /\ Issue(acct) /\ ApplyToken
    \/ outcome = "failed" /\ acct \in api.live /\ Issue(acct) /\ UNCHANGED acct
    \/ outcome = "failed" /\ UNCHANGED <<api, acct>>
    \/ outcome = "rejected" /\ acct \notin api.live /\ UNCHANGED <<api, acct>>

(* Time passes, and another of the account's devices ends the sign-in.        *)
Expire ==
    /\ file.fresh \/ api.taken # {}
    /\ file' = [file EXCEPT !.fresh = FALSE] /\ api' = [api EXCEPT !.taken = {}]
    /\ UNCHANGED <<at, acct, paste, code, locals>>

SignedOut ==
    /\ api.live # {} /\ api' = [api EXCEPT !.live = {}, !.taken = {}]
    /\ UNCHANGED <<at, acct, paste, code, file, locals>>

-----------------------------------------------------------------------------
(* Commands. DirectGate_Client_Prepare and DirectGate_Login_Ensure            *)

Logout ==
    /\ at = "begin" /\ cmd = "logout" /\ Forget /\ RunEnds
    /\ UNCHANGED <<paste, code, api, locals>>

Login ==
    /\ at = "begin" /\ cmd = "login" /\ at' = "listen"
    /\ UNCHANGED <<acct, paste, code, file, api, locals>>

(* Signing in again, for who can.                                             *)
OrInteractive == IF tty THEN at' = "listen" /\ UNCHANGED acct ELSE RunEnds

(* The stored session, when it can be read and has not expired.               *)
Load ==
    /\ at = "begin" /\ cmd = "devices"
    /\ \/ /\ file.gen # None /\ acct' = file.gen
          /\ at' = IF IsExpired THEN "refresh" ELSE "fetch"
       \/ OrInteractive
    /\ UNCHANGED <<paste, code, file, api, locals>>

EnsureRefresh ==
    /\ at = "refresh"
    /\ \/ Refresh("ok") /\ at' = "save"
       \/ \E how \in {"failed", "rejected"} :
             Refresh(how) /\ (IF tty THEN at' = "listen" ELSE at' = "idle")
    /\ UNCHANGED <<paste, code, file, locals>>

(* What follows a new session: it is kept, and used.                          *)
Keep ==
    /\ at = "save" /\ Save
    /\ IF cmd = "login" THEN RunEnds ELSE at' = "fetch" /\ UNCHANGED acct
    /\ UNCHANGED <<paste, code, api, locals>>

(* DirectGate_Client_LoadDevices: any failure leads to one refresh, and only  *)
(* a token the API refused to a new sign-in.                                  *)
FetchDevices ==
    /\ at = "fetch"
    /\ \/ acct \in api.taken /\ at' = "pick"
       \/ at' = IF again THEN "idle" ELSE "retry"
    /\ UNCHANGED <<cmd, tty, acct, again, paste, code, file, api, runs>>

(* Mutant: a refresh that failed for any reason forgets the session.          *)
SignsInAgainAnyway(how) == how \in {"failed", "rejected"}

SignsInAgain(how) == how = "rejected"

Retry ==
    /\ at = "retry" /\ again' = TRUE
    /\ \E how \in {"ok", "failed", "rejected"} :
          /\ Refresh(how)
          /\ CASE how = "ok" -> at' = "save" /\ UNCHANGED file
               [] SignsInAgain(how) -> Forget /\ (IF tty THEN at' = "listen" ELSE at' = "idle")
               [] OTHER -> at' = "idle" /\ UNCHANGED file
    /\ UNCHANGED <<cmd, tty, paste, code, runs>>

(* DirectGate_Client_ResolveDevice: one device that can be connected, or none.*)
Resolve ==
    /\ at = "pick" /\ RunEnds /\ UNCHANGED <<paste, code, file, api, locals>>

-----------------------------------------------------------------------------
(* DirectGate_Login_Interactive                                               *)

(* A port to listen on; without a browser here the code may be pasted.        *)
Listen ==
    /\ at = "listen"
    /\ \/ at' = "await" /\ paste' \in BOOLEAN /\ code' = "none" /\ UNCHANGED acct
       \/ RunEnds /\ UNCHANGED <<paste, code>>
    /\ UNCHANGED <<file, api, locals>>

Got(c) == code' = c /\ at' = "redeem" /\ UNCHANGED acct

(* ReadPaste: a code, nothing useful, or the end of the input.                *)
ReadPaste ==
    /\ at = "await" /\ paste
    /\ \/ \E c \in {"own", "other"} : Got(c) /\ UNCHANGED paste
       \/ paste' = FALSE /\ UNCHANGED <<at, acct, code>>
    /\ UNCHANGED <<file, api, locals>>

(* ServeOnce and ParseRequest: a code whose state matches or is missing, or   *)
(* the provider's refusal. What else arrives - a preflight, another flow's    *)
(* state, another origin - changes nothing.                                   *)
ServeOnce ==
    /\ at = "await"
    /\ \/ \E c \in {"own", "other"} : Got(c)
       \/ RunEnds /\ UNCHANGED code
    /\ UNCHANGED <<paste, file, api, locals>>

(* Await: five minutes, or Ctrl-C.                                            *)
GivesUp == at = "await" /\ RunEnds /\ UNCHANGED <<paste, code, file, api, locals>>

(* Redeem: the verifier only fits the code of this flow.                      *)
Redeem ==
    /\ at = "redeem"
    /\ \/ code = "own" /\ Issue(None) /\ ApplyToken /\ at' = "save"
       \/ code = "own" /\ Issue(None) /\ RunEnds
       \/ RunEnds /\ UNCHANGED api
    /\ code' = "none" /\ UNCHANGED <<paste, file, locals>>

Killed ==
    /\ at # "idle" /\ RunEnds /\ code' = "none" /\ UNCHANGED <<paste, file, api, locals>>

LoginNext ==
    \/ Start \/ Expire \/ SignedOut \/ Logout \/ Login \/ Load \/ EnsureRefresh \/ Keep
    \/ FetchDevices \/ Retry \/ Resolve \/ Listen \/ ReadPaste \/ ServeOnce \/ GivesUp \/ Redeem
    \/ Killed

LoginSpec == LoginInit /\ [][LoginNext]_loginVars

-----------------------------------------------------------------------------

(* A stored session the API would still refresh is given up only by a logout  *)
(* or for a newer one: not by an unreachable API, a lost answer, a sign-in    *)
(* that was cancelled or a run that was killed ("you only sign in again when  *)
(* the refresh token is gone").                                               *)
KeepsWhatWorks ==
    [][file.gen \in api.live /\ file'.gen # file.gen =>
          (at = "begin" /\ cmd = "logout") \/ file'.gen > file.gen]_loginVars

=============================================================================
