--------------------------- MODULE RelayLink_proofs ---------------------------
(***************************************************************************)
(* Proofs about the agent's link to the relay and its tokens, for any       *)
(* number of relays, rotations and attempts.  The argument follows a token  *)
(* on its way through a handler: what a request comes to, what is settled,  *)
(* and what the reconnect that may follow does to it.  The second part is   *)
(* about the silence of a link that is up, for any time-outs and blocks.    *)
(***************************************************************************)
EXTENDS RelayLink, KeepAlive, TLAPS

Cfgs == [saved : Saved, pending : BOOLEAN]
Apis == [token : 1 .. MaxTokens, revoked : BOOLEAN]
Ways == [cfg : Cfgs, disk : Saved, api : Apis, status : Statuses, lost : BOOLEAN]

\* An enrollment comes with a refresh token.
Whole(s) == s.enrolled => s.refresh # 0

\* What is in memory is on the disk or waiting to be saved.
KeptOrPending(c, d) == c.saved.enrolled /\ ~c.pending => d.refresh = c.saved.refresh

Sound(c, d) == c \in Cfgs /\ d \in Saved /\ Whole(c.saved) /\ Whole(d) /\ KeptOrPending(c, d)

\* The API expects the token in memory.
Agree(c, d, a) ==
    ~a.revoked /\ d.enrolled /\ c.saved.enrolled /\ c.saved.refresh = a.token

\* What a handler may make of the tokens, with a worker as j says: it only
\* touches them without one, and with the API's knowledge unless an answer
\* was lost.
Follows(r, j) ==
    /\ r \in Ways /\ Sound(r.cfg, r.disk)
    /\ r.status = "terminal" => r.api.revoked
    /\ j = NoJob => (blameless /\ ~r.lost => Agree(r.cfg, r.disk, r.api))
    /\ j # NoJob => /\ r.cfg = cfg /\ r.disk = disk /\ r.api = api /\ ~r.lost
                    /\ r.status # "terminal"

\* What is left behind in the same sense.
After(j) ==
    /\ Sound(cfg', disk') /\ api' \in Apis /\ blameless' \in BOOLEAN
    /\ j = NoJob => (blameless' => Agree(cfg', disk', api'))
    /\ j # NoJob => UNCHANGED <<cfg, disk, api, blameless>>

JobTyped ==
    \/ job = NoJob
    \/ \E t \in 1 .. MaxTokens : job = [state |-> "out", token |-> t]
    \/ \E t \in 1 .. MaxTokens, a \in Answers \cup {NoAnswer} :
           job = [state |-> "in", token |-> t, answer |-> a]

\* A request was made with the token in memory, and its answer is the API's.
JobHolds ==
    /\ job # NoJob =>
          /\ phase = "service" /\ cfg.saved.enrolled /\ cfg.saved.refresh = job.token
    /\ job.state = "in" =>
          /\ job.answer.status = "terminal" => api.revoked
          /\ job.answer.status = "ok" => job.answer.refresh # 0

\* The token the next process or the next request will come with.
Coming ==
    IF phase = "stopped" THEN disk.refresh
    ELSE IF job.state = "in" /\ job.answer.status = "ok" THEN job.answer.refresh
    ELSE cfg.saved.refresh

TokensHold ==
    /\ Sound(cfg, disk) /\ api \in Apis /\ blameless \in BOOLEAN
    /\ phase \in {"initial", "service", "stopped"}
    /\ JobTyped /\ JobHolds
    /\ blameless => /\ ~api.revoked /\ disk.enrolled /\ Coming = api.token
                    /\ phase # "stopped" => cfg.saved.enrolled

RelayInv == TokensHold /\ NeverStranded

-----------------------------------------------------------------------------
(* What the API answers, and what the answer does to the configuration.    *)

LEMMA ServedIs ==
    ASSUME NEW a \in Apis, NEW token, NEW x \in Served(a, token)
    PROVE  /\ x.api \in Apis /\ x.answer \in Answers
           /\ \/ /\ a.revoked \/ token # a.token
                 /\ x.answer.status = "terminal" /\ x.api.revoked
              \/ /\ ~a.revoked /\ token = a.token
                 /\ x.answer.status = "ok" /\ ~x.api.revoked
                 /\ x.answer.refresh = x.api.token
  <1>1. CASE a.revoked \/ token # a.token
    <2>1. (CHOOSE r \in Relays : TRUE) \in Relays
      BY RelayAssumption
    <2>2. x = [api |-> [a EXCEPT !.revoked = TRUE],
               answer |-> [status |-> "terminal", refresh |-> 0, relay |-> CHOOSE r \in Relays : TRUE]]
      BY <1>1 DEF Served
    <2>3. x.api = [a EXCEPT !.revoked = TRUE]
      BY <2>2
    <2>4. x.answer = [status |-> "terminal", refresh |-> 0, relay |-> CHOOSE r \in Relays : TRUE]
      BY <2>2
    <2>5. x.api \in Apis /\ x.api.revoked
      BY <2>3 DEF Apis
    <2>6. x.answer \in Answers /\ x.answer.status = "terminal"
      BY <2>1, <2>4, RelayAssumption DEF Answers, Statuses
    <2> QED BY <1>1, <2>5, <2>6
  <1>2. CASE ~a.revoked /\ token = a.token
    <2>1. PICK t \in {a.token, a.token + 1} \cap (1 .. MaxTokens), r \in Relays :
             x = [api |-> [a EXCEPT !.token = t],
                  answer |-> [status |-> "ok", refresh |-> t, relay |-> r]]
      BY <1>2 DEF Served
    <2>2. x.api = [a EXCEPT !.token = t] /\ x.answer = [status |-> "ok", refresh |-> t, relay |-> r]
      BY <2>1
    <2>3. x.api \in Apis /\ x.api.token = t /\ ~x.api.revoked
      BY <1>2, <2>2 DEF Apis
    <2>4. x.answer \in Answers /\ x.answer.status = "ok" /\ x.answer.refresh = t
      BY <2>2, RelayAssumption DEF Answers, Statuses
    <2> QED BY <1>2, <2>3, <2>4
  <1> QED BY <1>1, <1>2

LEMMA ExchangeIs ==
    ASSUME NEW a \in Apis, NEW token, NEW x \in Exchange(a, token)
    PROVE  /\ x.api \in Apis /\ x.answer \in Answers \cup {NoAnswer}
           /\ x.answer.status \in Statuses
           /\ x.answer.status = "terminal" => x.api.revoked
           /\ x.answer.status = "ok" => /\ x.answer \in Answers
                                        /\ x.answer.refresh = x.api.token
                                        /\ ~x.api.revoked
           /\ token = a.token /\ ~a.revoked /\ ~Lost(a, x) =>
                 /\ ~x.api.revoked
                 /\ x.answer.status = "ok" \/ x.api = a
  <1>0. NoAnswer.status = "transient"
    BY DEF NoAnswer
  <1>1. CASE x \in Served(a, token)
    <2>1. x.answer.status \in Statuses
      BY <1>1, ServedIs DEF Answers
    <2> QED BY <1>1, <2>1, ServedIs
  <1>2. CASE x = [api |-> a, answer |-> NoAnswer]
    <2>1. x.api = a /\ x.answer = NoAnswer
      BY <1>2
    <2> QED BY <1>0, <2>1 DEF Statuses
  <1>3. CASE x \in {[api |-> y.api, answer |-> NoAnswer] : y \in Served(a, token)}
    <2>1. PICK y \in Served(a, token) : x = [api |-> y.api, answer |-> NoAnswer]
      BY <1>3
    <2>2. x.api = y.api /\ x.answer = NoAnswer
      BY <2>1
    <2>3. y.api \in Apis
      BY ServedIs
    <2> QED BY <1>0, <2>2, <2>3 DEF Statuses, Lost
  <1> QED BY <1>1, <1>2, <1>3 DEF Exchange

LEMMA ProcessRefreshIs ==
    ASSUME NEW c, NEW d, Sound(c, d), NEW answer,
           answer.status = "ok" => answer \in Answers /\ answer.refresh # 0,
           NEW p \in ProcessRefresh(c, d, answer)
    PROVE  /\ Sound(p.cfg, p.disk)
           /\ answer.status = "ok" =>
                 /\ p.cfg.saved.enrolled /\ p.cfg.saved.refresh = answer.refresh
                 /\ d.enrolled => p.disk.enrolled
           /\ answer.status # "ok" => p.cfg = c /\ p.disk = d
  <1>1. CASE answer.status = "ok"
    <2> DEFINE s == [enrolled |-> TRUE, refresh |-> answer.refresh,
                     access |-> "fresh", relay |-> answer.relay]
    <2>1. s \in Saved /\ s.enrolled /\ s.refresh = answer.refresh /\ s.refresh # 0
      BY <1>1 DEF Saved, Answers, Accesses
    <2>2. p \in SaveConfig([c EXCEPT !.saved = s], d)
      BY <1>1 DEF ProcessRefresh
    <2> HIDE DEF s
    <2> DEFINE e == [c EXCEPT !.saved = s]
    <2>3. e \in Cfgs /\ e.saved = s
      BY <2>1 DEF Sound, Cfgs
    <2>4. \/ p = [cfg |-> [e EXCEPT !.pending = FALSE], disk |-> e.saved]
          \/ p = [cfg |-> [e EXCEPT !.pending = TRUE], disk |-> d]
      BY <2>2 DEF SaveConfig
    <2> HIDE DEF e
    <2>5. CASE p = [cfg |-> [e EXCEPT !.pending = FALSE], disk |-> e.saved]
      <3>1. p.cfg = [e EXCEPT !.pending = FALSE] /\ p.disk = s
        BY <2>3, <2>5
      <3>2. p.cfg \in Cfgs /\ p.cfg.saved = s
        BY <2>3, <3>1 DEF Cfgs
      <3> QED BY <1>1, <2>1, <3>1, <3>2 DEF Sound, Whole, KeptOrPending
    <2>6. CASE p = [cfg |-> [e EXCEPT !.pending = TRUE], disk |-> d]
      <3>1. p.cfg = [e EXCEPT !.pending = TRUE] /\ p.disk = d
        BY <2>6
      <3>2. p.cfg \in Cfgs /\ p.cfg.saved = s /\ p.cfg.pending
        BY <2>3, <3>1 DEF Cfgs
      <3> QED BY <1>1, <2>1, <3>1, <3>2 DEF Sound, Whole, KeptOrPending
    <2> QED BY <2>4, <2>5, <2>6
  <1>2. CASE answer.status # "ok"
    <2>1. p = [cfg |-> c, disk |-> d]
      BY <1>2 DEF ProcessRefresh
    <2>2. p.cfg = c /\ p.disk = d
      BY <2>1
    <2> QED BY <1>2, <2>2
  <1> QED BY <1>1, <1>2

-----------------------------------------------------------------------------
(* The tokens on their way through a handler.                              *)

LEMMA RefreshedIs ==
    ASSUME NEW r \in Ways, Sound(r.cfg, r.disk), r.cfg.saved.enrolled,
           blameless /\ ~r.lost => Agree(r.cfg, r.disk, r.api),
           NEW q \in Refreshed(r)
    PROVE  Follows(q, NoJob)
  <1> DEFINE token == r.cfg.saved.refresh
  <1>1. ~Unsent(r.cfg.saved)
    BY DEF Unsent, Sound, Whole
  <1>a. PICK x \in Exchange(r.api, token) :
           q \in {[cfg |-> p.cfg, disk |-> p.disk, api |-> x.api, status |-> x.answer.status,
                   lost |-> r.lost \/ Lost(r.api, x)] :
                     p \in ProcessRefresh(r.cfg, r.disk, x.answer)}
    BY <1>1 DEF Refreshed
  <1>2. PICK p \in ProcessRefresh(r.cfg, r.disk, x.answer) :
           q = [cfg |-> p.cfg, disk |-> p.disk, api |-> x.api, status |-> x.answer.status,
                lost |-> r.lost \/ Lost(r.api, x)]
    BY <1>a
  <1>3. r.api \in Apis /\ r.lost \in BOOLEAN
    BY DEF Ways
  <1>4. /\ x.api \in Apis /\ x.answer \in Answers \cup {NoAnswer}
        /\ x.answer.status \in Statuses
        /\ x.answer.status = "terminal" => x.api.revoked
        /\ x.answer.status = "ok" => /\ x.answer \in Answers
                                     /\ x.answer.refresh = x.api.token
                                     /\ ~x.api.revoked
        /\ token = r.api.token /\ ~r.api.revoked /\ ~Lost(r.api, x) =>
              /\ ~x.api.revoked
              /\ x.answer.status = "ok" \/ x.api = r.api
    BY <1>3, ExchangeIs
  <1>5. x.answer.status = "ok" => x.answer.refresh # 0
    BY <1>4 DEF Apis
  <1>6. /\ Sound(p.cfg, p.disk)
        /\ x.answer.status = "ok" =>
              /\ p.cfg.saved.enrolled /\ p.cfg.saved.refresh = x.answer.refresh
              /\ r.disk.enrolled => p.disk.enrolled
        /\ x.answer.status # "ok" => p.cfg = r.cfg /\ p.disk = r.disk
    BY <1>4, <1>5, ProcessRefreshIs
  <1>7. /\ q.cfg = p.cfg /\ q.disk = p.disk /\ q.api = x.api /\ q.status = x.answer.status
        /\ q.lost <=> r.lost \/ Lost(r.api, x)
    BY <1>2
  <1>8. q \in Ways
    <2>1. (r.lost \/ Lost(r.api, x)) \in BOOLEAN
      OBVIOUS
    <2>2. p.cfg \in Cfgs /\ p.disk \in Saved
      BY <1>6 DEF Sound
    <2> QED BY <1>2, <1>4, <2>1, <2>2 DEF Ways
  <1>9. blameless /\ ~q.lost => Agree(q.cfg, q.disk, q.api)
    BY <1>4, <1>6, <1>7 DEF Agree
  <1> HIDE DEF token
  <1> QED BY <1>4, <1>6, <1>7, <1>8, <1>9 DEF Follows

LEMMA HereIs ==
    ASSUME RelayInv, phase # "stopped", NEW st \in {"ok", "transient"}
    PROVE  /\ Follows(Here, job)
           /\ Follows([Here EXCEPT !.status = st], job)
           /\ Here.cfg = cfg /\ Here.disk = disk /\ Here.api = api /\ ~Here.lost
           /\ Here.status = "ok"
  <1>1. /\ Here \in Ways /\ Here.cfg = cfg /\ Here.disk = disk /\ Here.api = api
        /\ ~Here.lost /\ Here.status = "ok"
    BY DEF Here, Ways, RelayInv, TokensHold, Sound, Statuses
  <1>2. job = NoJob /\ blameless => Agree(cfg, disk, api)
    BY DEF RelayInv, TokensHold, Coming, NoJob, Agree
  <1>3. Follows(Here, job)
    BY <1>1, <1>2 DEF Follows, RelayInv, TokensHold
  <1> DEFINE r == [Here EXCEPT !.status = st]
  <1>4. /\ r \in Ways /\ r.cfg = cfg /\ r.disk = disk /\ r.api = api
        /\ r.lost = Here.lost /\ r.status = st
    BY <1>1 DEF Ways, Statuses
  <1> HIDE DEF r
  <1>5. Follows(r, job)
    BY <1>1, <1>2, <1>4 DEF Follows, RelayInv, TokensHold
  <1> QED BY <1>1, <1>3, <1>5 DEF r

LEMMA InlineIs ==
    ASSUME RelayInv, phase # "stopped", Enrolled, NEW r \in RefreshInline(Here)
    PROVE  Follows(r, job)
  <1>1. CASE job = NoJob
    <2>1. r \in Refreshed(Here)
      BY <1>1 DEF RefreshInline
    <2>2. /\ Here \in Ways /\ Sound(Here.cfg, Here.disk) /\ Here.cfg.saved.enrolled
          /\ blameless /\ ~Here.lost => Agree(Here.cfg, Here.disk, Here.api)
      BY <1>1, HereIs DEF Follows, Enrolled
    <2> QED BY <1>1, <2>1, <2>2, RefreshedIs
  <1>2. CASE job # NoJob
    <2>1. r = [Here EXCEPT !.status = "transient"]
      BY <1>2 DEF RefreshInline
    <2> QED BY <2>1, HereIs
  <1> QED BY <1>1, <1>2

LEMMA SettledIs ==
    ASSUME RelayInv, NEW r, NEW j, Follows(r, j), Settled(r)
    PROVE  After(j)
  <1>1. cfg' = r.cfg /\ disk' = r.disk /\ api' = r.api /\ blameless' = (blameless /\ ~r.lost)
    BY DEF Settled
  <1>2. blameless' \in BOOLEAN
    BY <1>1
  <1>3. Sound(cfg', disk') /\ api' \in Apis
    BY <1>1 DEF Follows, Ways
  <1>4. j = NoJob => (blameless' => Agree(cfg', disk', api'))
    BY <1>1 DEF Follows
  <1>5. j # NoJob => UNCHANGED <<cfg, disk, api, blameless>>
    <2>1. ASSUME j # NoJob PROVE blameless' = blameless
      <3>1. ~r.lost /\ blameless \in BOOLEAN
        BY <2>1 DEF Follows, RelayInv, TokensHold
      <3> QED BY <1>1, <3>1
    <2> QED BY <1>1, <2>1 DEF Follows
  <1> QED BY <1>2, <1>3, <1>4, <1>5 DEF After

LEMMA EmptiedIs ==
    ASSUME NEW x \in Saved
    PROVE  LET s == [x EXCEPT !.enrolled = FALSE, !.refresh = 0, !.access = "none"]
           IN  s \in Saved /\ ~s.enrolled
  <1> DEFINE s1 == [x EXCEPT !.enrolled = FALSE]
             s2 == [s1 EXCEPT !.refresh = 0]
             s3 == [s2 EXCEPT !.access = "none"]
  <1>1. s1 \in Saved /\ s1.enrolled = FALSE
    BY DEF Saved
  <1> HIDE DEF s1
  <1>2. s2 \in Saved /\ s2.enrolled = FALSE
    BY <1>1, RelayAssumption DEF Saved
  <1> HIDE DEF s2
  <1>3. s3 \in Saved /\ s3.enrolled = FALSE
    BY <1>2 DEF Saved, Accesses
  <1> USE DEF s1, s2
  <1> QED BY <1>3

LEMMA SuppressIs ==
    ASSUME RelayInv, NEW r, NEW j, Follows(r, j), r.status = "terminal", SuppressReconnect(r)
    PROVE  After(j) /\ j = NoJob /\ suppressed' /\ api'.revoked
  <1> DEFINE s == [r.cfg.saved EXCEPT !.enrolled = FALSE, !.refresh = 0, !.access = "none"]
  <1>0. j = NoJob /\ r \in Ways /\ r.cfg \in Cfgs /\ r.disk \in Saved /\ r.api.revoked
    BY DEF Follows, Sound
  <1>1. s \in Saved /\ ~s.enrolled
    <2>1. r.cfg.saved \in Saved
      BY <1>0 DEF Cfgs
    <2> QED BY <2>1, EmptiedIs
  <1>2. PICK c \in Cleared(r) : Settled(c)
    BY DEF SuppressReconnect
  <1>3. PICK d \in {s, r.disk} : c = [r EXCEPT !.cfg.saved = s, !.disk = d]
    BY <1>2 DEF Cleared
  <1> HIDE DEF s
  <1>4. /\ c.cfg = [r.cfg EXCEPT !.saved = s] /\ c.disk = d /\ c.api = r.api
        /\ c.lost = r.lost
    BY <1>0, <1>3 DEF Ways
  <1>5. c.cfg \in Cfgs /\ c.cfg.saved = s
    BY <1>0, <1>1, <1>4 DEF Cfgs
  <1>6. Sound(c.cfg, c.disk)
    BY <1>0, <1>1, <1>3, <1>4, <1>5 DEF Sound, Whole, KeptOrPending, Follows
  <1>7. cfg' = c.cfg /\ disk' = c.disk /\ api' = r.api /\ blameless' = (blameless /\ ~r.lost)
    BY <1>2, <1>4 DEF Settled
  <1>8. ~blameless'
    BY <1>0, <1>7 DEF Follows, Agree
  <1> QED BY <1>0, <1>6, <1>7, <1>8 DEF After, SuppressReconnect, Ways

LEMMA ScheduleIs ==
    ASSUME RelayInv, NEW r, NEW j, Follows(r, j), ScheduleReconnect(r, j)
    PROVE  After(j) /\ (suppressed \/ next' = "waiting")
  <1>1. CASE suppressed \/ ~Reprobes(r, j)
    <2>1. Settled(r) /\ (suppressed \/ next' = "waiting")
      BY <1>1 DEF ScheduleReconnect
    <2> QED BY <2>1, SettledIs
  <1>2. CASE ~suppressed /\ Reprobes(r, j)
    <2>1. PICK q \in Refreshed(r) : Settled(q)
      BY <1>2 DEF ScheduleReconnect
    <2>2. j = NoJob /\ r.cfg.saved.enrolled /\ next' = "waiting"
      BY <1>2 DEF Reprobes, ScheduleReconnect
    <2>3. Follows(q, j)
      BY <2>1, <2>2, RefreshedIs DEF Follows
    <2> QED BY <2>1, <2>2, <2>3, SettledIs
  <1> QED BY <1>1, <1>2

LEMMA DisconnectedIs ==
    ASSUME RelayInv, NEW r, NEW j, Follows(r, j), Disconnected(r, j)
    PROVE  After(j) /\ link' = "none" /\ (suppressed \/ next' # "none")
  <1>1. CASE next = "none"
    BY <1>1, ScheduleIs DEF Disconnected
  <1>2. CASE next # "none"
    BY <1>2, SettledIs DEF Disconnected
  <1> QED BY <1>1, <1>2

\* A handler that settled the tokens and let the worker be.
LEMMA AfterKeeps ==
    ASSUME RelayInv, After(job), job' = job, phase # "stopped",
           \/ phase' = phase
           \/ job = NoJob /\ phase' = "service"
    PROVE  TokensHold'
  <1>1. Sound(cfg', disk') /\ api' \in Apis /\ blameless' \in BOOLEAN
    BY DEF After
  <1>2. JobTyped'
    BY DEF JobTyped, RelayInv, TokensHold
  <1>3. phase' \in {"initial", "service", "stopped"} /\ phase' # "stopped"
    BY DEF RelayInv, TokensHold
  <1>4. CASE job = NoJob
    <2>1. job' = NoJob /\ job'.state = "none"
      BY <1>4 DEF NoJob
    <2>2. JobHolds'
      BY <2>1 DEF JobHolds
    <2>3. Coming' = cfg'.saved.refresh
      BY <1>3, <2>1 DEF Coming
    <2>4. blameless' => Agree(cfg', disk', api')
      BY <1>4 DEF After
    <2> QED BY <1>1, <1>2, <1>3, <2>2, <2>3, <2>4 DEF TokensHold, Agree
  <1>5. CASE job # NoJob
    <2>1. UNCHANGED <<cfg, disk, api, blameless, job, phase>>
      BY <1>5 DEF After
    <2> QED BY <2>1 DEF RelayInv, TokensHold, JobTyped, JobHolds, Coming
  <1> QED BY <1>4, <1>5

\* A handler that settled the answer of the worker.
LEMMA AfterAnswer ==
    ASSUME RelayInv, After(NoJob), job' = NoJob, phase' = "service"
    PROVE  TokensHold'
  <1>1. Sound(cfg', disk') /\ api' \in Apis /\ blameless' \in BOOLEAN
    BY DEF After
  <1>2. job'.state = "none" /\ JobTyped' /\ JobHolds'
    BY DEF NoJob, JobTyped, JobHolds
  <1>3. Coming' = cfg'.saved.refresh
    BY <1>2 DEF Coming
  <1>4. blameless' => Agree(cfg', disk', api')
    BY DEF After
  <1> QED BY <1>1, <1>2, <1>3, <1>4 DEF TokensHold, Agree

LEMMA FinishedIs ==
    ASSUME RelayInv, phase # "stopped", job.state = "in", NEW r \in Finished(job)
    PROVE  /\ Follows(r, NoJob) /\ r.api = api /\ ~r.lost
           /\ r.status = "terminal" => api.revoked
  <1>0. job # NoJob
    BY DEF NoJob
  <1>1. /\ cfg.saved.enrolled /\ cfg.saved.refresh = job.token
        /\ job.answer.status = "terminal" => api.revoked
        /\ job.answer.status = "ok" => job.answer.refresh # 0
    BY <1>0 DEF RelayInv, TokensHold, JobHolds
  <1>2. job.answer \in Answers \cup {NoAnswer}
    BY <1>0 DEF RelayInv, TokensHold, JobTyped
  <1>3. /\ job.answer.status \in Statuses
        /\ job.answer.status = "ok" => job.answer \in Answers
    BY <1>2 DEF Answers, NoAnswer, Statuses
  <1>4. PICK p \in ProcessRefresh(cfg, disk, job.answer) :
           r = [Here EXCEPT !.cfg = p.cfg, !.disk = p.disk, !.status = job.answer.status]
    BY <1>1 DEF Finished, Enrolled
  <1>5. Sound(cfg, disk)
    BY DEF RelayInv, TokensHold
  <1>6. /\ Sound(p.cfg, p.disk)
        /\ job.answer.status = "ok" =>
              /\ p.cfg.saved.enrolled /\ p.cfg.saved.refresh = job.answer.refresh
              /\ disk.enrolled => p.disk.enrolled
        /\ job.answer.status # "ok" => p.cfg = cfg /\ p.disk = disk
    BY <1>1, <1>3, <1>5, ProcessRefreshIs
  <1>7. Here \in Ways /\ Here.api = api /\ ~Here.lost
    BY HereIs DEF Follows
  <1>8. /\ r \in Ways /\ r.cfg = p.cfg /\ r.disk = p.disk /\ r.api = api
        /\ r.status = job.answer.status /\ r.lost = Here.lost
    BY <1>3, <1>4, <1>6, <1>7 DEF Ways, Sound
  <1>9. blameless => Agree(r.cfg, r.disk, r.api)
    BY <1>1, <1>6, <1>8 DEF RelayInv, TokensHold, Coming, Agree
  <1> QED BY <1>1, <1>6, <1>7, <1>8, <1>9 DEF Follows

-----------------------------------------------------------------------------
(* The steps.                                                              *)

Kept == RelayInv' /\ (suppressed' /\ ~suppressed => api'.revoked)

LEMMA InitHolds == RelayInit => RelayInv
  <1> SUFFICES ASSUME RelayInit PROVE RelayInv
    OBVIOUS
  <1>1. PICK r \in Relays :
           disk = [enrolled |-> TRUE, refresh |-> 1, access |-> "fresh", relay |-> r]
    BY DEF RelayInit
  <1>2. disk \in Saved /\ disk.enrolled /\ disk.refresh = 1
    BY <1>1, RelayAssumption DEF Saved, Accesses
  <1>3. cfg \in Cfgs /\ cfg.saved = disk
    BY <1>2 DEF RelayInit, Cfgs
  <1>4. api \in Apis /\ api.token = 1 /\ ~api.revoked
    BY RelayAssumption DEF RelayInit, Apis
  <1>5. job = NoJob /\ job.state = "none" /\ phase = "initial" /\ blameless
    BY DEF RelayInit, NoJob
  <1>6. Sound(cfg, disk)
    BY <1>2, <1>3 DEF Sound, Whole, KeptOrPending
  <1>7. JobTyped /\ JobHolds /\ Coming = 1
    BY <1>2, <1>3, <1>5 DEF JobTyped, JobHolds, Coming
  <1>8. NeverStranded
    BY <1>5 DEF NeverStranded
  <1>9. blameless \in BOOLEAN
    BY DEF RelayInit
  <1> QED BY <1>2, <1>3, <1>4, <1>5, <1>6, <1>7, <1>8, <1>9 DEF RelayInv, TokensHold

LEMMA PreConnectedIs ==
    ASSUME RelayInv, phase # "stopped", Enrolled, NEW r \in PreConnected
    PROVE  Follows(r, job)
  BY InlineIs, HereIs DEF PreConnected

LEMMA RefusedKeeps == ASSUME RelayInv, ConnectRefused PROVE Kept
  <1>0. job = NoJob /\ job' = job /\ phase # "stopped" /\ ~suppressed
    BY DEF ConnectRefused, MayConnect
  <1>1. CASE ScheduleReconnect(Here, job) /\ UNCHANGED <<claims, link, phase>>
    <2>1. After(job) /\ next' = "waiting"
      BY <1>0, <1>1, HereIs, ScheduleIs
    <2> QED BY <1>0, <1>1, <2>1, AfterKeeps DEF Kept, RelayInv, NeverStranded, claims
  <1>2. ASSUME Enrolled, NEW r \in PreConnected,
               r.status = "terminal" /\ SuppressReconnect(r) /\ phase' = "service"
        PROVE  Kept
    <2>1. Follows(r, job)
      BY <1>0, <1>2, PreConnectedIs
    <2>2. After(job) /\ suppressed' /\ api'.revoked
      BY <1>2, <2>1, SuppressIs
    <2> QED BY <1>0, <1>2, <2>2, AfterKeeps DEF Kept, RelayInv, NeverStranded
  <1>3. ASSUME Enrolled, NEW r \in PreConnected,
               ScheduleReconnect(r, job) /\ UNCHANGED <<suppressed, phase>>
        PROVE  Kept
    <2>1. Follows(r, job)
      BY <1>0, <1>3, PreConnectedIs
    <2>2. After(job) /\ next' = "waiting"
      BY <1>0, <1>3, <2>1, ScheduleIs
    <2> QED BY <1>0, <1>3, <2>2, AfterKeeps DEF Kept, RelayInv, NeverStranded
  <1> QED BY <1>1, <1>2, <1>3 DEF ConnectRefused

LEMMA FailsKeeps == ASSUME RelayInv, ConnectFails PROVE Kept
  <1>0. job = NoJob /\ job' = job /\ phase' = phase /\ phase # "stopped" /\ ~suppressed
    BY DEF ConnectFails, MayConnect
  <1>1. PICK r \in PreConnected : ScheduleReconnect(r, job)
    BY DEF ConnectFails
  <1>2. Follows(r, job)
    BY <1>0, <1>1, PreConnectedIs DEF ConnectFails
  <1>3. After(job) /\ next' = "waiting" /\ suppressed' = suppressed
    BY <1>0, <1>1, <1>2, ScheduleIs DEF ConnectFails
  <1> QED BY <1>0, <1>3, AfterKeeps DEF Kept, RelayInv, NeverStranded

LEMMA ConnectKeeps == ASSUME RelayInv, Connect PROVE Kept
  <1>0. /\ job = NoJob /\ job' = job /\ phase' = "service" /\ phase # "stopped"
        /\ suppressed' = suppressed /\ link' = "connected"
    BY DEF Connect, MayConnect, InitConnection
  <1>1. PICK r \in PreConnected : Settled(r)
    BY DEF Connect
  <1>2. Follows(r, job)
    BY <1>0, <1>1, PreConnectedIs DEF Connect
  <1>3. After(job)
    BY <1>1, <1>2, SettledIs
  <1> QED BY <1>0, <1>3, AfterKeeps DEF Kept, RelayInv, NeverStranded

LEMMA RequestKeeps == ASSUME RelayInv, HandshakeRequest PROVE Kept
  <1> DEFINE Ends == IF NeedsRefresh(cfg.saved) THEN RefreshInline(Here) ELSE {Here}
  <1>0. phase = "service" /\ phase' = phase /\ job' = job
    BY DEF HandshakeRequest
  <1>1. ASSUME NEW r \in Ends PROVE Follows(r, job)
    <2>1. NeedsRefresh(cfg.saved) => Enrolled
      BY DEF NeedsRefresh, Enrolled
    <2> QED BY <1>0, <1>1, <2>1, InlineIs, HereIs
  <1>2. PICK r \in Ends :
           \/ Settled(r) /\ link' = "upgrading" /\ UNCHANGED suppressed
           \/ r.status = "terminal" /\ SuppressReconnect(r)
           \/ Disconnected(r, job) /\ UNCHANGED suppressed
    BY DEF HandshakeRequest
  <1> HIDE DEF Ends
  <1>3. CASE Settled(r) /\ link' = "upgrading" /\ UNCHANGED suppressed
    <2>1. After(job)
      BY <1>1, <1>3, SettledIs
    <2> QED BY <1>0, <1>3, <2>1, AfterKeeps DEF Kept, RelayInv, NeverStranded
  <1>4. CASE r.status = "terminal" /\ SuppressReconnect(r)
    <2>1. After(job) /\ suppressed' /\ api'.revoked
      BY <1>1, <1>4, SuppressIs
    <2> QED BY <1>0, <2>1, AfterKeeps DEF Kept, RelayInv, NeverStranded
  <1>5. CASE Disconnected(r, job) /\ UNCHANGED suppressed
    <2>1. After(job) /\ (suppressed \/ next' # "none")
      BY <1>1, <1>5, DisconnectedIs
    <2> QED BY <1>0, <1>5, <2>1, AfterKeeps DEF Kept, RelayInv, NeverStranded
  <1> QED BY <1>2, <1>3, <1>4, <1>5

LEMMA LostKeeps == ASSUME RelayInv, RelayLost PROVE Kept
  <1>0. phase = "service" /\ phase' = phase /\ job' = job /\ suppressed' = suppressed
    BY DEF RelayLost, claims
  <1>1. After(job) /\ (suppressed \/ next' # "none")
    BY <1>0, HereIs, DisconnectedIs DEF RelayLost
  <1> QED BY <1>0, <1>1, AfterKeeps DEF Kept, RelayInv, NeverStranded

\* The loop takes the end of a refresh, with no worker left.
LEMMA EndKeeps ==
    ASSUME RelayInv, phase = "service", phase' = phase, job' = NoJob,
           NEW r, Follows(r, NoJob), EndTokenRefresh(r)
    PROVE  Kept
  <1>1. CASE Settled(r) /\ UNCHANGED <<link, next, suppressed>>
    <2>1. After(NoJob)
      BY <1>1, SettledIs
    <2> QED BY <1>1, <2>1, AfterAnswer DEF Kept, RelayInv, NeverStranded
  <1>2. CASE r.status = "terminal" /\ SuppressReconnect(r)
    <2>1. After(NoJob) /\ suppressed' /\ api'.revoked
      BY <1>2, SuppressIs
    <2> QED BY <2>1, AfterAnswer DEF Kept, RelayInv, NeverStranded
  <1>3. CASE Disconnected(r, NoJob) /\ UNCHANGED suppressed
    <2>1. After(NoJob) /\ (suppressed \/ next' # "none")
      BY <1>3, DisconnectedIs
    <2> QED BY <1>3, <2>1, AfterAnswer DEF Kept, RelayInv, NeverStranded
  <1> QED BY <1>1, <1>2, <1>3 DEF EndTokenRefresh

LEMMA CheckKeeps == ASSUME RelayInv, CheckTokenRefresh PROVE Kept
  <1>0. phase = "service" /\ phase' = phase /\ job = NoJob /\ link = "role" /\ cfg.saved.enrolled
    BY DEF CheckTokenRefresh, Enrolled
  <1>1. ~Unsent(cfg.saved)
    BY <1>0 DEF RelayInv, TokensHold, Sound, Whole, Unsent
  <1>2. CASE job' = [state |-> "out", token |-> cfg.saved.refresh]
             /\ UNCHANGED <<link, next, suppressed, tokens, blameless>>
    <2>1. cfg.saved.refresh \in 1 .. MaxTokens
      BY <1>0, RelayAssumption DEF RelayInv, TokensHold, Sound, Whole, Cfgs, Saved
    <2>2. job'.state = "out" /\ job'.token = cfg.saved.refresh /\ JobTyped'
      BY <1>2, <2>1 DEF JobTyped
    <2>3. UNCHANGED <<cfg, disk, api, blameless, phase, link, suppressed>>
      BY <1>0, <1>2 DEF tokens
    <2>4. JobHolds'
      BY <1>0, <2>2, <2>3 DEF JobHolds
    <2>5. Coming' = cfg.saved.refresh /\ Coming = cfg.saved.refresh
      BY <1>0, <2>2, <2>3 DEF Coming, NoJob
    <2>6. TokensHold'
      BY <1>0, <2>2, <2>3, <2>4, <2>5 DEF RelayInv, TokensHold
    <2> QED BY <1>0, <2>3, <2>6 DEF Kept, RelayInv, NeverStranded
  <1>3. CASE job' = job /\ EndTokenRefresh([Here EXCEPT !.status = "transient"])
    <2>1. Follows([Here EXCEPT !.status = "transient"], NoJob)
      BY <1>0, HereIs
    <2> QED BY <1>0, <1>3, <2>1, EndKeeps
  <1>4. CASE UNCHANGED <<loop, suppressed, tokens, job, blameless>>
    BY <1>0, <1>4 DEF Kept, RelayInv, TokensHold, NeverStranded, JobTyped, JobHolds, Coming, loop, tokens
  <1> QED BY <1>1, <1>2, <1>3, <1>4 DEF CheckTokenRefresh

LEMMA WorkerKeeps == ASSUME RelayInv, RefreshWorker PROVE Kept
  <1>1. PICK x \in Exchange(api, job.token) :
           /\ api' = x.api
           /\ job' = [state |-> "in", token |-> job.token, answer |-> x.answer]
           /\ blameless' = (blameless /\ ~Lost(api, x))
    BY DEF RefreshWorker
  <1>2. job.state = "out" /\ UNCHANGED <<phase, link, next, suppressed, cfg, disk>>
    BY DEF RefreshWorker, loop, claims
  <1>3. job # NoJob /\ job.token \in 1 .. MaxTokens
    BY <1>2 DEF RelayInv, TokensHold, JobTyped, NoJob
  <1>4. phase = "service" /\ cfg.saved.enrolled /\ cfg.saved.refresh = job.token
    BY <1>3 DEF RelayInv, TokensHold, JobHolds
  <1>5. api \in Apis /\ blameless \in BOOLEAN
    BY DEF RelayInv, TokensHold
  <1>6. /\ x.api \in Apis /\ x.answer \in Answers \cup {NoAnswer}
        /\ x.answer.status \in Statuses
        /\ x.answer.status = "terminal" => x.api.revoked
        /\ x.answer.status = "ok" => /\ x.answer \in Answers
                                     /\ x.answer.refresh = x.api.token
                                     /\ ~x.api.revoked
        /\ job.token = api.token /\ ~api.revoked /\ ~Lost(api, x) =>
              /\ ~x.api.revoked
              /\ x.answer.status = "ok" \/ x.api = api
    BY <1>5, ExchangeIs
  <1>7. job'.state = "in" /\ job'.token = job.token /\ job'.answer = x.answer
    BY <1>1
  <1>8. JobTyped'
    BY <1>1, <1>3, <1>6 DEF JobTyped
  <1>9. x.answer.status = "ok" => x.answer.refresh # 0
    BY <1>6 DEF Apis
  <1>10. JobHolds'
    BY <1>1, <1>2, <1>4, <1>6, <1>7, <1>9 DEF JobHolds
  <1>11. Coming = cfg.saved.refresh
    BY <1>2, <1>4 DEF Coming
  <1>12. Coming' = IF x.answer.status = "ok" THEN x.answer.refresh ELSE cfg.saved.refresh
    BY <1>2, <1>4, <1>7 DEF Coming
  <1>13. blameless' => ~api'.revoked /\ Coming' = api'.token
    BY <1>1, <1>4, <1>6, <1>11, <1>12 DEF RelayInv, TokensHold
  <1>14. blameless' => disk'.enrolled /\ cfg'.saved.enrolled
    BY <1>1, <1>2, <1>4 DEF RelayInv, TokensHold
  <1>15. blameless' \in BOOLEAN
    BY <1>1
  <1>16. TokensHold'
    BY <1>1, <1>2, <1>6, <1>8, <1>10, <1>13, <1>14, <1>15 DEF RelayInv, TokensHold
  <1> QED BY <1>2, <1>16 DEF Kept, RelayInv, NeverStranded

LEMMA CollectKeeps == ASSUME RelayInv, CollectTokenRefresh PROVE Kept
  <1>1. phase = "service" /\ phase' = phase /\ job.state = "in" /\ job' = NoJob
    BY DEF CollectTokenRefresh
  <1>2. PICK r \in Finished(job) : EndTokenRefresh(r)
    BY DEF CollectTokenRefresh
  <1>3. Follows(r, NoJob)
    BY <1>1, FinishedIs
  <1> QED BY <1>1, <1>2, <1>3, EndKeeps

LEMMA SaveKeeps == ASSUME RelayInv, RetryPendingSave PROVE Kept
  <1>1. /\ cfg' = [cfg EXCEPT !.pending = FALSE] /\ disk' = cfg.saved /\ phase = "service"
        /\ UNCHANGED <<phase, link, next, suppressed, api, job, blameless>>
    BY DEF RetryPendingSave, loop, claims
  <1>2. cfg \in Cfgs
    BY DEF RelayInv, TokensHold, Sound
  <1>3. cfg' \in Cfgs /\ cfg'.saved = cfg.saved /\ cfg.saved \in Saved
    BY <1>1, <1>2 DEF Cfgs
  <1>4. Sound(cfg', disk')
    BY <1>1, <1>3 DEF RelayInv, TokensHold, Sound, Whole, KeptOrPending
  <1>5. JobTyped' /\ JobHolds' /\ Coming' = Coming
    BY <1>1, <1>3 DEF RelayInv, TokensHold, JobTyped, JobHolds, Coming
  <1>6. TokensHold'
    BY <1>1, <1>3, <1>4, <1>5 DEF RelayInv, TokensHold
  <1> QED BY <1>1, <1>6 DEF Kept, RelayInv, NeverStranded

LEMMA AgesKeeps == ASSUME RelayInv, AccessAges PROVE Kept
  <1>1. /\ cfg' = [cfg EXCEPT !.saved.access = Older(@)]
        /\ disk' = [disk EXCEPT !.access = Older(@)]
        /\ UNCHANGED <<phase, link, next, suppressed, api, job, blameless>>
    BY DEF AccessAges, loop, claims
  <1>2. cfg \in Cfgs /\ disk \in Saved /\ cfg.saved \in Saved
    BY DEF RelayInv, TokensHold, Sound, Cfgs
  <1>3. \A x \in Accesses : Older(x) \in Accesses
    BY DEF Older, Accesses
  <1> DEFINE s == [cfg.saved EXCEPT !.access = Older(@)]
  <1>4. /\ s \in Saved /\ s.enrolled = cfg.saved.enrolled /\ s.refresh = cfg.saved.refresh
        /\ disk' \in Saved /\ disk'.enrolled = disk.enrolled /\ disk'.refresh = disk.refresh
    BY <1>1, <1>2, <1>3 DEF Saved
  <1>5. cfg' = [cfg EXCEPT !.saved = s]
    BY <1>1, <1>2 DEF Cfgs
  <1> HIDE DEF s
  <1>6. cfg' \in Cfgs /\ cfg'.saved = s /\ cfg'.pending = cfg.pending
    BY <1>2, <1>4, <1>5 DEF Cfgs
  <1>7. Sound(cfg', disk')
    BY <1>4, <1>6 DEF RelayInv, TokensHold, Sound, Whole, KeptOrPending
  <1>8. JobTyped' /\ JobHolds' /\ Coming' = Coming
    BY <1>1, <1>4, <1>6 DEF RelayInv, TokensHold, JobTyped, JobHolds, Coming
  <1>9. TokensHold'
    BY <1>1, <1>4, <1>6, <1>7, <1>8 DEF RelayInv, TokensHold
  <1> QED BY <1>1, <1>9 DEF Kept, RelayInv, NeverStranded

LEMMA StopKeeps == ASSUME RelayInv, Stop PROVE Kept
  <1>1. phase # "stopped" /\ phase' = "stopped" /\ job' = NoJob /\ api' = api
    BY DEF Stop, Gone
  <1>2. PICK r \in (IF job.state = "in" THEN Finished(job) ELSE {Here}) :
          /\ IF r.status = "terminal"
             THEN suppressed' = TRUE /\ \E c \in Cleared(r) : cfg' = c.cfg /\ disk' = c.disk
             ELSE cfg' = r.cfg /\ disk' = r.disk /\ UNCHANGED suppressed
          /\ blameless' = (blameless /\ job.state # "out" /\ Left(r.cfg, r.disk))
    BY DEF Stop
  <1>3. /\ r.cfg \in Cfgs /\ r.disk \in Saved /\ Sound(r.cfg, r.disk) /\ r \in Ways
        /\ r.status = "terminal" => api.revoked
        /\ blameless /\ job.state # "out" => Agree(r.cfg, r.disk, api)
    <2>1. CASE job.state = "in"
      <3>1. Follows(r, NoJob) /\ r.api = api /\ ~r.lost /\ (r.status = "terminal" => api.revoked)
        BY <1>1, <1>2, <2>1, FinishedIs
      <3> QED BY <3>1 DEF Follows, Sound
    <2>2. CASE job.state # "in"
      <3>1. r = Here
        BY <1>2, <2>2
      <3>2. /\ Follows(r, job) /\ r.cfg = cfg /\ r.disk = disk /\ r.api = api /\ ~r.lost
            /\ r.status = "ok"
        BY <1>1, <3>1, HereIs
      <3>3. job.state # "out" => job = NoJob
        BY <2>2 DEF RelayInv, TokensHold, JobTyped
      <3> QED BY <3>2, <3>3 DEF Follows, Sound
    <2> QED BY <2>1, <2>2
  <1>4. job'.state = "none" /\ JobTyped' /\ JobHolds'
    BY <1>1 DEF NoJob, JobTyped, JobHolds
  <1>5. Coming' = disk'.refresh
    BY <1>1 DEF Coming
  <1>6. blameless' \in BOOLEAN
    BY <1>2
  <1>7. CASE r.status = "terminal"
    <2> DEFINE s == [r.cfg.saved EXCEPT !.enrolled = FALSE, !.refresh = 0, !.access = "none"]
    <2>1. PICK c \in Cleared(r) : cfg' = c.cfg /\ disk' = c.disk
      BY <1>2, <1>7
    <2>2. PICK d \in {s, r.disk} : c = [r EXCEPT !.cfg.saved = s, !.disk = d]
      BY <2>1 DEF Cleared
    <2>3. s \in Saved /\ ~s.enrolled
      <3>1. r.cfg.saved \in Saved
        BY <1>3 DEF Cfgs
      <3> QED BY <3>1, EmptiedIs
    <2> HIDE DEF s
    <2>4. c.cfg = [r.cfg EXCEPT !.saved = s] /\ c.disk = d
      BY <1>3, <2>2 DEF Ways
    <2>5. c.cfg \in Cfgs /\ c.cfg.saved = s
      BY <1>3, <2>3, <2>4 DEF Cfgs
    <2>6. Sound(cfg', disk')
      BY <1>3, <2>1, <2>2, <2>3, <2>4, <2>5 DEF Sound, Whole, KeptOrPending
    <2>7. ~blameless' /\ api'.revoked
      BY <1>1, <1>2, <1>3, <1>7 DEF RelayInv, TokensHold
    <2> QED BY <1>1, <1>4, <1>6, <2>6, <2>7 DEF Kept, RelayInv, TokensHold, NeverStranded
  <1>8. CASE r.status # "terminal"
    <2>1. cfg' = r.cfg /\ disk' = r.disk /\ suppressed' = suppressed
      BY <1>2, <1>8
    <2>2. blameless' => Agree(r.cfg, r.disk, api) /\ Left(r.cfg, r.disk)
      BY <1>2, <1>3
    <2>3. blameless' => ~api'.revoked /\ disk'.enrolled /\ Coming' = api'.token
      BY <1>1, <1>5, <2>1, <2>2 DEF Agree, Left
    <2> QED BY <1>1, <1>3, <1>4, <1>6, <2>1, <2>3 DEF Kept, RelayInv, TokensHold, NeverStranded
  <1> QED BY <1>7, <1>8

LEMMA CrashKeeps == ASSUME RelayInv, Crash PROVE Kept
  <1>1. /\ phase # "stopped" /\ phase' = "stopped" /\ job' = NoJob
        /\ UNCHANGED <<cfg, disk, api, suppressed>>
        /\ blameless' = (blameless /\ job = NoJob /\ Left(cfg, disk))
    BY DEF Crash, Gone, tokens, claims
  <1>2. job'.state = "none" /\ JobTyped' /\ JobHolds' /\ Coming' = disk.refresh
    BY <1>1 DEF NoJob, JobTyped, JobHolds, Coming
  <1>3. blameless' => ~api.revoked /\ disk.enrolled /\ Coming' = api.token
    BY <1>1, <1>2 DEF RelayInv, TokensHold, Coming, NoJob, Left
  <1>4. blameless' \in BOOLEAN
    BY <1>1
  <1> QED BY <1>1, <1>2, <1>3, <1>4 DEF Kept, RelayInv, TokensHold, NeverStranded

LEMMA RestartKeeps == ASSUME RelayInv, Restart PROVE Kept
  <1>1. /\ phase = "stopped" /\ phase' = "initial" /\ suppressed' = FALSE
        /\ cfg' = [saved |-> disk, pending |-> FALSE] /\ disk.enrolled
        /\ UNCHANGED <<disk, api, job, blameless>>
    BY DEF Restart, Startable
  <1>2. job = NoJob /\ job'.state = "none" /\ JobTyped' /\ JobHolds'
    BY <1>1 DEF RelayInv, TokensHold, JobTyped, JobHolds, NoJob
  <1>3. cfg' \in Cfgs /\ cfg'.saved = disk
    BY <1>1 DEF RelayInv, TokensHold, Sound, Cfgs
  <1>4. Sound(cfg', disk')
    BY <1>1, <1>3 DEF RelayInv, TokensHold, Sound, Whole, KeptOrPending
  <1>5. Coming' = disk.refresh /\ Coming = disk.refresh
    BY <1>1, <1>2, <1>3 DEF Coming
  <1> QED BY <1>1, <1>2, <1>3, <1>4, <1>5 DEF Kept, RelayInv, TokensHold, NeverStranded

\* What only moves a timer or the role leaves the tokens alone.
LEMMA TimersKeep ==
    ASSUME RelayInv, UNCHANGED <<phase, suppressed, tokens, job, blameless>>,
           \/ UNCHANGED <<link, next>>
           \/ next' = "due"
           \/ link' = "role"
    PROVE  Kept
  <1>1. TokensHold'
    BY DEF RelayInv, TokensHold, JobTyped, JobHolds, Coming, tokens
  <1> QED BY <1>1 DEF Kept, RelayInv, NeverStranded, tokens

LEMMA StepHolds == RelayInv /\ [RelayNext]_relayVars => Kept
  <1> SUFFICES ASSUME RelayInv, [RelayNext]_relayVars PROVE Kept
    OBVIOUS
  <1>1. CASE HandshakeResponse \/ HandleError \/ ReconnectDue \/ ProbeDue \/ RetryDue
    <2>1. /\ UNCHANGED <<phase, suppressed, tokens, job, blameless>>
          /\ \/ UNCHANGED <<link, next>>
             \/ next' = "due"
             \/ link' = "role"
      BY <1>1 DEF HandshakeResponse, HandleError, ReconnectDue, ProbeDue, RetryDue, loop, claims
    <2> QED BY <2>1, TimersKeep
  <1>2. CASE UNCHANGED relayVars
    BY <1>2, TimersKeep DEF relayVars, loop, claims
  <1>3. CASE RelayNext
    BY <1>1, <1>3, RefusedKeeps, FailsKeeps, ConnectKeeps, RequestKeeps, LostKeeps, CheckKeeps,
       WorkerKeeps, CollectKeeps, SaveKeeps, AgesKeeps, StopKeeps, CrashKeeps, RestartKeeps
       DEF RelayNext
  <1> QED BY <1>2, <1>3

-----------------------------------------------------------------------------

LEMMA InvHolds == RelaySpec => []RelayInv
  <1>1. RelayInv /\ [RelayNext]_relayVars => RelayInv'
    BY StepHolds DEF Kept
  <1> QED BY <1>1, InitHolds, PTL DEF RelaySpec

\* The API reads reuse only after an answer was lost or a process ended
\* before its tokens were saved, never because two requests of one agent
\* used one token (ReuseHasACause; RefreshInline, FinishRefresh).
THEOREM ReuseHolds == RelaySpec => []ReuseHasACause
  <1>1. RelayInv => ReuseHasACause
    BY DEF RelayInv, TokensHold, ReuseHasACause
  <1> QED BY <1>1, InvHolds, PTL

\* What a restart would come with is what is in memory, or a save is still
\* owed (SavedOrPending; ProcessRefresh, RetryPendingSave).
THEOREM SavesAreOwed == RelaySpec => []SavedOrPending
  <1>1. RelayInv => SavedOrPending
    BY DEF RelayInv, TokensHold, SavedOrPending, Sound, KeptOrPending, Enrolled
  <1> QED BY <1>1, InvHolds, PTL

\* Without its relay the service has a next attempt before it, unless the
\* API ended the enrollment (NeverStranded; ScheduleReconnect).
THEOREM NeverIsStranded == RelaySpec => []NeverStranded
  <1>1. RelayInv => NeverStranded
    BY DEF RelayInv
  <1> QED BY <1>1, InvHolds, PTL

\* The enrollment is given up only on the API's word, never for a frame of
\* the relay, a lost request or an expiry (OnlyTheApiRevokes; HandleError).
THEOREM TheApiRevokes == RelaySpec => OnlyTheApiRevokes
  <1>1. RelayInv /\ [RelayNext]_relayVars => [suppressed' /\ ~suppressed => api'.revoked]_relayVars
    BY StepHolds DEF Kept
  <1> QED BY <1>1, InvHolds, PTL DEF RelaySpec, OnlyTheApiRevokes

-----------------------------------------------------------------------------
(* The relay and the peer are judged by their silence (KeepAlive).          *)

-----------------------------------------------------------------------------
(* Silence and a blocked loop.                                             *)

\* What a turn may add to a silence at most, after its correction, and the
\* stagger of the first ping.
Turn == Wait + Stall - 1
Half == Interval \div 2

\* With blocks of B at most in the handlers and of G in Checks: the link is
\* silent for less than its time-out while its answer is under way for two
\* turns, and no block makes a ping so late that its schedule starts anew.
InTime(B, G) ==
    /\ \A b \in Blocks : b <= B
    /\ \A b \in LateBlocks : b <= G
    /\ Probe + 2 * Turn + 2 * G + Delay - 3 < Timeout
    /\ Interval + Half + 2 * Turn + 2 * G + Delay - 3 < KATimeout
    /\ Wait + B + G <= 5 * Interval + 1

RelayStates == [up : BOOLEAN, recv : Ages, probe : Ages]
PeerStates == [open : BOOLEAN, direct : BOOLEAN, ping : Ages, pong : Ages]
Wires == [owed : [Links -> 0 .. Delay], unread : SUBSET Links, dead : SUBSET Links]

KATyped ==
    /\ pc \in {"service", "stall", "checks", "relay", "peer"} /\ gap \in Nat
    /\ relay \in RelayStates /\ peer \in PeerStates /\ wire \in Wires

\* The time a turn is forgiven.
Blocked(n) == IF n >= Wait + Stall THEN n - Wait ELSE 0

\* How long link l, asked once it was silent for P, may be silent: when a turn
\* begins, when its stall was forgiven, and when the link is judged. An answer
\* is under way for owed - 1, or waits to be read.
Idle(l, w) == l \notin w.unread /\ w.owed[l] = 0
Underway(l, w, s, P, G) ==
    l \notin w.unread /\ w.owed[l] > 0 => s <= P + Turn + G + w.owed[l] - 2
Rested(l, w, s, P, G) ==
    /\ Idle(l, w) => s <= P - 1
    /\ Underway(l, w, s, P, G)
Listened(l, w, s, P, G) ==
    /\ Idle(l, w) => s <= P - 1 + Turn
    /\ Underway(l, w, s, P, G)
    /\ l \in w.unread => s <= P + 2 * Turn + G + Delay - 3
Judged(l, w, s, P, G) ==
    /\ Idle(l, w) => s <= P - 1 + Turn + G
    /\ Underway(l, w, s, P, G)
    /\ l \in w.unread => s <= P + 2 * Turn + 2 * G + Delay - 3

\* The relay is asked when it was silent for Probe, and answers.
RelayWell(G) ==
    relay.up /\ "relay" \notin wire.dead =>
        /\ relay.recv \in Nat
        /\ relay.probe # Never => relay.probe \in Nat
        /\ Probed => ~Idle("relay", wire)
        /\ pc \in {"service", "peer"} => Rested("relay", wire, relay.recv, Probe, G)
        /\ pc = "stall" => Listened("relay", wire, Forward(relay.recv, Blocked(gap)), Probe, G)
        /\ pc = "checks" => Listened("relay", wire, relay.recv, Probe, G)
        /\ pc = "relay" => Judged("relay", wire, relay.recv, Probe, G)

\* The peer is pinged in its Interval, and its pongs are as old as its pings
\* when none is under way.
Pinging == peer.open /\ peer.direct /\ peer.ping # Never /\ "peer" \notin wire.dead
PeerWell(B, G) ==
    Pinging =>
        /\ peer.pong \in Nat /\ peer.ping >= -Half
        /\ Idle("peer", wire) => peer.pong <= peer.ping + Half
        /\ pc = "service" => /\ Rested("peer", wire, peer.pong, Interval + Half, G)
                             /\ peer.ping <= Interval - 1
        /\ pc = "stall" => /\ Listened("peer", wire, Forward(peer.pong, Blocked(gap)), Interval + Half, G)
                           /\ peer.ping <= Interval - 1 + Wait + B
        /\ pc = "checks" => /\ Listened("peer", wire, peer.pong, Interval + Half, G)
                            /\ peer.ping <= Interval - 1 + Wait + B
        /\ pc \in {"relay", "peer"} => /\ Judged("peer", wire, peer.pong, Interval + Half, G)
                                       /\ peer.ping <= Interval - 1 + Wait + B + G

GapKnown(G) ==
    /\ pc = "checks" => gap = 0
    /\ pc \in {"service", "relay", "peer"} => gap <= G

KAInv(B, G) == KATyped /\ GapKnown(G) /\ RelayWell(G) /\ PeerWell(B, G) /\ LiveIsKept

-----------------------------------------------------------------------------

LEMMA Bounds ==
    /\ Wait \in Nat /\ Wait >= 1 /\ Stall \in Nat /\ Stall >= 1 /\ Turn \in Nat /\ Turn >= Wait
    /\ Probe \in Nat /\ Probe >= 1 /\ Timeout \in Nat /\ Interval \in Nat /\ Interval >= 1
    /\ Delay \in Nat /\ Delay >= 1 /\ Half \in Nat /\ KATimeout = 3 * Interval
    /\ Cap \in Nat /\ Cap >= Timeout /\ Cap >= 2 * KATimeout
    /\ Never \in Int /\ Never < 0 /\ Never < -Half /\ Never = -Interval - 1 /\ Half <= Interval
  <1>1. Half \in Nat /\ Half <= Interval
    BY KeepAliveAssumption DEF Half
  <1> QED BY <1>1, KeepAliveAssumption DEF Turn, KATimeout, Cap, Never

\* An answer that is under way arrives, or is still to come and not late.
LEMMA Arriving ==
    ASSUME NEW w \in Wires, NEW t \in Nat, NEW v \in Arrived(w, t)
    PROVE  /\ v \in Wires /\ v.dead = w.dead
           /\ \A l \in Links \ w.dead :
                /\ l \in w.unread => l \in v.unread
                /\ w.owed[l] = 0 => v.owed[l] = 0 /\ (l \in v.unread => l \in w.unread)
                /\ w.owed[l] > 0 => \/ l \in v.unread /\ v.owed[l] = 0
                                    \/ /\ v.owed[l] = w.owed[l] + t /\ v.owed[l] <= Delay
                                       /\ l \in v.unread => l \in w.unread
  <1>1. PICK A \in {S \in SUBSET Asked(w) : Due(w, t) \subseteq S} :
          v = [w EXCEPT !.unread = @ \cup A,
                        !.owed = [l \in Links |-> IF l \in A \/ w.owed[l] = 0 THEN 0
                                                  ELSE IF w.owed[l] + t > Delay THEN Delay
                                                  ELSE w.owed[l] + t]]
    BY DEF Arrived
  <1> DEFINE owed == [l \in Links |-> IF l \in A \/ w.owed[l] = 0 THEN 0
                                      ELSE IF w.owed[l] + t > Delay THEN Delay
                                      ELSE w.owed[l] + t]
  <1>2. \A l \in Links : w.owed[l] \in 0 .. Delay
    BY DEF Wires
  <1>3. owed \in [Links -> 0 .. Delay]
    BY <1>2, Bounds
  <1>4. A \subseteq Links
    BY <1>1 DEF Asked
  <1>5. v \in Wires /\ v.dead = w.dead /\ v.owed = owed /\ v.unread = w.unread \cup A
    BY <1>1, <1>3, <1>4 DEF Wires
  <1>6. ASSUME NEW l \in Links \ w.dead
        PROVE  /\ l \in w.unread => l \in v.unread
               /\ w.owed[l] = 0 => v.owed[l] = 0 /\ (l \in v.unread => l \in w.unread)
               /\ w.owed[l] > 0 => \/ l \in v.unread /\ v.owed[l] = 0
                                   \/ /\ v.owed[l] = w.owed[l] + t /\ v.owed[l] <= Delay
                                      /\ l \in v.unread => l \in w.unread
    <2>1. v.owed[l] = IF l \in A \/ w.owed[l] = 0 THEN 0
                      ELSE IF w.owed[l] + t > Delay THEN Delay ELSE w.owed[l] + t
      BY <1>5
    <2>2. w.owed[l] \in Nat /\ w.owed[l] <= Delay
      BY <1>2, Bounds
    <2>3. w.owed[l] = 0 => l \notin A
      BY <1>1 DEF Asked
    <2>4. w.owed[l] > 0 /\ l \notin A => w.owed[l] + t <= Delay
      BY <1>1, <2>2, Bounds DEF Due
    <2>5. CASE w.owed[l] = 0
      BY <1>5, <2>1, <2>3, <2>5
    <2>6. CASE w.owed[l] > 0 /\ l \in A
      BY <1>5, <2>1, <2>2, <2>6
    <2>7. CASE w.owed[l] > 0 /\ l \notin A
      BY <1>5, <2>1, <2>2, <2>4, <2>7, Bounds
    <2> QED BY <2>2, <2>5, <2>6, <2>7
  <1> QED BY <1>5, <1>6

LEMMA ForwardIs ==
    ASSUME NEW s \in Nat, NEW n \in Nat
    PROVE  Forward(s, n) \in Nat /\ Forward(s, n) <= s
           /\ Forward(s, n) = IF s > n THEN s - n ELSE 0
  BY Bounds DEF Forward

\* A turn of w waiting and b working, on a link that is alive.
LEMMA Serviced ==
    ASSUME NEW G \in Nat, NEW P \in Nat, P >= 1, NEW l \in Links,
           NEW u \in Wires, l \notin u.dead, NEW g \in Nat, g <= G,
           NEW s \in Nat, Rested(l, u, s, P, G),
           NEW w \in 1 .. Wait, NEW b \in Nat,
           NEW seen \in Arrived(u, w), NEW v \in Arrived([seen EXCEPT !.unread = {}], b),
           NEW c, c = IF l \in seen.unread THEN b ELSE s + w + b
    PROVE  Listened(l, v, Forward(c, Blocked(g + w + b)), P, G) /\ v \in Wires
  <1> DEFINE f == Forward(c, Blocked(g + w + b))
             h == [seen EXCEPT !.unread = {}]
  <1>1. w \in Nat /\ w >= 1 /\ w <= Wait
    BY Bounds
  <1>2. /\ seen \in Wires /\ l \notin seen.dead
        /\ l \in u.unread => l \in seen.unread
        /\ u.owed[l] = 0 => seen.owed[l] = 0 /\ (l \in seen.unread => l \in u.unread)
        /\ u.owed[l] > 0 => \/ l \in seen.unread /\ seen.owed[l] = 0
                            \/ /\ seen.owed[l] = u.owed[l] + w /\ seen.owed[l] <= Delay
                               /\ l \in seen.unread => l \in u.unread
    BY <1>1, Arriving
  <1>3. h \in Wires /\ l \notin h.dead /\ l \notin h.unread /\ h.owed[l] = seen.owed[l]
    BY <1>2 DEF Wires
  <1> HIDE DEF h
  <1>4. /\ v \in Wires
        /\ h.owed[l] = 0 => v.owed[l] = 0 /\ l \notin v.unread
        /\ h.owed[l] > 0 => \/ l \in v.unread /\ v.owed[l] = 0
                            \/ /\ v.owed[l] = h.owed[l] + b /\ v.owed[l] <= Delay
                               /\ l \notin v.unread
    BY <1>3, Arriving DEF h
  <1>5. u.owed[l] \in Nat /\ seen.owed[l] \in Nat /\ v.owed[l] \in Nat /\ seen.owed[l] <= Delay
    BY <1>2, <1>4, Bounds DEF Wires
  <1>6. c \in Nat /\ Blocked(g + w + b) \in Nat
    BY <1>1, Bounds DEF Blocked
  <1>7. f \in Nat /\ f <= c /\ (f = IF c > Blocked(g + w + b) THEN c - Blocked(g + w + b) ELSE 0)
    BY <1>6, ForwardIs
  <1> HIDE DEF f
  <1>8. CASE l \in seen.unread
    <2>1. c = b
      BY <1>8
    <2>2. f <= Turn - 1
      BY <1>1, <1>6, <1>7, <2>1, Bounds DEF Blocked, Turn
    <2>3. Underway(l, v, f, P, G)
      <3> SUFFICES ASSUME l \notin v.unread, v.owed[l] > 0
                   PROVE  f <= P + Turn + G + v.owed[l] - 2
        BY DEF Underway
      <3> QED BY <1>5, <2>2, <1>7, Bounds
    <2> QED BY <1>4, <1>5, <1>7, <2>2, <2>3, Bounds DEF f, Listened, Idle
  <1>9. CASE l \notin seen.unread
    <2>1. c = s + w + b /\ l \notin u.unread
      BY <1>2, <1>9
    <2>2. f <= s + Turn
      BY <1>1, <1>6, <1>7, <2>1, Bounds DEF Blocked, Turn
    <2>3. CASE u.owed[l] = 0
      <3>1. s <= P - 1 /\ v.owed[l] = 0 /\ l \notin v.unread
        BY <1>2, <1>3, <1>4, <2>1, <2>3 DEF Rested, Idle
      <3> QED BY <1>4, <1>7, <2>2, <3>1, Bounds DEF f, Listened, Underway
    <2>4. CASE u.owed[l] > 0
      <3>1. /\ s <= P + Turn + G + u.owed[l] - 2
            /\ seen.owed[l] = u.owed[l] + w /\ u.owed[l] + w <= Delay
        BY <1>2, <1>9, <2>1, <2>4 DEF Rested, Underway
      <3>2. f <= P + 2 * Turn + G + Delay - 3
        BY <1>1, <1>5, <1>7, <2>2, <3>1, Bounds
      <3>3. ~Idle(l, v)
        BY <1>3, <1>4, <1>5, <2>4, <3>1, <1>1 DEF Idle
      <3>4. l \notin v.unread /\ v.owed[l] > 0 => f <= P + Turn + G + v.owed[l] - 2
        BY <1>1, <1>3, <1>4, <1>5, <1>7, <2>1, <3>1, Bounds
      <3> QED BY <1>4, <3>2, <3>3, <3>4 DEF f, Listened, Underway
    <2> QED BY <1>5, <2>3, <2>4
  <1> QED BY <1>8, <1>9

\* The time that Checks takes.
LEMMA Passed ==
    ASSUME NEW G \in Nat, NEW P \in Nat, P >= 1, NEW l \in Links,
           NEW u \in Wires, l \notin u.dead, NEW s \in Nat, Listened(l, u, s, P, G),
           NEW b \in Nat, b <= G, NEW v \in Arrived(u, b)
    PROVE  Judged(l, v, s + b, P, G) /\ v \in Wires /\ (Idle(l, v) => Idle(l, u))
           /\ s + b <= P + 2 * Turn + 2 * G + Delay - 3
  <1>1. /\ v \in Wires
        /\ l \in u.unread => l \in v.unread
        /\ u.owed[l] = 0 => v.owed[l] = 0 /\ (l \in v.unread => l \in u.unread)
        /\ u.owed[l] > 0 => \/ l \in v.unread /\ v.owed[l] = 0
                            \/ /\ v.owed[l] = u.owed[l] + b /\ v.owed[l] <= Delay
                               /\ l \in v.unread => l \in u.unread
    BY Arriving
  <1>2. u.owed[l] \in Nat /\ u.owed[l] <= Delay /\ v.owed[l] \in Nat
    BY <1>1, Bounds DEF Wires
  <1>3. s <= P + 2 * Turn + G + Delay - 3
    <2>1. CASE l \in u.unread
      BY <2>1 DEF Listened
    <2>2. CASE l \notin u.unread /\ u.owed[l] = 0
      BY <2>2, Bounds DEF Listened, Idle
    <2>3. CASE l \notin u.unread /\ u.owed[l] > 0
      BY <1>2, <2>3, Bounds DEF Listened, Underway
    <2> QED BY <1>2, <2>1, <2>2, <2>3
  <1>4. Idle(l, v) => Idle(l, u) /\ s + b <= P - 1 + Turn + G
    <2> SUFFICES ASSUME Idle(l, v) PROVE Idle(l, u) /\ s + b <= P - 1 + Turn + G
      OBVIOUS
    <2>0. l \notin v.unread /\ v.owed[l] = 0
      BY DEF Idle
    <2>1. Idle(l, u)
      <3>1. CASE u.owed[l] > 0
        BY <1>1, <1>2, <2>0, <3>1, Bounds
      <3>2. CASE u.owed[l] = 0
        BY <1>1, <2>0, <3>2 DEF Idle
      <3> QED BY <1>2, <3>1, <3>2
    <2>2. s <= P - 1 + Turn
      BY <2>1 DEF Listened
    <2> QED BY <2>1, <2>2, Bounds
  <1>5. Underway(l, v, s + b, P, G)
    <2> SUFFICES ASSUME l \notin v.unread, v.owed[l] > 0
                 PROVE  s + b <= P + Turn + G + v.owed[l] - 2
      BY DEF Underway
    <2>1. l \notin u.unread /\ u.owed[l] > 0 /\ v.owed[l] = u.owed[l] + b
      BY <1>1, <1>2
    <2>2. s <= P + Turn + G + u.owed[l] - 2
      BY <2>1 DEF Listened, Underway
    <2> QED BY <1>2, <2>1, <2>2, Bounds
  <1>6. s + b <= P + 2 * Turn + 2 * G + Delay - 3
    BY <1>3, Bounds
  <1> QED BY <1>1, <1>4, <1>5, <1>6 DEF Judged

\* What judges a link: it was not silent for too long, and a link that was
\* not asked is asked.
LEMMA NotTooLong ==
    ASSUME NEW G \in Nat, NEW P \in Nat, P >= 1, NEW l \in Links,
           NEW u \in Wires, NEW s \in Nat, Judged(l, u, s, P, G)
    PROVE  s <= P + 2 * Turn + 2 * G + Delay - 3
  <1>1. u.owed[l] \in Nat /\ u.owed[l] <= Delay
    BY Bounds DEF Wires
  <1>2. CASE l \in u.unread
    BY <1>2 DEF Judged
  <1>3. CASE l \notin u.unread /\ u.owed[l] = 0
    BY <1>3, Bounds DEF Judged, Idle
  <1>4. CASE l \notin u.unread /\ u.owed[l] > 0
    BY <1>1, <1>4, Bounds DEF Judged, Underway
  <1> QED BY <1>1, <1>2, <1>3, <1>4

LEMMA Asking ==
    ASSUME NEW G \in Nat, NEW P \in Nat, P >= 1, NEW l \in Links,
           NEW u \in Wires, l \notin u.dead, NEW s \in Nat, Judged(l, u, s, P, G)
    PROVE  /\ Pinged(u, l) \in Wires /\ Pinged(u, l).dead = u.dead
           /\ Rested(l, Pinged(u, l), s, P, G) /\ ~Idle(l, Pinged(u, l))
           /\ \A k \in Links : k # l => /\ Pinged(u, l).owed[k] = u.owed[k]
                                        /\ k \in Pinged(u, l).unread <=> k \in u.unread
  <1> DEFINE v == Pinged(u, l)
  <1>1. v = [u EXCEPT !.owed[l] = IF @ = 0 THEN 1 ELSE @]
    BY DEF Pinged
  <1>2. u.owed[l] \in 0 .. Delay /\ 1 \in 0 .. Delay
    BY Bounds DEF Wires
  <1>3. /\ v \in Wires /\ v.dead = u.dead /\ v.unread = u.unread
        /\ v.owed[l] = (IF u.owed[l] = 0 THEN 1 ELSE u.owed[l])
        /\ \A k \in Links : k # l => v.owed[k] = u.owed[k]
    BY <1>1, <1>2 DEF Wires
  <1>4. v.owed[l] > 0
    BY <1>2, <1>3, Bounds
  <1>5. Underway(l, v, s, P, G)
    <2> SUFFICES ASSUME l \notin u.unread PROVE s <= P + Turn + G + v.owed[l] - 2
      BY <1>3 DEF Underway
    <2>1. CASE u.owed[l] = 0
      BY <1>3, <2>1, Bounds DEF Judged, Idle
    <2>2. CASE u.owed[l] # 0
      <3>1. u.owed[l] > 0
        BY <1>2, <2>2, Bounds
      <3> QED BY <1>3, <2>2, <3>1 DEF Judged, Underway
    <2> QED BY <2>1, <2>2
  <1> QED BY <1>3, <1>4, <1>5 DEF Rested, Idle

-----------------------------------------------------------------------------
(* One lemma per step of the loop and of the other side.                   *)

LEMMA KAInitHolds ==
    ASSUME NEW B \in Nat, NEW G \in Nat, KAInit
    PROVE  KAInv(B, G)
  <1>1. /\ pc = "service" /\ gap = 0
        /\ relay.up = TRUE /\ relay.recv = 0 /\ relay.probe = Never
        /\ peer.open = TRUE /\ peer.direct = TRUE /\ peer.ping = Never /\ peer.pong = Never
        /\ wire.dead = {} /\ wire.unread = {} /\ wire.owed = [l \in Links |-> 0]
    BY DEF KAInit
  <1>2. 0 \in Ages /\ Never \in Ages /\ 0 \in 0 .. Delay
    BY Bounds DEF Ages, Never
  <1>3. KATyped
    BY <1>1, <1>2 DEF KAInit, KATyped, RelayStates, PeerStates, Wires
  <1>4. GapKnown(G)
    BY <1>1 DEF GapKnown
  <1>5. RelayWell(G)
    BY <1>1, Bounds DEF RelayWell, Probed, Rested, Underway, Links
  <1>6. PeerWell(B, G)
    BY <1>1 DEF PeerWell, Pinging
  <1>7. LiveIsKept
    BY <1>1 DEF LiveIsKept
  <1> QED BY <1>3, <1>4, <1>5, <1>6, <1>7 DEF KAInv

LEMMA AgesOn ==
    ASSUME NEW n \in Ages, NEW t \in Nat
    PROVE  /\ AgedBy(n, t) \in Ages
           /\ n # Never => AgedBy(n, t) = n + t
           /\ n = Never => AgedBy(n, t) = Never
           /\ Age(n) \in Ages /\ (n <= Cap => Age(n) = n) /\ (n > Cap => Age(n) = Cap)
           /\ n # Never /\ t >= 0 => AgedBy(n, t) >= n
  BY Bounds DEF AgedBy, Ages, Age

\* A link that is asked stays asked until what it sent is read.
LEMMA StillAsked ==
    ASSUME NEW l \in Links, NEW u \in Wires, l \notin u.dead, NEW w \in Nat, NEW b \in Nat,
           NEW seen \in Arrived(u, w), l \notin seen.unread,
           NEW v \in Arrived([seen EXCEPT !.unread = {}], b)
    PROVE  Idle(l, v) => Idle(l, u)
  <1> DEFINE h == [seen EXCEPT !.unread = {}]
  <1>1. /\ seen \in Wires /\ l \notin seen.dead /\ l \notin u.unread
        /\ u.owed[l] > 0 => seen.owed[l] = u.owed[l] + w
    BY Arriving
  <1>2. h \in Wires /\ l \notin h.dead /\ l \notin h.unread /\ h.owed[l] = seen.owed[l]
    BY <1>1 DEF Wires
  <1> HIDE DEF h
  <1>3. /\ v \in Wires
        /\ h.owed[l] > 0 => \/ l \in v.unread /\ v.owed[l] = 0
                            \/ /\ v.owed[l] = h.owed[l] + b /\ v.owed[l] <= Delay
                               /\ l \notin v.unread
    <2>1. v \in Arrived(h, b) /\ l \in Links \ h.dead
      BY <1>2 DEF h
    <2> QED BY <1>2, <2>1, Arriving
  <1>4. u.owed[l] \in Nat
    BY Bounds DEF Wires
  <1>5. CASE u.owed[l] > 0
    <2>1. h.owed[l] > 0 /\ h.owed[l] = u.owed[l] + w
      BY <1>1, <1>2, <1>4, <1>5
    <2>2. l \in v.unread \/ v.owed[l] > 0
      BY <1>3, <1>4, <1>5, <2>1
    <2> QED BY <1>4, <2>2 DEF Idle
  <1>6. CASE u.owed[l] = 0
    BY <1>1, <1>6 DEF Idle
  <1> QED BY <1>4, <1>5, <1>6

LEMMA ServiceHolds ==
    ASSUME NEW B \in Nat, NEW G \in Nat, InTime(B, G), KAInv(B, G), Service
    PROVE  KAInv(B, G)'
  <1>1. /\ pc = "service" /\ gap \in Nat /\ gap <= G
        /\ relay \in RelayStates /\ peer \in PeerStates /\ wire \in Wires
    BY DEF KAInv, KATyped, GapKnown, Service
  <1>w. PICK w \in 1 .. Wait, b \in Blocks :
             \E seen \in Arrived(wire, w) :
             /\ gap' = gap + w + b
             /\ relay' = RelayAged([RelayAged(relay, w) EXCEPT !.recv = IF Read(seen) THEN 0 ELSE @], b)
             /\ peer' = PeerAged([PeerAged(peer, w) EXCEPT !.pong = IF Ponged(seen) THEN 0 ELSE @], b)
             /\ wire' \in Arrived([seen EXCEPT !.unread = {}], b)
    BY DEF Service
  <1>2. PICK seen \in Arrived(wire, w) :
             /\ gap' = gap + w + b
             /\ relay' = RelayAged([RelayAged(relay, w) EXCEPT !.recv = IF Read(seen) THEN 0 ELSE @], b)
             /\ peer' = PeerAged([PeerAged(peer, w) EXCEPT !.pong = IF Ponged(seen) THEN 0 ELSE @], b)
             /\ wire' \in Arrived([seen EXCEPT !.unread = {}], b)
    BY <1>w
  <1>3. b \in Nat /\ b <= B /\ w \in Nat /\ w >= 1 /\ w <= Wait
    BY Bounds, KeepAliveAssumption DEF InTime
  <1>4. seen \in Wires /\ seen.dead = wire.dead /\ [seen EXCEPT !.unread = {}] \in Wires
    <2>1. seen \in Wires /\ seen.dead = wire.dead
      BY <1>1, <1>3, Arriving
    <2> QED BY <2>1 DEF Wires
  <1>5. wire' \in Wires /\ wire'.dead = wire.dead
    <2>1. wire' \in Wires /\ wire'.dead = [seen EXCEPT !.unread = {}].dead
      BY <1>2, <1>3, <1>4, Arriving
    <2> QED BY <2>1, <1>4 DEF Wires
  <1>6. /\ relay.up \in BOOLEAN /\ relay.recv \in Ages /\ relay.probe \in Ages
        /\ peer.open \in BOOLEAN /\ peer.direct \in BOOLEAN /\ peer.ping \in Ages /\ peer.pong \in Ages
    BY <1>1 DEF RelayStates, PeerStates
  <1> DEFINE heard == IF Read(seen) THEN 0 ELSE AgedBy(relay.recv, w)
             ponged == IF Ponged(seen) THEN 0 ELSE AgedBy(peer.pong, w)
  <1>7. /\ relay' \in RelayStates /\ relay'.up = relay.up
        /\ relay'.recv = AgedBy(heard, b) /\ relay'.probe = AgedBy(AgedBy(relay.probe, w), b)
    <2>0. heard \in Ages /\ AgedBy(relay.probe, w) \in Ages
      <3>1. 0 \in Ages
        BY Bounds DEF Ages
      <3> QED BY <1>3, <1>6, <3>1, AgesOn
    <2>1. AgedBy(heard, b) \in Ages /\ AgedBy(AgedBy(relay.probe, w), b) \in Ages
      <3> HIDE DEF heard
      <3> QED BY <1>3, <2>0, AgesOn
    <2> QED BY <1>1, <1>2, <2>1 DEF RelayAged, RelayStates
  <1>8. /\ peer' \in PeerStates /\ peer'.open = peer.open /\ peer'.direct = peer.direct
        /\ peer'.pong = AgedBy(ponged, b) /\ peer'.ping = AgedBy(AgedBy(peer.ping, w), b)
    <2>0. ponged \in Ages /\ AgedBy(peer.ping, w) \in Ages
      <3>1. 0 \in Ages
        BY Bounds DEF Ages
      <3> QED BY <1>3, <1>6, <3>1, AgesOn
    <2>1. AgedBy(ponged, b) \in Ages /\ AgedBy(AgedBy(peer.ping, w), b) \in Ages
      <3> HIDE DEF ponged
      <3> QED BY <1>3, <2>0, AgesOn
    <2> QED BY <1>1, <1>2, <2>1 DEF PeerAged, PeerStates
  <1>9. pc' = "stall" /\ gap' = gap + w + b /\ gap' \in Nat
    BY <1>1, <1>2, <1>3 DEF Service
  <1>10. KATyped' /\ GapKnown(G)'
    BY <1>5, <1>7, <1>8, <1>9 DEF KATyped, GapKnown
  <1>11. RelayWell(G)'
    <2> SUFFICES ASSUME relay.up, "relay" \notin wire.dead
                 PROVE  /\ relay'.recv \in Nat
                        /\ relay'.probe # Never => relay'.probe \in Nat
                        /\ Probed' => ~Idle("relay", wire')
                        /\ Listened("relay", wire', Forward(relay'.recv, Blocked(gap')), Probe, G)
      BY <1>5, <1>7, <1>9 DEF RelayWell
    <2>1. relay.recv \in Nat /\ Rested("relay", wire, relay.recv, Probe, G)
          /\ (Probed => ~Idle("relay", wire))
      BY <1>1 DEF KAInv, RelayWell
    <2>2. relay'.recv = IF "relay" \in seen.unread THEN b ELSE relay.recv + w + b
      BY <1>3, <1>6, <1>7, <2>1, AgesOn, Bounds DEF Read, AgedBy, Ages
    <2>3. Listened("relay", wire', Forward(relay'.recv, Blocked(gap')), Probe, G)
      BY <1>1, <1>2, <1>3, <1>9, <2>1, <2>2, Serviced, Bounds DEF Links
    <2>4. relay'.recv \in Nat
      BY <1>3, <2>1, <2>2
    <2>5. relay'.probe # Never =>
             relay.probe # Never /\ relay.probe \in Nat /\ relay'.probe = relay.probe + w + b
      <3>1. relay.probe # Never => relay.probe \in Nat
        BY <1>1 DEF KAInv, RelayWell
      <3>2. relay.probe = Never => relay'.probe = Never
        BY <1>7 DEF AgedBy
      <3>3. relay.probe \in Nat => relay'.probe = relay.probe + w + b
        BY <1>3, <1>7, Bounds DEF AgedBy
      <3> QED BY <3>1, <3>2, <3>3
    <2>6. ASSUME Probed' PROVE ~Idle("relay", wire')
      <3>1. relay'.probe # Never /\ relay'.probe <= relay'.recv
        BY <2>6 DEF Probed
      <3>2. "relay" \notin seen.unread /\ relay.probe <= relay.recv
        BY <1>3, <2>1, <2>2, <2>5, <3>1
      <3>3. ~Idle("relay", wire)
        BY <2>1, <2>5, <3>1, <3>2 DEF Probed
      <3> QED BY <1>1, <1>2, <1>3, <3>2, <3>3, StillAsked DEF Links
    <2> QED BY <1>3, <2>1, <2>3, <2>4, <2>5, <2>6
  <1>12. PeerWell(B, G)'
    <2> SUFFICES ASSUME peer.open, peer.direct, peer'.ping # Never, "peer" \notin wire.dead
                 PROVE  /\ peer'.pong \in Nat /\ peer'.ping >= -Half
                        /\ Idle("peer", wire') => peer'.pong <= peer'.ping + Half
                        /\ Listened("peer", wire', Forward(peer'.pong, Blocked(gap')), Interval + Half, G)
                        /\ peer'.ping <= Interval - 1 + Wait + B
      BY <1>5, <1>8, <1>9 DEF PeerWell, Pinging
    <2>1. peer.ping # Never
      BY <1>8 DEF AgedBy
    <2>2. /\ peer.pong \in Nat /\ Rested("peer", wire, peer.pong, Interval + Half, G)
          /\ peer.ping >= -Half /\ peer.ping <= Interval - 1
          /\ Idle("peer", wire) => peer.pong <= peer.ping + Half
      BY <1>1, <2>1 DEF KAInv, PeerWell, Pinging
    <2>3. peer'.pong = IF "peer" \in seen.unread THEN b ELSE peer.pong + w + b
      BY <1>3, <1>6, <1>8, <2>2, Bounds DEF Ponged, AgedBy, Ages
    <2>4. peer'.ping = peer.ping + w + b
      BY <1>3, <1>6, <1>8, <2>1, <2>2, Bounds DEF AgedBy, Ages
    <2>5. Listened("peer", wire', Forward(peer'.pong, Blocked(gap')), Interval + Half, G)
      <3>1. Interval + Half \in Nat /\ Interval + Half >= 1
        BY Bounds
      <3> QED BY <1>1, <1>2, <1>3, <1>9, <2>2, <2>3, <3>1, Serviced, Bounds DEF Links
    <2>6. ASSUME Idle("peer", wire') PROVE peer'.pong <= peer'.ping + Half
      <3>1. CASE "peer" \in seen.unread
        BY <1>3, <1>6, <2>2, <2>3, <2>4, <3>1, Bounds DEF Ages
      <3>2. CASE "peer" \notin seen.unread
        <4>1. Idle("peer", wire)
          BY <1>1, <1>2, <1>3, <2>6, <3>2, StillAsked DEF Links
        <4> QED BY <1>3, <1>6, <2>2, <2>3, <2>4, <3>2, <4>1, Bounds DEF Ages
      <3> QED BY <3>1, <3>2
    <2> QED BY <1>3, <1>6, <2>2, <2>3, <2>4, <2>5, <2>6, Bounds DEF Ages
  <1>13. LiveIsKept'
    BY <1>5, <1>7, <1>8 DEF KAInv, LiveIsKept
  <1> QED BY <1>10, <1>11, <1>12, <1>13 DEF KAInv

LEMMA CheckLoopStallHolds ==
    ASSUME NEW B \in Nat, NEW G \in Nat, KAInv(B, G), CheckLoopStall
    PROVE  KAInv(B, G)'
  <1> DEFINE blocked == Blocked(gap)
  <1>1. /\ pc = "stall" /\ pc' = "checks" /\ gap \in Nat /\ gap' = 0 /\ wire' = wire
        /\ relay \in RelayStates /\ peer \in PeerStates /\ wire \in Wires
        /\ relay' = [relay EXCEPT !.recv = Forward(@, blocked)]
        /\ peer' = [peer EXCEPT !.pong = Forward(@, blocked)]
    BY DEF KAInv, KATyped, CheckLoopStall, Blocked
  <1>2. blocked \in Nat
    BY <1>1, Bounds DEF Blocked
  <1> HIDE DEF blocked
  <1>3. ASSUME NEW n \in Ages PROVE Forward(n, blocked) \in Ages
    BY <1>2, Bounds DEF Forward, Ages
  <1>4. relay.recv \in Ages /\ peer.pong \in Ages /\ relay.probe \in Ages /\ peer.ping \in Ages
    BY <1>1 DEF RelayStates, PeerStates
  <1>5. /\ relay' \in RelayStates /\ relay'.up = relay.up /\ relay'.probe = relay.probe
        /\ relay'.recv = Forward(relay.recv, blocked)
    <2>1. Forward(relay.recv, blocked) \in Ages
      BY <1>3, <1>4
    <2> QED BY <1>1, <2>1 DEF RelayStates
  <1>6. /\ peer' \in PeerStates /\ peer'.open = peer.open /\ peer'.direct = peer.direct
        /\ peer'.ping = peer.ping /\ peer'.pong = Forward(peer.pong, blocked)
    <2>1. Forward(peer.pong, blocked) \in Ages
      BY <1>3, <1>4
    <2> QED BY <1>1, <2>1 DEF PeerStates
  <1>7. KATyped' /\ GapKnown(G)'
    BY <1>1, <1>5, <1>6 DEF KATyped, GapKnown
  <1>8. RelayWell(G)'
    <2> SUFFICES ASSUME relay.up, "relay" \notin wire.dead
                 PROVE  /\ relay'.recv \in Nat
                        /\ relay'.probe # Never => relay'.probe \in Nat
                        /\ Probed' => ~Idle("relay", wire)
                        /\ Listened("relay", wire, relay'.recv, Probe, G)
      BY <1>1, <1>5 DEF RelayWell
    <2>1. /\ relay.recv \in Nat
          /\ relay.probe # Never => relay.probe \in Nat
          /\ Probed => ~Idle("relay", wire)
          /\ Listened("relay", wire, Forward(relay.recv, blocked), Probe, G)
      BY <1>1 DEF KAInv, RelayWell, blocked
    <2>2. Forward(relay.recv, blocked) \in Nat /\ Forward(relay.recv, blocked) <= relay.recv
      BY <1>2, <2>1, ForwardIs
    <2>3. Probed' => Probed
      BY <1>4, <1>5, <2>1, <2>2 DEF Probed, Ages
    <2> QED BY <1>5, <2>1, <2>2, <2>3
  <1>9. PeerWell(B, G)'
    <2> SUFFICES ASSUME Pinging
                 PROVE  /\ peer'.pong \in Nat /\ peer'.ping >= -Half
                        /\ Idle("peer", wire) => peer'.pong <= peer'.ping + Half
                        /\ Listened("peer", wire, peer'.pong, Interval + Half, G)
                        /\ peer'.ping <= Interval - 1 + Wait + B
      BY <1>1, <1>6 DEF PeerWell, Pinging
    <2>1. /\ peer.pong \in Nat /\ peer.ping >= -Half
          /\ Idle("peer", wire) => peer.pong <= peer.ping + Half
          /\ Listened("peer", wire, Forward(peer.pong, blocked), Interval + Half, G)
          /\ peer.ping <= Interval - 1 + Wait + B
      BY <1>1 DEF KAInv, PeerWell, blocked
    <2>2. Forward(peer.pong, blocked) \in Nat /\ Forward(peer.pong, blocked) <= peer.pong
      BY <1>2, <2>1, ForwardIs
    <2>3. Idle("peer", wire) => peer'.pong <= peer'.ping + Half
      BY <1>4, <1>6, <2>1, <2>2, Bounds DEF Ages
    <2> QED BY <1>6, <2>1, <2>2, <2>3
  <1>10. LiveIsKept'
    BY <1>1, <1>5, <1>6 DEF KAInv, LiveIsKept
  <1> QED BY <1>7, <1>8, <1>9, <1>10 DEF KAInv

LEMMA ChecksHolds ==
    ASSUME NEW B \in Nat, NEW G \in Nat, InTime(B, G), KAInv(B, G), Checks
    PROVE  KAInv(B, G)'
  <1>1. /\ pc = "checks" /\ pc' = "relay" /\ gap = 0
        /\ relay \in RelayStates /\ peer \in PeerStates /\ wire \in Wires
    BY DEF KAInv, KATyped, GapKnown, Checks
  <1>2. PICK b \in LateBlocks : Pass(b)
    BY DEF Checks
  <1>3. b \in Nat /\ b <= G
    BY KeepAliveAssumption DEF InTime
  <1>4. wire' \in Arrived(wire, b) /\ gap' = b
    BY <1>1, <1>2, <1>3 DEF Pass
  <1>5. wire' \in Wires /\ wire'.dead = wire.dead
    BY <1>1, <1>3, <1>4, Arriving
  <1>6. /\ relay.up \in BOOLEAN /\ relay.recv \in Ages /\ relay.probe \in Ages
        /\ peer.open \in BOOLEAN /\ peer.direct \in BOOLEAN /\ peer.ping \in Ages /\ peer.pong \in Ages
    BY <1>1 DEF RelayStates, PeerStates
  <1>7. ASSUME NEW n \in Ages
        PROVE  /\ Age(AgedBy(n, b)) \in Ages
               /\ n = Never => Age(AgedBy(n, b)) = Never
               /\ n # Never => Age(AgedBy(n, b)) = IF n + b > Cap THEN Cap ELSE n + b
    BY <1>3, Bounds DEF Age, AgedBy, Ages
  <1>8. /\ relay' \in RelayStates /\ relay'.up = relay.up
        /\ relay'.recv = Age(AgedBy(relay.recv, b)) /\ relay'.probe = Age(AgedBy(relay.probe, b))
    <2>1. Age(AgedBy(relay.recv, b)) \in Ages /\ Age(AgedBy(relay.probe, b)) \in Ages
      BY <1>6, <1>7
    <2> QED BY <1>1, <1>2, <2>1 DEF Pass, RelayStates
  <1>9. /\ peer' \in PeerStates /\ peer'.open = peer.open /\ peer'.direct = peer.direct
        /\ peer'.ping = Age(AgedBy(peer.ping, b)) /\ peer'.pong = Age(AgedBy(peer.pong, b))
    <2>1. Age(AgedBy(peer.ping, b)) \in Ages /\ Age(AgedBy(peer.pong, b)) \in Ages
      BY <1>6, <1>7
    <2> QED BY <1>1, <1>2, <2>1 DEF Pass, PeerStates
  <1>10. KATyped' /\ GapKnown(G)'
    BY <1>1, <1>3, <1>4, <1>5, <1>8, <1>9 DEF KATyped, GapKnown
  <1>11. RelayWell(G)'
    <2> SUFFICES ASSUME relay.up, "relay" \notin wire.dead
                 PROVE  /\ relay'.recv \in Nat
                        /\ relay'.probe # Never => relay'.probe \in Nat
                        /\ Probed' => ~Idle("relay", wire')
                        /\ Judged("relay", wire', relay'.recv, Probe, G)
      BY <1>1, <1>5, <1>8 DEF RelayWell
    <2>1. /\ relay.recv \in Nat
          /\ relay.probe # Never => relay.probe \in Nat
          /\ Probed => ~Idle("relay", wire)
          /\ Listened("relay", wire, relay.recv, Probe, G)
      BY <1>1 DEF KAInv, RelayWell
    <2>2. /\ Judged("relay", wire', relay.recv + b, Probe, G)
          /\ Idle("relay", wire') => Idle("relay", wire)
          /\ relay.recv + b <= Probe + 2 * Turn + 2 * G + Delay - 3
      BY <1>1, <1>3, <1>4, <2>1, Passed, Bounds DEF Links
    <2>3. relay'.recv = relay.recv + b /\ relay'.recv \in Nat /\ relay'.recv < Timeout
      <3>1. relay.recv + b < Timeout
        BY <1>3, <2>1, <2>2, Bounds DEF InTime
      <3> QED BY <1>3, <1>6, <1>7, <1>8, <2>1, <3>1, Bounds
    <2>4. relay.probe = Never => relay'.probe = Never
      BY <1>6, <1>7, <1>8
    <2>5. relay.probe # Never => /\ relay'.probe \in Nat
                                 /\ relay'.probe = relay.probe + b \/ relay'.probe >= Timeout
      BY <1>3, <1>6, <1>7, <1>8, <2>1, Bounds
    <2>6. Probed' => Probed
      <3> SUFFICES ASSUME relay'.probe # Never, relay'.probe <= relay'.recv PROVE Probed
        BY DEF Probed
      <3> QED BY <1>3, <2>1, <2>3, <2>4, <2>5, Bounds DEF Probed
    <2> QED BY <2>1, <2>2, <2>3, <2>4, <2>5, <2>6
  <1>12. PeerWell(B, G)'
    <2> SUFFICES ASSUME peer.open, peer.direct, peer'.ping # Never, "peer" \notin wire.dead
                 PROVE  /\ peer'.pong \in Nat /\ peer'.ping >= -Half
                        /\ Idle("peer", wire') => peer'.pong <= peer'.ping + Half
                        /\ Judged("peer", wire', peer'.pong, Interval + Half, G)
                        /\ peer'.ping <= Interval - 1 + Wait + B + G
      BY <1>1, <1>5, <1>9 DEF PeerWell, Pinging
    <2>1. peer.ping # Never
      BY <1>6, <1>7, <1>9
    <2>2. /\ peer.pong \in Nat /\ Listened("peer", wire, peer.pong, Interval + Half, G)
          /\ peer.ping >= -Half /\ peer.ping <= Interval - 1 + Wait + B
          /\ Idle("peer", wire) => peer.pong <= peer.ping + Half
      BY <1>1, <2>1 DEF KAInv, PeerWell, Pinging
    <2>3. /\ Judged("peer", wire', peer.pong + b, Interval + Half, G)
          /\ Idle("peer", wire') => Idle("peer", wire)
          /\ peer.pong + b <= Interval + Half + 2 * Turn + 2 * G + Delay - 3
      <3>1. Interval + Half \in Nat /\ Interval + Half >= 1
        BY Bounds
      <3> QED BY <1>1, <1>3, <1>4, <2>2, <3>1, Passed DEF Links
    <2>4. peer'.pong = peer.pong + b /\ peer'.pong \in Nat
      <3>1. peer.pong + b < KATimeout
        BY <1>3, <2>2, <2>3, Bounds DEF InTime
      <3>2. peer.pong # Never
        BY <2>2, Bounds
      <3> QED BY <1>3, <1>6, <1>7, <1>9, <2>2, <3>1, <3>2, Bounds
    <2>5. peer'.ping = peer.ping + b /\ peer'.ping \in Int
      <3>1. peer.ping + b <= Cap
        BY <1>3, <1>6, <2>2, Bounds DEF InTime, Ages
      <3> QED BY <1>3, <1>6, <1>7, <1>9, <2>1, <3>1, Bounds DEF Ages
    <2> QED BY <1>3, <1>6, <2>2, <2>3, <2>4, <2>5, Bounds DEF Ages
  <1>13. LiveIsKept'
    BY <1>5, <1>8, <1>9 DEF KAInv, LiveIsKept
  <1> QED BY <1>10, <1>11, <1>12, <1>13 DEF KAInv

\* What happens to the one link does not touch the other.
LEMMA Elsewhere ==
    ASSUME NEW l, NEW u, NEW v, v.owed[l] = u.owed[l], l \in v.unread <=> l \in u.unread,
           NEW s, NEW P, NEW G
    PROVE  /\ Idle(l, v) <=> Idle(l, u)
           /\ Rested(l, v, s, P, G) <=> Rested(l, u, s, P, G)
           /\ Judged(l, v, s, P, G) <=> Judged(l, u, s, P, G)
  <1>1. Idle(l, v) <=> Idle(l, u)
    BY DEF Idle
  <1>2. Underway(l, v, s, P, G) <=> Underway(l, u, s, P, G)
    BY DEF Underway
  <1> QED BY <1>1, <1>2 DEF Rested, Judged

\* A ping changes what is owed by the link it is sent on, and nothing else.
LEMMA PingedIs ==
    ASSUME NEW l \in Links, NEW u \in Wires
    PROVE  /\ Pinged(u, l) \in Wires /\ Pinged(u, l).dead = u.dead
           /\ \A k \in Links \ {l} : /\ Pinged(u, l).owed[k] = u.owed[k]
                                     /\ k \in Pinged(u, l).unread <=> k \in u.unread
  <1>1. CASE l \in u.dead
    BY <1>1 DEF Pinged
  <1>2. CASE l \notin u.dead
    <2>1. Pinged(u, l) = [u EXCEPT !.owed[l] = IF @ = 0 THEN 1 ELSE @]
      BY <1>2 DEF Pinged
    <2>2. u.owed[l] \in 0 .. Delay /\ 1 \in 0 .. Delay
      BY Bounds DEF Wires
    <2> QED BY <2>1, <2>2 DEF Wires
  <1> QED BY <1>1, <1>2

LEMMA CheckRelayKeepaliveHolds ==
    ASSUME NEW B \in Nat, NEW G \in Nat, InTime(B, G), KAInv(B, G), CheckRelayKeepalive
    PROVE  KAInv(B, G)'
  <1>1. /\ pc = "relay" /\ pc' = "peer" /\ gap \in Nat /\ gap' = gap /\ gap <= G
        /\ relay \in RelayStates /\ peer \in PeerStates /\ wire \in Wires
    BY DEF KAInv, KATyped, GapKnown, CheckRelayKeepalive
  <1>2. "relay" \in Links /\ "peer" \in Links \ {"relay"}
    BY DEF Links
  <1>3. GapKnown(G)'
    BY <1>1 DEF GapKnown
  <1>4. relay.recv \in Ages /\ relay.up \in BOOLEAN /\ 0 \in Ages /\ Never \in Ages
    BY <1>1, Bounds DEF RelayStates, Ages
  <1>5. ASSUME relay.up, "relay" \notin wire.dead
        PROVE  /\ relay.recv \in Nat /\ relay.recv < Timeout
               /\ relay.probe # Never => relay.probe \in Nat
               /\ Probed => ~Idle("relay", wire)
               /\ Judged("relay", wire, relay.recv, Probe, G)
    <2>1. /\ relay.recv \in Nat
          /\ relay.probe # Never => relay.probe \in Nat
          /\ Probed => ~Idle("relay", wire)
          /\ Judged("relay", wire, relay.recv, Probe, G)
      BY <1>1, <1>5 DEF KAInv, RelayWell
    <2>2. relay.recv <= Probe + 2 * Turn + 2 * G + Delay - 3
      BY <1>1, <1>2, <2>1, NotTooLong, Bounds
    <2>3. relay.recv < Timeout
      BY <2>1, <2>2, Bounds DEF InTime
    <2> QED BY <2>1, <2>3
  <1>6. ASSUME peer' = peer, wire' \in Wires, wire'.dead = wire.dead,
               wire'.owed["peer"] = wire.owed["peer"],
               "peer" \in wire'.unread <=> "peer" \in wire.unread
        PROVE  PeerWell(B, G)'
    <2> SUFFICES ASSUME Pinging
                 PROVE  /\ peer.pong \in Nat /\ peer.ping >= -Half
                        /\ Idle("peer", wire') => peer.pong <= peer.ping + Half
                        /\ Judged("peer", wire', peer.pong, Interval + Half, G)
                        /\ peer.ping <= Interval - 1 + Wait + B + G
      BY <1>1, <1>6 DEF PeerWell, Pinging
    <2>1. /\ peer.pong \in Nat /\ peer.ping >= -Half
          /\ Idle("peer", wire) => peer.pong <= peer.ping + Half
          /\ Judged("peer", wire, peer.pong, Interval + Half, G)
          /\ peer.ping <= Interval - 1 + Wait + B + G
      BY <1>1 DEF KAInv, PeerWell
    <2>2. /\ Idle("peer", wire') <=> Idle("peer", wire)
          /\ Judged("peer", wire', peer.pong, Interval + Half, G)
             <=> Judged("peer", wire, peer.pong, Interval + Half, G)
      BY <1>6, Elsewhere
    <2> QED BY <2>1, <2>2
  <1>7. CASE /\ ~relay.up \/ relay.recv < Probe \/ (relay.recv < Timeout /\ Probed)
             /\ UNCHANGED <<relay, peer, wire>>
    <2>1. relay' = relay /\ peer' = peer /\ wire' = wire
      BY <1>7
    <2>2. PeerWell(B, G)'
      BY <1>1, <1>6, <2>1
    <2>3. RelayWell(G)'
      <3> SUFFICES ASSUME relay.up, "relay" \notin wire.dead
                   PROVE  /\ relay.recv \in Nat
                          /\ relay.probe # Never => relay.probe \in Nat
                          /\ Probed => ~Idle("relay", wire)
                          /\ Rested("relay", wire, relay.recv, Probe, G)
        BY <1>1, <2>1 DEF RelayWell, Probed
      <3>1. Idle("relay", wire) => relay.recv <= Probe - 1
        BY <1>5, <1>7, Bounds
      <3> QED BY <1>5, <3>1 DEF Rested, Judged
    <2>4. KATyped' /\ LiveIsKept'
      BY <1>1, <2>1 DEF KAInv, KATyped, LiveIsKept
    <2> QED BY <1>3, <2>2, <2>3, <2>4 DEF KAInv
  <1>8. CASE /\ relay.up /\ relay.recv \in Probe .. (Timeout - 1) /\ ~Probed
             /\ relay' = [relay EXCEPT !.probe = 0]
             /\ wire' = Pinged(wire, "relay") /\ UNCHANGED peer
    <2>1. /\ relay' \in RelayStates /\ relay'.up = relay.up /\ relay'.recv = relay.recv
          /\ relay'.probe = 0 /\ peer' = peer
      BY <1>1, <1>4, <1>8 DEF RelayStates
    <2>2. /\ wire' \in Wires /\ wire'.dead = wire.dead
          /\ wire'.owed["peer"] = wire.owed["peer"]
          /\ "peer" \in wire'.unread <=> "peer" \in wire.unread
      BY <1>1, <1>2, <1>8, PingedIs
    <2>3. PeerWell(B, G)'
      BY <1>6, <2>1, <2>2
    <2>4. RelayWell(G)'
      <3> SUFFICES ASSUME relay.up, "relay" \notin wire.dead
                   PROVE  /\ relay.recv \in Nat /\ ~Idle("relay", wire')
                          /\ Rested("relay", wire', relay.recv, Probe, G)
        BY <1>1, <2>1, <2>2 DEF RelayWell, Probed
      <3> QED BY <1>1, <1>2, <1>5, <1>8, Asking, Bounds
    <2>5. KATyped' /\ LiveIsKept'
      BY <1>1, <2>1, <2>2 DEF KAInv, KATyped, LiveIsKept
    <2> QED BY <1>3, <2>3, <2>4, <2>5 DEF KAInv
  <1>9. CASE relay.up /\ relay.recv >= Timeout /\ RelayGone /\ UNCHANGED wire
    <2>1. "relay" \in wire.dead
      BY <1>5, <1>9, Bounds
    <2>2. /\ relay' = [up |-> FALSE, recv |-> Never, probe |-> Never]
          /\ peer' = [open |-> FALSE, direct |-> FALSE, ping |-> Never, pong |-> Never]
          /\ wire' = wire
      BY <1>9 DEF RelayGone, Closed
    <2>3. relay' \in RelayStates /\ peer' \in PeerStates /\ ~relay'.up /\ ~peer'.open
      BY <1>4, <2>2 DEF RelayStates, PeerStates
    <2>4. KATyped' /\ LiveIsKept' /\ RelayWell(G)' /\ PeerWell(B, G)'
      BY <1>1, <2>1, <2>2, <2>3 DEF KATyped, LiveIsKept, RelayWell, PeerWell, Pinging
    <2> QED BY <1>3, <2>4 DEF KAInv
  <1> QED BY <1>7, <1>8, <1>9 DEF CheckRelayKeepalive

LEMMA CheckWebRTCKeepaliveHolds ==
    ASSUME NEW B \in Nat, NEW G \in Nat, InTime(B, G), KAInv(B, G), CheckWebRTCKeepalive
    PROVE  KAInv(B, G)'
  <1>1. /\ pc = "peer" /\ pc' = "service" /\ gap \in Nat /\ gap' = gap /\ gap <= G
        /\ relay \in RelayStates /\ peer \in PeerStates /\ wire \in Wires /\ relay' = relay
    BY DEF KAInv, KATyped, GapKnown, CheckWebRTCKeepalive
  <1>2. "peer" \in Links /\ "relay" \in Links \ {"peer"}
    BY DEF Links
  <1>3. GapKnown(G)'
    BY <1>1 DEF GapKnown
  <1>4. /\ 0 \in Ages /\ Never \in Ages /\ Interval + Half \in Nat /\ Interval + Half >= 1
        /\ peer.open \in BOOLEAN /\ peer.direct \in BOOLEAN /\ peer.ping \in Ages /\ peer.pong \in Ages
    BY <1>1, Bounds DEF Ages, PeerStates
  <1>5. ASSUME wire' \in Wires, wire'.dead = wire.dead,
               wire'.owed["relay"] = wire.owed["relay"],
               "relay" \in wire'.unread <=> "relay" \in wire.unread
        PROVE  RelayWell(G)'
    <2> SUFFICES ASSUME relay.up, "relay" \notin wire.dead
                 PROVE  /\ relay.recv \in Nat
                        /\ relay.probe # Never => relay.probe \in Nat
                        /\ Probed => ~Idle("relay", wire')
                        /\ Rested("relay", wire', relay.recv, Probe, G)
      BY <1>1, <1>5 DEF RelayWell, Probed
    <2>1. /\ relay.recv \in Nat
          /\ relay.probe # Never => relay.probe \in Nat
          /\ Probed => ~Idle("relay", wire)
          /\ Rested("relay", wire, relay.recv, Probe, G)
      BY <1>1 DEF KAInv, RelayWell
    <2>2. /\ Idle("relay", wire') <=> Idle("relay", wire)
          /\ Rested("relay", wire', relay.recv, Probe, G) <=> Rested("relay", wire, relay.recv, Probe, G)
      BY <1>5, Elsewhere
    <2> QED BY <2>1, <2>2
  <1>6. ASSUME Pinging
        PROVE  /\ peer.pong \in Nat /\ peer.pong < KATimeout
               /\ peer.ping >= -Half /\ peer.ping <= 2 * KATimeout
               /\ Idle("peer", wire) => peer.pong <= peer.ping + Half
               /\ Judged("peer", wire, peer.pong, Interval + Half, G)
    <2>1. /\ peer.pong \in Nat /\ peer.ping >= -Half
          /\ Idle("peer", wire) => peer.pong <= peer.ping + Half
          /\ Judged("peer", wire, peer.pong, Interval + Half, G)
          /\ peer.ping <= Interval - 1 + Wait + B + G
      BY <1>1, <1>6 DEF KAInv, PeerWell
    <2>2. peer.pong <= Interval + Half + 2 * Turn + 2 * G + Delay - 3
      BY <1>1, <1>2, <1>4, <2>1, NotTooLong
    <2>3. peer.pong < KATimeout
      BY <2>1, <2>2, Bounds DEF InTime
    <2>4. peer.ping <= 2 * KATimeout
      BY <1>4, <2>1, Bounds DEF InTime, Ages
    <2> QED BY <2>1, <2>3, <2>4
  <1>7. ASSUME peer' \in PeerStates, wire' = wire, ~peer'.open \/ ~peer'.direct \/ peer'.ping = Never,
               relay.up /\ "peer" \notin wire.dead => peer'.open
        PROVE  KAInv(B, G)'
    <2>1. RelayWell(G)'
      BY <1>1, <1>5, <1>7
    <2>2. KATyped' /\ LiveIsKept' /\ PeerWell(B, G)'
      BY <1>1, <1>7 DEF KAInv, KATyped, LiveIsKept, PeerWell, Pinging
    <2> QED BY <1>3, <2>1, <2>2 DEF KAInv
  <1>8. relay.up /\ "peer" \notin wire.dead => peer.open
    BY DEF KAInv, LiveIsKept
  <1>9. CASE ~peer.open /\ UNCHANGED <<peer, wire>>
    BY <1>1, <1>7, <1>8, <1>9
  <1>10. CASE /\ peer.open /\ ~peer.direct
              /\ peer' = [peer EXCEPT !.ping = Never, !.pong = Never] /\ UNCHANGED wire
    <2>1. peer' \in PeerStates /\ peer'.open = peer.open /\ ~peer'.direct
      BY <1>1, <1>4, <1>10 DEF PeerStates
    <2> QED BY <1>7, <1>10, <2>1
  <1>11. CASE /\ peer.open /\ peer.direct /\ peer.ping = Never
              /\ \E j \in Jitter : peer' = [peer EXCEPT !.ping = -j, !.pong = 0]
              /\ UNCHANGED wire
    <2>1. PICK j \in Jitter : peer' = [peer EXCEPT !.ping = -j, !.pong = 0]
      BY <1>11
    <2>2. j \in Nat /\ j <= Half /\ -j \in Ages
      <3>1. j \in Nat /\ j <= Half
        BY KeepAliveAssumption, Bounds DEF Half
      <3> QED BY <3>1, Bounds DEF Ages
    <2>3. /\ peer' \in PeerStates /\ peer'.open /\ peer'.ping = -j /\ peer'.pong = 0 /\ wire' = wire
      BY <1>1, <1>4, <1>11, <2>1, <2>2 DEF PeerStates
    <2>4. RelayWell(G)'
      BY <1>1, <1>5, <2>3
    <2>5. Rested("peer", wire, 0, Interval + Half, G)
      <3>1. wire.owed["peer"] \in Nat
        BY <1>1, <1>2, Bounds DEF Wires
      <3> QED BY <3>1, Bounds DEF Rested, Underway
    <2>6. PeerWell(B, G)'
      BY <1>1, <2>2, <2>3, <2>5, Bounds DEF PeerWell
    <2>7. KATyped' /\ LiveIsKept'
      BY <1>1, <2>3 DEF KAInv, KATyped, LiveIsKept
    <2> QED BY <1>3, <2>4, <2>6, <2>7 DEF KAInv
  <1>12. CASE /\ peer.open /\ peer.direct /\ peer.ping # Never /\ Since(peer.pong) >= KATimeout
              /\ peer' = Closed /\ UNCHANGED wire
    <2>1. "peer" \in wire.dead
      <3> SUFFICES ASSUME "peer" \notin wire.dead PROVE FALSE
        OBVIOUS
      <3>1. peer.pong \in Nat /\ peer.pong < KATimeout
        BY <1>6, <1>12 DEF Pinging
      <3> QED BY <1>12, <3>1, Bounds DEF Since
    <2>2. peer' \in PeerStates /\ ~peer'.open
      BY <1>4, <1>12 DEF PeerStates, Closed
    <2> QED BY <1>7, <1>12, <2>1, <2>2
  <1>13. CASE /\ peer.open /\ peer.direct /\ peer.ping # Never /\ Since(peer.pong) < KATimeout
              /\ IF Since(Resynced(peer.ping)) < Interval
                 THEN peer' = [peer EXCEPT !.ping = Resynced(@)] /\ UNCHANGED wire
                 ELSE peer' = [peer EXCEPT !.ping = 0] /\ wire' = Pinged(wire, "peer")
    <2>1. CASE Since(Resynced(peer.ping)) < Interval
      <3>1. Resynced(peer.ping) \in Ages
        BY <1>4 DEF Resynced
      <3>2. /\ peer' \in PeerStates /\ peer'.open /\ peer'.ping = Resynced(peer.ping)
            /\ peer'.pong = peer.pong /\ peer'.direct = peer.direct /\ wire' = wire
        BY <1>1, <1>13, <2>1, <3>1 DEF PeerStates
      <3>3. RelayWell(G)'
        BY <1>1, <1>5, <3>2
      <3>4. PeerWell(B, G)'
        <4> SUFFICES ASSUME "peer" \notin wire.dead
                     PROVE  /\ peer'.pong \in Nat /\ peer'.ping >= -Half
                            /\ Idle("peer", wire) => peer'.pong <= peer'.ping + Half
                            /\ Rested("peer", wire, peer'.pong, Interval + Half, G)
                            /\ peer'.ping <= Interval - 1
          BY <1>1, <3>2 DEF PeerWell, Pinging
        <4>1. /\ peer.pong \in Nat
              /\ peer.ping >= -Half /\ peer.ping <= 2 * KATimeout
              /\ Idle("peer", wire) => peer.pong <= peer.ping + Half
              /\ Judged("peer", wire, peer.pong, Interval + Half, G)
          BY <1>6, <1>13 DEF Pinging
        <4>2. Resynced(peer.ping) = peer.ping /\ peer.ping <= Interval - 1
          BY <1>4, <2>1, <4>1, Bounds DEF Resynced, Since, Ages
        <4>3. Idle("peer", wire) => peer.pong <= Interval + Half - 1
          BY <1>4, <4>1, <4>2, Bounds DEF Ages
        <4>4. Rested("peer", wire, peer.pong, Interval + Half, G)
          <5>1. Interval + Half - 1 = (Interval + Half) - 1
            BY Bounds
          <5> QED BY <4>1, <4>3, <5>1 DEF Rested, Judged
        <4> QED BY <3>2, <4>1, <4>2, <4>4
      <3>5. KATyped' /\ LiveIsKept'
        BY <1>1, <3>2 DEF KAInv, KATyped, LiveIsKept
      <3> QED BY <1>3, <3>3, <3>4, <3>5 DEF KAInv
    <2>2. CASE ~(Since(Resynced(peer.ping)) < Interval)
      <3>1. /\ peer' \in PeerStates /\ peer'.open /\ peer'.ping = 0
            /\ peer'.pong = peer.pong /\ wire' = Pinged(wire, "peer")
        BY <1>1, <1>4, <1>13, <2>2 DEF PeerStates
      <3>2. /\ wire' \in Wires /\ wire'.dead = wire.dead
            /\ wire'.owed["relay"] = wire.owed["relay"]
            /\ "relay" \in wire'.unread <=> "relay" \in wire.unread
        BY <1>1, <1>2, <3>1, PingedIs
      <3>3. RelayWell(G)'
        BY <1>5, <3>2
      <3>4. PeerWell(B, G)'
        <4> SUFFICES ASSUME "peer" \notin wire.dead
                     PROVE  /\ peer.pong \in Nat /\ ~Idle("peer", wire')
                            /\ Rested("peer", wire', peer.pong, Interval + Half, G)
          BY <1>1, <3>1, <3>2, Bounds DEF PeerWell, Pinging
        <4>1. peer.pong \in Nat /\ Judged("peer", wire, peer.pong, Interval + Half, G)
          BY <1>6, <1>13 DEF Pinging
        <4> QED BY <1>1, <1>2, <1>4, <3>1, <4>1, Asking
      <3>5. KATyped' /\ LiveIsKept'
        BY <1>1, <3>1, <3>2 DEF KAInv, KATyped, LiveIsKept
      <3> QED BY <1>3, <3>3, <3>4, <3>5 DEF KAInv
    <2> QED BY <2>1, <2>2
  <1> QED BY <1>9, <1>10, <1>11, <1>12, <1>13 DEF CheckWebRTCKeepalive

LEMMA DiesHolds ==
    ASSUME NEW B \in Nat, NEW G \in Nat, KAInv(B, G), Dies
    PROVE  KAInv(B, G)'
  <1>1. /\ pc = "service" /\ pc' = pc /\ gap' = gap /\ relay' = relay /\ peer' = peer
        /\ wire \in Wires /\ KATyped
    BY DEF KAInv, KATyped, Dies
  <1>2. PICK l \in Links \ wire.dead :
          wire' = [wire EXCEPT !.dead = @ \cup {l}, !.owed[l] = 0]
    BY DEF Dies
  <1>3. /\ wire' \in Wires /\ wire'.dead = wire.dead \cup {l}
        /\ \A k \in Links \ {l} : /\ wire'.owed[k] = wire.owed[k]
                                  /\ k \in wire'.unread <=> k \in wire.unread
    <2>1. 0 \in 0 .. Delay
      BY Bounds
    <2> QED BY <1>1, <1>2, <2>1 DEF Wires
  <1>4. RelayWell(G)'
    <2> SUFFICES ASSUME relay.up, "relay" \notin wire'.dead
                 PROVE  /\ relay.recv \in Nat
                        /\ relay.probe # Never => relay.probe \in Nat
                        /\ Probed => ~Idle("relay", wire')
                        /\ Rested("relay", wire', relay.recv, Probe, G)
      BY <1>1 DEF RelayWell, Probed
    <2>1. /\ "relay" \notin wire.dead
          /\ wire'.owed["relay"] = wire.owed["relay"]
          /\ "relay" \in wire'.unread <=> "relay" \in wire.unread
      BY <1>3 DEF Links
    <2>2. /\ relay.recv \in Nat
          /\ relay.probe # Never => relay.probe \in Nat
          /\ Probed => ~Idle("relay", wire)
          /\ Rested("relay", wire, relay.recv, Probe, G)
      BY <1>1, <2>1 DEF KAInv, RelayWell
    <2>3. /\ Idle("relay", wire') <=> Idle("relay", wire)
          /\ Rested("relay", wire', relay.recv, Probe, G) <=> Rested("relay", wire, relay.recv, Probe, G)
      BY <2>1, Elsewhere
    <2> QED BY <2>2, <2>3
  <1>5. PeerWell(B, G)'
    <2> SUFFICES ASSUME peer.open, peer.direct, peer.ping # Never, "peer" \notin wire'.dead
                 PROVE  /\ peer.pong \in Nat /\ peer.ping >= -Half
                        /\ Idle("peer", wire') => peer.pong <= peer.ping + Half
                        /\ Rested("peer", wire', peer.pong, Interval + Half, G)
                        /\ peer.ping <= Interval - 1
      BY <1>1 DEF PeerWell, Pinging
    <2>1. /\ "peer" \notin wire.dead
          /\ wire'.owed["peer"] = wire.owed["peer"]
          /\ "peer" \in wire'.unread <=> "peer" \in wire.unread
      BY <1>3 DEF Links
    <2>2. /\ peer.pong \in Nat /\ peer.ping >= -Half
          /\ Idle("peer", wire) => peer.pong <= peer.ping + Half
          /\ Rested("peer", wire, peer.pong, Interval + Half, G)
          /\ peer.ping <= Interval - 1
      BY <1>1, <2>1 DEF KAInv, PeerWell, Pinging
    <2>3. /\ Idle("peer", wire') <=> Idle("peer", wire)
          /\ Rested("peer", wire', peer.pong, Interval + Half, G)
             <=> Rested("peer", wire, peer.pong, Interval + Half, G)
      BY <2>1, Elsewhere
    <2> QED BY <2>2, <2>3
  <1>6. KATyped' /\ GapKnown(G)' /\ LiveIsKept'
    BY <1>1, <1>3 DEF KAInv, KATyped, GapKnown, LiveIsKept
  <1> QED BY <1>4, <1>5, <1>6 DEF KAInv

LEMMA ChannelChangesHolds ==
    ASSUME NEW B \in Nat, NEW G \in Nat, KAInv(B, G), ChannelChanges
    PROVE  KAInv(B, G)'
  <1>1. /\ pc = "service" /\ pc' = pc /\ gap' = gap /\ relay' = relay
        /\ peer.open /\ (~peer.direct => peer.ping = Never)
        /\ peer' = [peer EXCEPT !.direct = ~@]
        /\ wire' = [wire EXCEPT !.owed["peer"] = 0, !.unread = @ \ {"peer"}]
        /\ peer \in PeerStates /\ wire \in Wires /\ KATyped
    BY DEF KAInv, KATyped, ChannelChanges
  <1>2. /\ wire' \in Wires /\ wire'.dead = wire.dead
        /\ wire'.owed["relay"] = wire.owed["relay"]
        /\ "relay" \in wire'.unread <=> "relay" \in wire.unread
    <2>1. 0 \in 0 .. Delay
      BY Bounds
    <2> QED BY <1>1, <2>1 DEF Wires, Links
  <1>3. /\ peer' \in PeerStates /\ peer'.open /\ peer'.ping = peer.ping
        /\ peer'.direct = ~peer.direct
    BY <1>1 DEF PeerStates
  <1>4. RelayWell(G)'
    <2> SUFFICES ASSUME relay.up, "relay" \notin wire.dead
                 PROVE  /\ relay.recv \in Nat
                        /\ relay.probe # Never => relay.probe \in Nat
                        /\ Probed => ~Idle("relay", wire')
                        /\ Rested("relay", wire', relay.recv, Probe, G)
      BY <1>1, <1>2 DEF RelayWell, Probed
    <2>1. /\ relay.recv \in Nat
          /\ relay.probe # Never => relay.probe \in Nat
          /\ Probed => ~Idle("relay", wire)
          /\ Rested("relay", wire, relay.recv, Probe, G)
      BY <1>1 DEF KAInv, RelayWell
    <2>2. /\ Idle("relay", wire') <=> Idle("relay", wire)
          /\ Rested("relay", wire', relay.recv, Probe, G) <=> Rested("relay", wire, relay.recv, Probe, G)
      BY <1>2, Elsewhere
    <2> QED BY <2>1, <2>2
  <1>5. PeerWell(B, G)'
    BY <1>1, <1>3 DEF PeerWell, Pinging
  <1>6. KATyped' /\ GapKnown(G)' /\ LiveIsKept'
    BY <1>1, <1>2, <1>3 DEF KAInv, KATyped, GapKnown, LiveIsKept
  <1> QED BY <1>4, <1>5, <1>6 DEF KAInv

LEMMA ReconnectHolds ==
    ASSUME NEW B \in Nat, NEW G \in Nat, KAInv(B, G), Reconnect
    PROVE  KAInv(B, G)'
  <1>1. /\ pc = "service" /\ pc' = pc /\ gap' = gap /\ KATyped
        /\ relay' = [up |-> TRUE, recv |-> 0, probe |-> Never]
        /\ wire' = [owed |-> [l \in Links |-> 0], unread |-> {}, dead |-> {}]
        /\ peer' = [open |-> TRUE, direct |-> TRUE, ping |-> Never, pong |-> Never]
    BY DEF KAInv, Reconnect
  <1>2. 0 \in Ages /\ Never \in Ages /\ 0 \in 0 .. Delay
    BY Bounds DEF Ages
  <1>3. wire' \in Wires /\ relay' \in RelayStates /\ peer' \in PeerStates
    BY <1>1, <1>2 DEF RelayStates, PeerStates, Wires
  <1>4. RelayWell(G)'
    BY <1>1, Bounds DEF RelayWell, Probed, Rested, Underway, Links
  <1>5. PeerWell(B, G)'
    BY <1>1 DEF PeerWell, Pinging
  <1>6. KATyped' /\ GapKnown(G)' /\ LiveIsKept'
    BY <1>1, <1>3 DEF KAInv, KATyped, GapKnown, LiveIsKept
  <1> QED BY <1>4, <1>5, <1>6 DEF KAInv

LEMMA KAStepHolds ==
    ASSUME NEW B \in Nat, NEW G \in Nat, InTime(B, G), KAInv(B, G), [KANext]_kaVars
    PROVE  KAInv(B, G)'
  <1>1. CASE UNCHANGED kaVars
    BY <1>1 DEF kaVars, KAInv, KATyped, GapKnown, RelayWell, PeerWell, Pinging, Probed, LiveIsKept
  <1> QED BY <1>1, ServiceHolds, CheckLoopStallHolds, ChecksHolds, CheckRelayKeepaliveHolds,
             CheckWebRTCKeepaliveHolds, DiesHolds, ChannelChangesHolds, ReconnectHolds
          DEF KANext, KATurn

\* A relay or a peer that answers its pings is never taken for dead, however
\* often the loop is blocked, by blocks of up to B in the handlers and of up to
\* G before the clocks are judged (directgate.c:2811).
THEOREM TheLiveAreKept ==
    ASSUME NEW B \in Nat, NEW G \in Nat, InTime(B, G)
    PROVE  KASpec => []LiveIsKept
  <1>1. KAInit => KAInv(B, G)
    BY KAInitHolds
  <1>2. KAInv(B, G) /\ [KANext]_kaVars => KAInv(B, G)'
    BY KAStepHolds
  <1>3. KAInv(B, G) => LiveIsKept
    BY DEF KAInv
  <1> QED BY <1>1, <1>2, <1>3, PTL DEF KASpec

=============================================================================
