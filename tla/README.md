# DirectGate: a verification project

DirectGate gives a user remote access to his own machines: an *agent* on the
machine, a *client* (browser or command line) elsewhere, a *relay* that carries
packets between them, and direct WebRTC connections once both sides found a
route. This directory models the parts of it whose correctness depends on the
order of events, checks the models with TLC and proves every safety property that
the runs check with TLAPS. Paths below are relative to the repository (`src/`
here); the program itself is in its directory `src/`.

## 1. The system

| Component (source) | State it keeps | Operations | What is hard about it |
|---|---|---|---|
| Encrypted channel (`common/e2e.c`, `protocol.c`) | counters per scope, transport epoch, four replay windows | stamp a packet, check a packet | the wire repeats, loses and reorders; epochs change; counters wrap |
| Agent sessions (`agent/session.c`, `directgate.c`) | session table, rate window, failures, lockout, temporary shares; per session the descriptors it registered | auth messages, start and stop of a mode, admin commands, housekeeping, teardown | many handshakes at once, time limits, shares replaced meanwhile; a refusal frees a session that is still in use |
| Key manager (`agent/keymgr.c`) | installed lease, generation; worker context under a lock | sync, poll, stop | two threads, changing inputs, late answers, hand-over at exit |
| WebRTC peer (`common/webrtc.c`) | event queue, active and pending peer connection, buffered candidates | offer, candidate, commit, library callbacks, queue | callbacks from library threads, queue limit, migration between routes |
| Relay link (`agent/directgate.c`) | reconnect attempt and time, keepalive ages, suppression | connect, upgrade, close, back-off, probes, stall check | timeouts after a blocked loop, refresh racing reconnect |
| Enrollment (`agent/enroll.c`, `config.c`) | tokens in memory and on disk, the refresh in flight | refresh, save, retry | a refresh token may be used once; a failed save; a crash between the two |
| Terminal (`agent/term.c`) | PTY or pseudo console, shell process, reap slots, pump threads | start, read, pause, resume, stop, reap | flow control, pid reuse, a shell that ignores the hangup, a pump that is stuck |
| Files (`agent/files.c`, `common/transfer.c`) | uploads, downloads, part files, the background operation | save, header, chunk, end, cancel, copy, delete | partial failure, late messages, a worker that outlives its session |
| Search (`agent/search.c`) | worker thread, bounded queue, pipe | start, batch, cancel, clear | closing while the worker writes or waits for room |
| Desktop (`agent/desktop/`) | capture and encoder threads, newest frame, held keys, display modes, audio ring | start, frame, key frame, input, select, resize, stop | several threads and locks, stale frames, lost key releases, buffers of somebody else |
| Launcher, elevated helper (`agent/launcher.c`, `desktop/elevated.c`) | the agent of a console session, the SYSTEM helper and its users | supervise, spawn, retire; attach, capture, detach | sessions change under it, readings are wrong, pipes break |
| Client (`client/client.c`) | connection, handshake, borrowed terminal | connect, authenticate, run, exit | refusals, signals and violations that meet |
| Client login (`client/login.c`, `webapi.c`) | session token in memory and file | sign in, refresh, log out | a rotating token, a run that is killed |
| Cryptography (`common/srp.c`, `keyauth.c`, `hkdf.c`, `siv.c`) | handshake values | challenge, proof, derive | arithmetic, not order |
| Manager (`manager/`) | a GUI around the agent | start, configure | none of its own |

How they interact: the agent's event loop calls one handler at a time for relay
frames, WebRTC events (queued by the library's threads and announced on a pipe),
PTY output, pipes of the workers and timers. A decrypted packet first passes the
channel's replay check, then the dispatcher, which looks its session up.
Authentication asks the key manager's installed lease; one housekeeping pass per
turn (`DirectGate_CheckAuthTimeouts`) syncs the key manager and ends the sessions
whose time is over; the same turn judges the links and collects a token refresh.
A new WebRTC route changes the generation with which the channel stamps its
packets. An authenticated session runs one mode (terminal, files, desktop), whose
worker threads reach the loop through descriptors the session registers.

What makes them correct, by component:

- channel: a packet is taken at most once; nothing of an old route follows
  something of a new one; reordering alone costs no packet;
- sessions: one authentication per share; no stage, mode or lifetime beyond what
  was granted; guessing is slow; slots come free again; descriptors are closed
  once, by their owner;
- key manager: the lease in force is one of the current enrollment; no input is
  forgotten; the context is freed once;
- WebRTC peer: no event of a dead peer reaches the session; a queue overflow ends
  the connection; the active route gives way to a better one only;
- relay link, enrollment: the agent comes back; a refresh token is presented
  once; a live link is kept and a dead one is cut;
- terminal, files, search: nothing is lost silently, nothing half done is left
  behind, workers end, what two sides share is freed by the last;
- desktop: the picture heals, sound keeps its time, keys and display modes go
  back to what they were, buffers return to the compositor;
- launcher, helper, client: the right program runs in the end, and reports
  success only for what it got.

## 2. The modules

| Module | Models | Of the code |
|---|---|---|
| `SecureChannel` | one direction of the encrypted channel | `Proto_AddCC` (the `Send...` actions), `Proto_AcceptHeaderCC` with `E2E_AcceptCC` (`Accept`, `Drop`), a change of the route (`NewTransport`) |
| `OnceChannel` | what the rest of the program expects of it | abstract: takes each packet once, epochs in order |
| `AgentSessions` | session table, authentication, shares, housekeeping | `session.c`; `HandleAuth`, `HandleCmd`, `HandleAdmin`, `HandleStatus`, `HandleClosed`, `CheckAuthTimeouts` of `directgate.c` |
| `SessionEndpoints` | the descriptors of a session and their endpoints | `session.c` (registration, `Session_Destroy`), the custom endpoints and `StartMode` of `directgate.c` |
| `ManagedLease` | the installed lease, as operators | `KeyManager_Install`, `_Clear`, `_IsAuthorized`, `_Recheck` |
| `KeyManager` | event loop and worker around the lease | the rest of `keymgr.c` |
| `WebRTCPeer` | the agent's WebRTC transport of one session | `webrtc.c` without media: `HandleOffer`, `HandleIceCandidate`, `CommitPending`, `Destroy`, `PromotePending`, the callbacks and `ProcessQueue`; `HandleWebRTC` |
| `RelayLink` | connection to the relay and the tokens | connect, upgrade, loss, reconnect, refresh (in line and on the worker), save, crash, restart: `directgate.c`, `enroll.c`, `config.c` |
| `KeepAlive` | silence and a blocked loop | the keepalive of relay and sessions, `CheckLoopStall` (`directgate.c`) |
| `Terminal` | the shell on POSIX | `term.c`: spawn, hangup, grace, `ReapPending`, `OnRead`, pause and `ResumeRead` |
| `ConPty` | the shell on Windows | `term.c`: pseudo console, two pumps, `JoinPumps` |
| `FileTransfer` | uploads and downloads | `transfer.c`; the save, transfer and cancel handlers of `files.c` |
| `FileOp` | copies and deletes in the background | `directgate_fileop_t` of `files.c` |
| `SearchWorker` | the search | `search.c` |
| `DesktopStream` | the picture on Linux | `stream.c`, `desktop.c`, `X11Enc` of `desktop_linux.c` |
| `DesktopAudio` | the sound | `audio.c`, `audio_linux.c`, `audio_win.c`, `opus.c` |
| `HeldKeys` | keys held down on Linux | `input.c` |
| `DisplayModes` | modes changed and put back | `display.c`, `stream.c` |
| `WaylandFrames` | buffers of the compositor | `desktop_wayland.c`, `wayland_capture.c`, the Wayland half of `desktop_linux.c` |
| `WinCapture` | the picture on Windows | `desktop_win.c`, `mfenc.c` |
| `Elevation` | the SYSTEM helper the pipelines share | `elevated.c`, the control thread of `launcher.c` |
| `Launcher` | the service's supervisor | `launcher.c` |
| `ClientSession` | a run of the client | `client.c` |
| `ClientLogin` | the client's account session over its runs | `login.c`, `webapi.c` |
| `MCTwoAgents`, `MCAgentSessions`, `MCChannels`, `MCLoop`, `MCLink`, `MCServices`, `MCDesktop`, `MCHosts` | instances for TLC | |
| `SecureChannel_`, `AgentSessions_`, `KeyManager_`, `WebRTCPeer_proofs` | theorems about the module of that name | |
| `RelayLink_proofs` | theorems about `RelayLink` and `KeepAlive` | |
| `Services_proofs` | theorems about the modules of `MCServices`: files, searches, terminals, descriptors | |
| `Desktop_proofs` | theorems about modules of `MCDesktop`: sound, keys, display modes, Wayland frames | |
| `Hosts_proofs` | theorems about the modules of `MCHosts`: client, login, launcher, helper, capture on Windows | |

`AgentSessions` and `KeyManager` both use `ManagedLease`. `AgentSessions` lets a
housekeeping pass do to the lease whatever `Synced` allows; `KeyManager` contains
the whole mechanism, and its action property `SyncsAsAssumed` (theorem
`SyncHolds`) says that it never does anything else. So the two are checked apart
and hold together.

**How the modules compose.** Most subsystems of a session share no variable with
each other: an upload and a shell interact with the loop, not with one another.
`MCLoop`, `MCLink`, `MCServices`, `MCDesktop` and `MCHosts` therefore hold
several modules with a variable `part`: a behaviour is about one part, and the
others stay in an initial state. The state space is the sum of the parts' and not
their product, and a property of one part is about exactly the behaviours it
would have alone. Where parts do interact, the interaction is inside one module:
the event loop and a worker, the session's end and the worker, the agent and the
API, the agent and the launcher. `MCTwoAgents` and `MCChannels` hold two
instances of one module with different constants in the same way, on the same
variables.

**SecureChannel.** `sent` is all the wire carries; a packet stays in it, so it can
arrive again, late or never. Packets have a unique id, which only the history
variable `times` and the properties look at. The counters are `% (CounterMax+1)`,
as `uint32_t` wraps. A bitmap is the set of its bits. The sender of the input
scope is the browser, which is not part of the repository (external).
`NewTransport` raises the generation: a client numbers its offers or does not
number any (the mixture is a hazard in PROJECT.json).

**AgentSessions.** A session is absent, in its handshake (`preauth`) or
authenticated as `full`, `managed` or `share`, a record with the fields that
matter in that stage. Each branch of `HandleAuth` is an action that contains
what every message passes through (`MayConsume`: lookup or creation, rate limit,
message limit). Whether a proof is right is a choice. A secret is the number of
the share provisioned with it (0 for the password), so `verifier` and the share's
`prov` may differ, as they do in the code. `Ending` and `CheckAuthTimeouts` are
one pass over all sessions. `localKeys` is the configuration's list. A refusal is
always possible in the model: organizations, malformed fields and failed sends are
not told apart. Not modelled: the start of a mode right after authentication
(`eRequestedMode` is set after it only, so those calls never run); the reset of a
lockout by a clock that jumps back (the clock is monotonic).

**SessionEndpoints.** `holder` says for each descriptor number what it is open
for. The loop knows an endpoint by its number only, closes what was registered
with it, and a failed registration has closed it already. `Others` are threads of
the process that open descriptors under the numbers that were freed: without them
a double close would be harmless. `life` walks through `Session_Destroy` in the
order of `Ending`.

**KeyManager.** Each action is one critical section of one thread. `Sync` is the
event loop's call, `Poll` and `Answer` are the two critical sections of a poll
around its request, `Finish`/`Free` and `StopWorker` the hand-over at exit.
`Reconfigure` is anything that changes the enrollment or the operator's setting.
`era` and `leaseEra` record in which enrollment a lease was asked for. `ttl = 0`
stands for a lease that is over by the time it comes.

**WebRTCPeer.** A callback of a library thread is one `Lib...` action: it changes
the state the library has (`peer`, `handle`) and queues an event. The loop takes
the queue in two steps, `StartTurn` (the pipe is read, the failure flag looked at)
and `Detach` (the list is taken), because callbacks run in between; then one
action per event, chosen by the head of `batch`. Events of channels and peers
pass two stages, as in the code: `OnDataChannel`, `OnHandleState`,
`OnIceStateChange` and `OnStateChange` check what a marshalled callback is about
and may queue a second event (`Forward`), which `DispatchOpen` and the others work
off in a later turn. `Destroy` empties `batch` as well: that is `pDispatchAlive`.
`slot` holds the handles of the channel, the input channel and the video track.
`DispatchData` and `Relay` both run `Signaling`: signaling arrives through either.
A handle is never used again (libdatachannel counts them up); `NoHandle` is -1.
`sent`, `delivered`, `applied`, `told`, `peerGen`, `direct` and `opened` only
record what happened, for the properties. Left out: RTP, whether the active route
is a relay, the local description and candidates.

**RelayLink.** A refresh token is a number that the API counts up. `cfg` is what
the process has in memory, `disk` what a restart would find; a save writes all of
`cfg` or nothing. A refresh is two steps, the API's (it rotates) and the agent's
(it takes the answer over), and the answer may be lost in between; in line both
lie in one handler, on the worker in `RefreshWorker` and `CollectTokenRefresh`.
Timers are `waiting` or `due`. `HandleError` is an error frame of the relay, which
is noted and not acted on; `Crash` ends the process at any step. `blameless` records that no answer
was lost and no process ended with a token unsaved; the property needs it to say
whose fault a revocation was.

**KeepAlive.** The code keeps time stamps; the model keeps their ages, which are
capped where no comparison tells them apart any more, and only after the stall was
taken off. A turn waits, works, forgives a stall, checks sessions and tokens, then
judges; the work may block for one of `Blocks`, the checks for one of `LateBlocks`.
`link` gives them the largest values for which a live link is kept (`InTime`,
section 4): a loop that is blocked beyond twice a peer's timeout in every turn
starts the ping schedule anew each time (`directgate.c:2957-2962`) and never asks
the peer whether it lives.

**Terminal, ConPty.** One terminal whose shells follow each other. A shell that
was hung up keeps a reap slot, is killed after its grace, and is reaped by the
loop; the pid is free again afterwards. The read end is level-triggered; while
reading is paused the loop looks at nothing but the hangup. On Windows a pump
works on its handles until it leaves, and a pump that cannot be joined keeps them.

**FileTransfer.** The peer is part of the model (`peer`, `inbox`, `outbox`): it
asks where to save, sends the header, chunks and the end, and may cancel at any
moment, so that messages cross. A file is whose bytes it holds and whether all of
them are there. Foreign processes create files meanwhile.

**FileOp, SearchWorker.** Each action is one critical section of the loop or of
the worker. `refs`, `orphaned` and the pipe's ends are the fields of the shared
records; `harm` records a use after the last reference or a write without a
reader. What is found or copied is a number or an outcome.

**DesktopStream.** A frame is a key frame or a delta that refers to the one
before; `gap` says that the viewer misses one. The worker's pass is several steps
(`Look`, `Claim`, `Publish`), since the request for a key frame is an atomic
flag it reads first; the mailbox holds the newest frame. Everything that disturbs
a stream (losses, backlogs, failures, a restart of the encoder) spends from one
budget.

**DesktopAudio.** A frame carries the time it was recorded at (`at`) next to the
stamp the code gives it (`pts`), so the property compares the two. The half frame
is the remainder a backend carries over.

**HeldKeys.** A key event names a code and what it means; a meaning is the
position or a symbol, and changes at any time, also while the key is down
(`LayoutChanges`). Scratch keycodes are used least recently used first.
`RememberKey` loses two kinds of keys that are down: those of a press without a
code (`input.c:680`), and the key a code went in as before when it is pressed again
with another meaning (`682-689`). `strays` records exactly those, and the property
excepts them.

**DisplayModes.** `plugged` is the host's list and `host.list` the one last
enumerated. Any monitor may be unplugged, so an id may come to mean another one:
the request that follows then switches that one while the mode remembered is of
the first. `host.astray` records such monitors, `moved` that the list moved up.

**WaylandFrames.** A buffer is `<<stream, number>>`. The lock of a PipeWire loop
is held while a callback runs, which is what `loop` says; the frame lock is never
held across a step. The thread of the event loop opens and closes streams and may
have to wait for either.

**WinCapture.** A pass of the capture thread is its steps `top`, `gate`, `take`,
`capture`, `encode`, `idle`; what a hardware encoder holds back is a sequence of
Booleans, true for a key frame; duplication, GDI and the helper replace one another.
The encoder's knob for a key frame may do nothing (`Forced`), and frames that were
announced may fail to come out (`After`, `Refused`, `Idle`); `lost` records that one
of the two happened since the last request (`Loses`).

**Elevation, Launcher.** Both sides of the control pipe are part of the model. An
`Attach` sends a request and waits with a timeout; the launcher's thread spawns a
helper and answers, perhaps too late. `leaked` counts the attachments whose pipeline
is gone without a `Detach`: that of a rectangle that turned out empty, and that of a
thread that hung and was given up on, which is taken to stay where it hangs. In
`Launcher` the sessions of Windows have an occupant, a session may end around a
process that goes on running, and a bounded number of readings come back wrong;
`CheckPreLogon` has a disjunct for each way a reading may mislead it.

**ClientSession, ClientLogin.** What host, relay and API say is an input, checked
for what the code checks; `host` records what the host did: whether it accepted the
proof, had nobody logged on, gave or refused the shell it was asked for, authorized
the key. Authentication alone gives no shell: the request for one may fail to be
sent, and the host may refuse it and close the session (`HostAnswers`,
`HandleStatusMsg`).
`ClientLogin` lets one run follow another on the same account file; any of them
may be killed at each step.

## 3. The runs

| Run | Shows | Bounds, and why they are enough |
|---|---|---|
| `sessions` | a share admits one session and a revoked one none; a pass leaves nothing stale | 3 clients, 2 ids for 1 slot, 2 provisionings, 2 messages a handshake: two handshakes open across a replacement; 2 keys, a generation that wraps after 2, 4 ticks, handshakes that run out after 2 |
| `throttle` | guessing is slow, lockouts end | 3 numbers for 2 slots, 1 local key, grace 1, lockouts of 2 and 3 ticks, 6 ticks: failures before, during and after a lockout, and the rate window starts again |
| `migration` | nothing of a retired peer or an ended session is worked off, readiness is announced, an active peer gives way only to a better one | 2 peers, a session that turns to the desktop or is in it, 3 changes of the network: each peer gets its route and the active channel is lost; a queue of 2 overflows; 1 message, which may do anything |
| `channels` | no message is skipped and a lost channel is noticed; candidates reach their peer and no handle leaks | 2 peers, 2 channels each, 2 messages, a queue of 1: any two events in a row overflow; all labels, 2 generations, place for 1 candidate |
| `loop` | the lease in force is current, the worker answers and ends, its context is freed once; slots come back | 1 organization to ask for, 2 a lease can be for, 2 changes of the configuration, so that it is left and joined again; 2 sessions, handshakes and shares that run out within the clock |
| `link` | the channel drops no packet it should take, and implements `OnceChannel`, that is at most once and epochs in order; no request of its own costs the enrollment; the agent comes back or was revoked; a live link is kept and a dead one cut | 5 packets, 3 epochs, counters to 3 with a window of 2: a counter wraps, leaves the window, and meets an epoch change in one behaviour; 2 relays, 3 tokens, 3 troubles: a loss, an aged token and a crash in one behaviour; no block and one of 24 before the stall check, 0 and 1 after it, at the bound of `InTime`; ages past both timeouts |
| `services` | uploads commit at once and leave no litter; a search's words in order; operations shared safely; signals, handles and descriptors only of one's own; nothing is stuck | 2 targets, 2 uploads of 2 chunks, 1 fault, 1 foreign file; 2 searches of 3 matches through a queue of 1 in batches of 2; 3 operations; 3 shells for 1 reap slot, 6 chunks of output through a high water of 3; 5 descriptor numbers for 5 kinds and 2 others |
| `desktop` | sound, keys, modes, buffers and picture, as in section 1 | 2 encoder failures, 4 disturbances; 2 codes, 3 symbols, 1 scratch keycode and a table of 1: both overflow, and meanings change while a key is down; 3 monitors, 3 modes, 2 unplugged, in any order; 5 frames through a ring of 2, 2 starts; 2 streams of 2 buffers that renegotiate |
| `hosts` | the exit status is true; a session that works is kept; the user's agent is spared, the stand-in leaves, one runs in the end; the helper is counted; a key frame is owed | 3 runs and 4 tokens; 2 sessions, 2 events, 2 wrong readings, periods of 1 to 3 ticks; 2 pipelines, 3 helpers, 1 attachment left behind; 2 encoders, 2 stalls, 1 frame held back |
| `secret`, `latecancel`, `exit` | each violates one statement of a comment | see section 5 |

`CHECK_DEADLOCK FALSE` stands where the system ends or comes to rest: the agent in
`loop` and `link`, the session in `migration`, `channels`, `services`, `desktop` and
`latecancel`, the client and the service in `hosts`, the client in `exit`. All
counters that the code leaves unbounded (time, provisionings, changes of the configuration, packets,
peers, uploads, runs, troubles) are bounded by a constant in a guard, named
`Max...` or described as a bound in the module that declares it. A liveness
property speaks only of what happens before a bound: of sessions whose time is
over before the clock's, of an agent after its last trouble.

Every module has one type invariant (`...TypeOK`). Most of them are theorems
(section 4), stated or as a part of an inductive invariant; the runs do not list
them and spend their time on what could really be wrong.

Fairness, and why the code has it:

- `loop`: the housekeeping pass and the clock (the loop calls it on every turn and
  waits with a timeout); `Sync` and the bounded wait of `StopWorker`; the worker,
  whose HTTP request ends by its timeout.
- `channels`: the loop polls the pipe and runs a turn to its end. Nothing of the
  library's threads.
- `link`: the timers run out, a killed process is restarted by its service, the
  HTTP request of the refresh ends. `SF` for `Connect`: the relay is reachable
  again and again, and then an attempt succeeds sooner or later; without it no
  program can come back. In the same way `SF` for an attempt that learns of a
  revocation. The turns of the loop for the keepalive.
- `services`: the search's worker and the loop are scheduled; the terminal's read
  event, its resumption, the draining of the link and the reaping; a shell that
  was sent SIGKILL dies.
- `desktop`: the loop, the capture worker's steps and a frame that carries what was
  asked for; the PipeWire loops' callbacks (weak); encoder and event loop with
  `SF`, since they wait for a lock that is free again and again.
- `hosts`: the supervisor's ticks, which include that the configuration is paired in
  the end; and a sign-out that has begun ends, although the agent still lives in
  that session (`launcher.c:1275-1280` tells of one that did not end before its agent
  was retired). An agent in a session that is `closing` counts as reached, but no
  session stays so.

Nothing is assumed of clients, viewers, the API or the user.

Every property has a mutant in PROJECT.json: the code with one plausible mistake,
for which TLC finds the property violated. A property that joins two parts has one
for each where that says more.

## 4. What is proved

Every safety property of the passing runs, invariant or action property, is a
theorem: for all values of the constants that satisfy the modules' assumptions,
each of which only says what the C constants are (`FramesAssumption`,
`AudioAssumption`, `KeysAssumption` and the like: a limit is a positive number, the
null pointer is not a buffer). Nearly none of the properties is inductive; what
follows is what had to be added. One theorem has a hypothesis: `TheLiveAreKept`
assumes `InTime(B, G)`. A turn may block for up to `B` before the stall check and
for up to `G` after it, and a ping that is sent in time, with its answer's delay and
what is not forgiven, fits into the timeout. With the values of the code (relay
probed after 20 s and lost after 60 s, stall limit 1 s, interval 25 s, so a timeout
of 75 s) that leaves about two minutes for `B` and more than ten seconds for `G`
with an answer's delay. TLC finds a live peer cut once a block is beyond the last
bound.

By module:

- `SecureChannel_proofs`: `TypeCorrect`, `PacketsAtMostOnce`, `EpochsOrdered`,
  `SenderKeepsUp`, `ChannelImplementsOnce`, `NothingIsRefusedUnfairly`. At most
  once is not inductive: `OnceInv` adds that every packet handed up is *recorded*,
  that is stale or covered by its window (`Covers`: at or below the highest counter,
  and below the window or marked). The lemmas `MarkCovers` and `MarkKeeps` say that
  marking a counter covers it and uncovers none; `AcceptKeeps` and `DropKeeps`
  carry this through epoch changes. The refinement follows from the same invariant.
  No false rejection is its converse (`FairInv`): until a wrap the numbers of a
  stream are unique, and a window holds only counters of packets handed up.
- `AgentSessions_proofs`: `TypesHold`; `SharesAdmitOnce`, from `ShareInv`: a
  provisioning that was redeemed has no usable entry left, and no two entries
  share one; `ModesHold`; `RevocationHolds`; `GenerationHolds`, from `LeaseInv`
  and the lemma `GenerationTells` (a set that changed has another generation,
  since `GenMax >= 2` and a pass moves it at most twice); `PassHolds`;
  `LockoutHolds`; `GuessingIsSlow`, from `ThrottleInv`: past the grace the lockout
  lasts at least its base from the first failure on, and while it does, failures
  and open handshakes together do not exceed the grace and the size of the table (a
  failure closes its handshake, and none is opened under a lockout).
- `KeyManager_proofs`: `TypesHold`; `LeaseHolds`, from `EraInv`: an answer with
  the current version was asked for in the current era; `SyncHolds`, the
  assumption of `AgentSessions`; `FreedOnce`, from `FreeInv`, which says for each
  place of the two threads who still may free.
- `WebRTCPeer_proofs`: `TypesHold`, from `TInv` (the types hold step by step only
  because a background peer that is gone is not marked direct);
  `CandidatesReachTheirPeer` and `EpochsRise`, both from `GenInv`: a peer in place
  has the generation of its offer, a background peer a later one than the active
  peer, and a peer not yet created has no candidates. The lemma `GenKept` covers
  the steps that keep the pair of peers, let go of the background one or of
  both, or promote; `OfferPendingGen` and `OfferActiveGen` those of a new offer.
  `NoHandleIsForgotten` and `TheEndIsFinal` share `HandlesInv`, which says of each
  handle where it is: in a slot of the peer it is of, in the one notification it
  came with, or gone. `NothingIsSkipped` follows the messages of a channel through
  queue and batch (`Stream`): with those delivered they are numbered without a
  gap, until a failure is flagged and the rest discarded. `OneRouteServes` and
  `ReadinessIsTold` build on both; the latter needs that a session in desktop mode
  stays in it to its end, as `HandleOffer` says after the code
  (`directgate.c:1110-1111`, `session.c:890-899`).
- `RelayLink_proofs`: `ReuseHolds`, `SavesAreOwed`, `NeverIsStranded`,
  `TheApiRevokes`. That no request reads as reuse is not inductive: `RelayInv`
  adds that while the agent is blameless the token the API expects is the one in
  memory, or the one the answer under way carries (`Coming`), and that what
  memory has beyond the disk is marked for saving. A handler is a chain of calls,
  so the proof follows a token through the chain (the lemmas over `Follows` and
  `After`) and needs one lemma per call instead of one per path.
  `TheLiveAreKept`, from `KAInv`, which bounds at each stage of a turn how long a live
  link may be silent (`Rested`, `Listened`, `Judged`): less than its schedule if
  nothing was asked, else by the age of the question, which has an answer by its
  delay.
- `Services_proofs`: `FileTypesHold`, `LeavesNoLitter`, `CommitsAtOnce`. No litter
  is not inductive: `FilesInv` adds that a granted path always comes with its
  temporary file (`GrantHolds`), and that a transfer owns its file exactly while it
  receives, that file being the granted one or one in the agent's directory
  (`OwnHolds`). So what a cancellation or an end removes (lemma `Removing`) is never
  a target. All ways to let go of a file share the lemma `Released`; what remains is
  one lemma per message. `OpTypesHold`, `OperationsAreSharedSafely`, from `OpInv`:
  the references of an operation are its holders, the pipe has a reader as long as
  the worker may write, and an operation not asked for yet is untouched.
  `SearchTypesHold`, `SearchIsToldInOrder`: what was told, what is in the batch and
  what is queued follow each other without a gap. `TermTypesHold`,
  `TerminalsAreSafe`: a pid is the shell's from its start to its reaping, and each
  of the ways to hold it excludes the others. `DescriptorsHold`: who holds a number,
  what the loop has registered and what the session names agree.
- `Desktop_proofs`: `AudioTypesHold`, `SoundIsTrue`: the sample position is the number
  of frames read, and what was given away is in the ring in its order
  (`ClockIsRight`, `RingIsInOrder`). `KeyTypesHold`, `KeysAreLetGo`:
  what is down is in the table or was lost by `RememberKey`, and pins its scratch
  keycode. `ModeTypesHold`, `ModesAreGivenBack`, which need that ids and handles
  agree as long as nothing moved up. `BuffersAreReturned`, from
  `FramesInv`: the *places* a buffer may lie in (the hands of each stream's
  callback, slot, encoder, the two threads that give back) hold no buffer twice, and
  hold exactly what is out (`Linear`); who has a buffer knows its stream
  (`OwnersKnown`), a thread holds something only where it is about to give it back
  (`AtRest`), and what is in the slot of a stream that is left is not that stream's
  (`Screens`). Every step then moves, swaps or gives back (`SwapLinear`,
  `RotateLinear`, `GiveLinear`, `TakeLinear`).
- `Hosts_proofs`: `ClientTypesHold`; `StatusIsTrue`, from `ClientInv`, where
  `FlagsHaveReasons` says for each flag what the host did before it was set;
  `FallbackIsAsked`. `LoginTypesHold`, `WhatWorksIsKept`. `LauncherTypesHold`,
  `StandInIsSentAway`, `TheLiveAreSpared`. `BridgeTypesHold`, `HelpersAreCounted`:
  the count is that of the users, of the attachments left behind and of the call
  under way, and a thread waits only on behalf of a pipeline that is attached.
  `CaptureTypesHold`, `KeyFramesComeThrough`: the request is in one of the places
  between viewer and encoder, or what it asks for is in the encoder's queue, or the
  encoder lost it.

Only model-checked: the liveness properties (`WorkerAnswersAndEnds`, `SlotsComeBack`,
`LossIsNoticed`, `LinkIsRestored`, `NothingIsStuck`, `PictureHeals`,
`NobodyWaitsForGood`, `ComesOnline`), which need fairness and ENABLED and are out of
the prover's reach. Sequences (`ToldInOrder`, `NoGap`, the stamps of `SoundHolds`) are
proved by their indices, not by induction over data.

## 5. Where the code and its documents differ

With a run (findings in PROJECT.json):

- `secret`: `directgate.c:2134` says that a consumed share "cannot replay". The
  proof looks the share up by its id; when that id was provisioned again since the
  hello, the old secret's proof is accepted a second time and uses up the new share.
- `latecancel`: `files.c:1874` says that "a delayed message from a previous transfer
  must not cancel the current upload or clear its pending commit path". The id of a
  transfer that ended stays in the session, so a delayed cancellation of it does
  clear the path that was granted since, and the upload lands in the agent's
  working directory.
- `exit`: `client.c:107-108` says of `bSessionFailed`: "Ended in a way a script has to
  be able to see even after a login: the host could not give what was asked for, or
  broke the protocol." A host whose shell does not start closes the session
  (`session.c:823-828`, `841-848`), the client hears "closed" (`client.c:895-903`)
  and exits with success, since nothing sets the flag. The same holds for a
  request that could not be sent (`client.c:648-649`, `766-767`).

Without one:

- `security.md:25`: the receiver "rejects duplicates or regressions". It rejects
  duplicates; a smaller counter inside the window is accepted (`e2e.c:63`), and has to be.
- `keymgr.h:63`: the deadline is "never later than LEASE_MAX after the response
  arrived". It counts from the `Sync` that takes the response over (`keymgr.c:307`).
- `input.c:671-675`: what was pressed is what is released. A code that is pressed
  again after its meaning changed overwrites its entry (`input.c:682-689`), and a
  press without a code is injected and not remembered (`input.c:680`): these keys
  stay down when the session ends. `EndsClean` says that no others do.
- `display.c:154`, `stream.c:643`: the mode is remembered for a monitor's id, and
  ids move up when a monitor in front is unplugged. A request for the id then
  switches another monitor, and the end of the session puts only the first one
  back, while `tests/desktop_x11_smoke.c:350` expects that leaving restores the
  original mode. `HostGetsItsModeBack` says that this is the only way.
- `elevated.c:426-428`, `515-518`: the helper goes with the last user, "never under
  one". A helper whose pipe broke is not ready any more, and the next `Attach`
  closes its handles (`455`) although the capture thread of another session may wait on
  its event. `HelperIsCounted` is about a helper that answers.
- `desktop_win.c:1249-1253`, `1176-1181`: an empty rectangle, or a thread that does not
  end in time, leaves its attachment counted, and the helper runs until the agent
  ends. A thread that hung and goes on later could still enter the bridge
  (`1061`) of what has been let go since; the model lets it hang for good.
- `mfenc.c:194-205`, `1220-1221`: the result of asking the encoder for a key frame is
  ignored, and access units that fail to come out are gone (`1094-1151`). The
  viewer's decoder then waits until the viewer asks again.
- `term.c:868-871`: a shell that is hung up while the reap queue is full is killed, and
  if it has not ended at that moment, nobody reaps it ("rather than lose track of the
  child"). `ShellsAreReaped` excepts these.
- `elevated.c:364-366`: one requester and one responder, "so there is nothing to
  interleave with". A request gives up after 5 seconds, and the answer that comes
  later is read as that of the next request; the handles in it are adopted.
- `client.c:411-417`: an update that is dropped before authentication "is resent
  once the session is up". `SendResize` (`1204-1254`) takes the dropped one for sent
  and does not repeat a size that has not changed.
- `desktop_wayland.c:897-899`: "nothing is racing for it", since the encoder was
  stopped; but the stream's own loop thread may still replace the frame in the slot.

Further behaviours a maintainer may want to look at, which no property states:
two viewers share one helper, and the stop of one ends the other's bridged capture
(`elevated.c`); mouse buttons held at the end of a session are never released
(`desktop.c:748`); on Windows and macOS held keys are not tracked at all.

## 6. Not modelled, and the plan

Not modelled:

- Cryptography (`srp.c`, `keyauth.c`, `hkdf.c`, `siv.c`) and codecs: computation, no
  order of events. The models take the result as an input.
- Framing and parsing (`protocol.c` beyond the counters, JSON, RTP, WebSocket, TLS):
  single calls without state of their own.
- `wayland_wlr.c` (the copying backend of wlroots), the portal's dialog, `hwenc.c` and
  the bitrate control, the pointer, macOS (`desktop_mac.*`): drivers around
  libraries; what they have of threads and buffers is the pattern of
  `WaylandFrames` and `WinCapture`.
- Of the terminal, input to the shell, the window size and the working directory; of
  the file manager, listing and creating: one call, one answer.
- Installing the service, the manager GUI, the logger, the interactive set-up.
- Several processes of the client at once on one account file; several desktop
  sessions at once except in `Elevation`.

The plan from here, in this order:

1. An abstract specification above `WebRTCPeer`: a sequence of routes without
   messages of a retired one, whose changes are `NewTransport` of `SecureChannel`;
   and one above `FileTransfer`: a target that changes in one step. Both with the
   invariants of section 4 as the refinement's.
2. The safety half of the liveness properties: that a thread which waits is always
   waited for by none that it waits for (`NobodyWaitsForGood`), that a worker which
   has ended has said so.
3. Larger instances: two desktop sessions at one host, two concurrent runs of the
   client.
