# Verification of the CPA ChatGPT-image plugin

TLA+ modules that model the plugin and its helper, the TLC configurations that
check them on small instances, and theorems that TLAPS proves for every value
of the constants. Paths and line numbers are those of the repository.

## 1. Inventory

The plugin is a C shared library written in Go. The host (CPA) loads it and
calls it from any number of threads. It starts one Python process, the
*helper*, and talks to it over a pair of pipes. The helper performs an image
request as a ChatGPT web conversation of one of the host's accounts.

```
 host threads ──> abi.go / plugin.go ──> executor.go ──> helper_client.go
                   plugin object,         credentials,     pending calls,
                   slots, leases          deadline, retry  process, reader
                                                               │ frames over
                                                               │ stdin/stdout
  helper/main.py ──> helper/control.py ──> helper/protocol.py ─┴> helper/backend.py
  request loop,      cancel, sessions      images, credentials     one conversation
  worker pool                              locks, cooldowns
```

| component | state | operations | what is hard |
|---|---|---|---|
| Helper client (`helper_client.go`) | `cmd`, `stdin`, `stdout`, `pending`, `nextID`, one channel per call | `Call`, `cancelCall`, `Close`, `Restart`, `ensureStarted`, `readLoop`, `failProcess` | `c.mu` is released between every two steps; the process may die at any of them; several goroutines report the same failure |
| Plugin lifecycle (`plugin.go`, `abi.go`) | `abiState`, the plugin object, its configuration and slot, the slots' leases | `register`, `reconfigure`, `shutdown`, `acquireHelper`, `retire` | reconfiguration and shutdown under running requests |
| Request execution (`executor.go`, `credentials.go`, `host.go`) | one request's deadline, attempt and credentials | `executeHelper`, `loadCredentials`, `remainingTimeoutSeconds` | credentials change while they are read; the second attempt shares the first one's deadline |
| Helper server (`helper/main.py`, `helper/control.py`) | `_active_controls`, the event and resources of each `RequestControl` | the frame loop, `process_request`, `cancel` | cancel against registration, the worker queue, end of input |
| Credential scheduling (`helper/protocol.py`) | cursor, locks and cooldowns of all requests | `handle_images`, `generate_one`, `rotate_credentials` | images of concurrent requests go round the same credentials with locks they do not wait for |
| Web image flow (`helper/backend.py`, `helper/errors.py`, `generate_with_credential`) | one conversation, the lines and events of its stream, the inputs on their way | normalise, composite, upload, sentinel, start, event stream, poll, download, hide | failure and expiry at every step; several servers; frames that straddle lines |
| Image request parsing (`helper/protocol.py`) | none | `parse_image_request` | conversions that raise what nobody catches |
| Embedded helper cache (`embedded_helper*.go`) | a file in the user's cache and in the temporary directory | extract, verify, rename | several hosts at once, crash in the middle, failing rename |
| Configuration (`config.go`) | none | `parseConfig`, `resolveHelperPath` | - |
| Proof of work, turnstile (`helper/pow.py`, `helper/turnstile.py`) | none | hash search, token interpreter | - |
| Platform files, build, tests | none | - | - |

What makes the components correct:

- *Helper client*: every call gets exactly one answer or its deadline; nobody
  blocks on a call that is gone; a dead helper is noticed and replaced; no
  process leaks.
- *Plugin lifecycle*: a request runs with the configuration of the helper it
  leased; a replaced helper finishes its requests and is then closed; nothing
  starts it again.
- *Request execution*: no credential is sent that expires before the request;
  plugin and helper agree on the deadline; an authentication error is genuine.
- *Helper server*: a cancel reaches every session, present or future, ends the
  request, and blames no credential for it.
- *Credential scheduling*: one image per credential, none while it cools down,
  every credential tried before giving up, and always an answer.
- *Web image flow*: it ends when its time is up, uploads every input once under
  its own mask, makes of the stream's lines the events they spell, and blames the
  account only for the account's own answers.
- *Embedded helper cache*: no path ever holds half a helper, and one that was
  given away keeps its file.

`PROJECT.json` lists every hazard of the code at its line with the properties
that would catch it going wrong, and says why where there is none.

## 2. Modules

Every module models one component at the grain at which its threads interleave:
what is under one lock, or touches no shared state, is one action. Actions are
named for the function or the branch they stand for. A definition whose comment
says *Mutant* is not part of the specification: it is a plausible mistake in the
definition that follows it, kept to see that a property notices.

- **CallContract**: the abstract specification of the helper client. A call of
  each goroutine is open, sent, answered, failed, expired or returned; there is
  no map, no process and no reader. It says what `helperClient.Call` promises.
- **HelperClient** (`helper_client.go`). Goroutines are the callers, the
  closers, and one reader for each process. `Call` is `AlreadyStarted`/`Start`
  (`ensureStarted`), `CallRegister`, `CallWrite...`, then `CallReceive` or
  `CallExpire` and the three `Cancel...` steps of `cancelCall`. `failProcess` and
  `Close` are `TakeOver` under the lock, then `Kill` and `Notify` outside it.
  `readLoop` is `Read...` and `Deliver`. The helper is external: it answers in
  any order, or exits. `Restart` only calls `Close`. The instance `Contract` maps
  its state to CallContract's: what a call has become is read off its goroutine's
  control point, its channel and the goroutines that hold its request.
- **HelperLeases**: the abstract specification of the plugin as a request sees
  it. A helper is open, retiring, retired, shutting or shut; requests join and
  leave it; there are no plugin objects, no host table, no goroutine of `retire`.
- **PluginLifecycle** (`plugin.go`, `abi.go`). `Register` and `Reconfigure...`
  run under `abiState`'s lock; `Shutdown...` are the three critical sections of
  `CPAImagePluginShutdown`; `TakePlugin`, `Acquire`, `LoadCredentials`,
  `CallStartsHelper`, `Retry` and `Release` are an `executor.execute`. The
  goroutine of `retire` is `RetireWait` and then `Retire`: a slot whose wait group
  was seen empty is `drained` until it is closed, and requests, reconfigurations
  and a shutdown may come in between. That none of them brings a lease back is no
  guard of `Retire`: it is what `Acquire` and the current slot are for. Plugin
  objects and slots are drawn in order, since their names mean nothing. The
  instance `HelperSlots` maps its state to HelperLeases': the users of a slot are
  the requests with a lease on it, what they want is the path in their snapshot
  of the configuration.
- **RequestRetry** (`executor.go`, `credentials.go`, `host.go`). One request with
  its clock against a host that refreshes, toggles and loses entries, and a
  helper that may answer 401 to any call, whoever's refusal was the cause; the
  history variable `rejected` holds the credentials so answered.
- **HelperServer** (`helper/main.py`, `helper/control.py`). The main thread that
  reads frames and cancels, the workers, and the threads that hold sessions.
- **ImageRequest** (`helper/protocol.py`). `parse_image_request` as a function
  from bodies to requests or refusals, with its conversions and the exceptions
  they raise.
- **CredentialSharing**: the abstract specification of credential scheduling. An
  image takes a credential that serves nobody and does not rest, passes over one
  that rests, and gives up when it tried all or is late; there are no locks, no
  rounds, no rotation and only one look at a cooldown.
- **CredentialScheduler** (`helper/protocol.py`), with **MCCredentialScheduler**
  for the values TLC needs. `Accept` parses the body (with ImageRequest) and
  hands out the images; each image's thread then goes through `generate_one`;
  each access to a shared table is an action; `Reply` ends `handle_images`. The
  instance `Sharing` maps its state to CredentialSharing's: a credential serves
  the image that holds its lock and generates, and rests while it cools down.
- **WebGeneration** (`helper/backend.py`, `generate_with_credential`), with
  **MCWebGeneration** for its requests, documents and lines. One generation from
  the client's sources to the image: `Normalize`, `Composite` and
  `Upload`/`Put`/`Confirm` carry each input with its number and mask; `SetUp`,
  `Start`; `ReadLine`, `ReadBlank`, `StreamBreaks` and `StreamEnds` are
  `iter_sse_json`, line by line: the data lines up to an empty line are one frame,
  which `Decode` (a constant) turns into an event or into nothing; `Collect`, `Poll`, `Locate`, `Download`; `Hide`
  and `Close` are the `finally` clause. Each call may succeed, fail in one of the
  four ways `_check` distinguishes, or be refused because the time is up.
- **WebEvent** (`helper/backend.py`). The recursive searches of a JSON document:
  conversation id, image references, words that mean an invalid token.
  WebGeneration takes them as constants, so that its theorems hold for any
  search; MCWebGeneration supplies these, tabulated over its documents. It is
  the one module with `RECURSIVE` operators, which no theorem reaches.
- **EmbeddedHelper** (`embedded_helper*.go`). Hosts that run
  `embeddedHelperPath` over the same two directories: every system call may
  fail, every host may die anywhere.
- **...Proofs**: the theorems about the module they are named after (section 5);
  **HelperClientContractProofs** shows that HelperClient implements CallContract.

The modules meet at these places, each of which one module assumes and another
shows:

| assumed | shown |
|---|---|
| CredentialScheduler: a generation ends (fairness of `ImageStep`) | WebGeneration: `GenerationEnds`, once its time is up |
| WebGeneration: a call under a cancelled control returns (fairness of `Step`) | HelperServer: `CancelReachesEverySession`; the rest is the call's timeout |
| PluginLifecycle: a request gives its lease back (fairness of `Release`) | RequestRetry: `RequestEnds` |
| RequestRetry: a call ends at its deadline, whatever the helper does | HelperClient: `CallExpire` is always open to a waiting call |
| PluginLifecycle: closing a slot's client leaves no process behind | HelperClient: `NoOrphanProcess` |

### What the models abstract

- Frames are request identifiers in a set; bytes, JSON and lengths are left out.
  Which frame is malformed is chosen when it is read. `CallWriteDelivers` is one
  step: `writeMu` orders the writes, and the helper always reads on.
- A killed process is gone at once. `failProcess` does not wait for it, so in
  the operating system it remains as a zombie, which answers nothing.
- CredentialScheduler has no clock: a cooldown ends, and a request expires, at
  any moment. Any generation may end in any way: nothing ties an answer to the
  state of the account's token, since other steps may fail before the token is
  looked at and other servers answer 401, too.
- WebGeneration has of the proof of work and the turnstile only how they end,
  and of headers and payloads nothing. A line of the stream is data, empty, or of a kind the parser ignores. What
  the data of a frame spell is the constant `Decode`; in the run they are a whole
  document, one of its two halves, another JSON value, text that does not decode,
  `[DONE]` or nothing, and two halves are a document only when joined. It does not say whose file a reference names. `Document` of a
  run is a handful of documents, one for each thing the searches can find.
- EmbeddedHelper tells files apart as the helper (good), anything else (bad) and
  none. `os.Rename` is atomic and may fail. A read of the digest is one step.
  Nobody but hosts writes in the directories.
- RequestRetry counts time in ticks, and takes the order of the credentials to
  be irrelevant. Its `Expiries` may contain 0, a token that does not say when it
  expires; the run leaves it out for size, since for the code such a token
  behaves like one that expires after everything else.
- HelperServer leaves out deadlines (they do not close sessions), and treats the
  threads of a request as one thread per session. In the code a thread opens its
  sessions one after the other; the model also allows them at the same time. A
  session registers and is then used: the constructor of the backend, which
  registers first (`backend.py:61`) and could fail after it (`backend.py:76`), has
  no failure in the model.

## 3. Runs

`tlc -workers 2 -config X.cfg M`, for the pairs below. Every run finishes within
three minutes on two workers.

| run | module, cfg | instance | question |
|---|---|---|---|
| helper_client | HelperClient, `HelperClient.cfg` | 2 callers, 1 closer, 2 processes, 2 identifiers | is any call lost, answered twice, left behind; does any send block; does a process leak; is a dead helper noticed; does each call keep CallContract (`KeepsContract`) |
| helper_client_nil_pipe | HelperClient, `HelperClientNilPipe.cfg` | 1 caller, 1 process | violation: finding 1 |
| helper_client_wrong_victim | HelperClient, `HelperClientWrongVictim.cfg` | 2 callers, 2 processes | violation: finding 2 |
| plugin_lifecycle | PluginLifecycle, `PluginLifecycle.cfg` | 2 requests, 2 plugin objects, 3 slots, 2 paths | do requests run with their configuration, does a replaced helper finish its requests, with others arriving between its wait and its close, and then stop for good, is it kept when its path is, is all of it an implementation of HelperLeases (`KeepsLeases`) |
| plugin_lifecycle_shutdown | PluginLifecycle, `PluginLifecycleShutdown.cfg` | 1 request, 1 slot | violation: finding 3 |
| request_retry | RequestRetry, `RequestRetry.cfg` | 2 entries, 1 refresh each, 3 ticks of half a second | do tokens outlive the request, does the helper's deadline fit, did every credential of the second snapshot get a 401 when the client does, does the request end |
| helper_server | HelperServer, `HelperServer.cfg` | 2 requests, 1 worker, 3 sessions | what a cancel and the end of input reach, and is every session closed and given back |
| credentials | MCCredentialScheduler, `CredentialScheduler.cfg` | 2 credentials; 2 requests of one image, or one of two images and one refused | is it an implementation of CredentialSharing (`KeepsSharing`), does an image give up too early, does a failure shorten a cooldown, is every request answered |
| credential_all_expired | MCCredentialScheduler, `CredentialSchedulerAllExpired.cfg` | 2 requests, 1 credential | violation: finding 4 |
| web_generation | MCWebGeneration, `WebGeneration.cfg` | 5 kinds of request, 7 documents, streams of up to 4 lines | do the inputs arrive, are the frames assembled, does each step after expiry bring the end nearer (`TimeUpCountsDown`), does it end |
| web_generation_blame | MCWebGeneration, `WebGenerationBlame.cfg` | the same, 1 line | violation: finding 5 |
| embedded_helper | EmbeddedHelper, `EmbeddedHelper.cfg` | 3 hosts, 2 directories | what may be at a path, and at one that was given away |

Why the bounds are enough for the cases that matter:

- *HelperClient*: two processes are one restart, with the old reader, an old
  caller and a new caller around at the same time; two callers and one closer
  let every pair of those who compete for `pending` (reader, failing caller,
  closer) meet. With two identifiers both callers have a call outstanding, or one
  has expired and its cancel frame uses the second. The proofs remove the bounds.
- *PluginLifecycle*: three slots and two plugin objects allow a replaced, a
  retiring and a new slot, and a shutdown with a registration after it, in
  which the first object's requests are still running. 115 000 states.
- *RequestRetry*: an odd deadline with two ticks to the second leaves half a
  second to the second attempt; `Expiries = {4, 5}` are the two sides of deadline
  plus margin (4 is exactly it, and too early; 5 is enough).
- *HelperServer*: two requests on one worker give one that waits; three
  sessions may be registered, refused and finished around one cancel.
- *CredentialScheduler*: two images and two credentials are the least at which
  both are busy for somebody, and a round finds nothing but busy ones. The two
  images are of one request in some behaviours and of two in others; a request
  that is refused has none. 389 000 states; the theorems remove the bounds.
- *WebGeneration*: a document spread over two data lines, two documents in one
  frame, two frames, an empty frame, and a frame without its end all fit in four
  lines (777 000 states); longer streams repeat that.
  Two images meet no mask, one and two masks. The documents cover every branch of
  the searches, and quote the words of an error outside an error, too.
- *EmbeddedHelper*: the promise about a given path involves the host that has it,
  one that failed to rename, and one that puts the file back: three hosts.

### Fairness

Only what a scheduler or a timeout provides is fair, and all of it weakly.

- *HelperClient*: a goroutine that can run does. The helper, new calls, `Close`
  and the deadline owe nothing, so `DeadHelperNoticed` holds without the
  deadline's help.
- *PluginLifecycle*: the goroutine of `retire` runs when its `Wait` can return
  and again when it has, and a request ends, which `context.WithTimeout` (`executor.go:43`) provides.
- *RequestRetry*: the goroutine runs, the host answers its callbacks and the
  clock goes on. The helper owes nothing.
- *HelperServer*: threads run, and a call on a closed session returns. Other
  network calls owe nothing.
- *CredentialScheduler*: threads run and generations end (some of them only at
  their deadline, which WebGeneration is about). Cooldowns and deadlines owe
  nothing, so that the rounds over busy credentials end by themselves.
- *EmbeddedHelper*: nothing is fair; its properties are safety.
- *WebGeneration*: the thread runs, and its call returns (each has a timeout).
  That the time runs out is not assumed: `GenerationEnds` is about the case that
  it did.

## 4. Findings

Each is a run that TLC ends with a counterexample to what the repository says.

1. **A caller can write through a nil pipe** (`helper_client.go:58`).
   `ensureStarted` returns, the helper dies and its reader clears `stdin`, then
   `Call` copies `stdin` and writes. Nothing recovers the panic.
2. **A late failure takes down the new helper** (`helper_client.go:200`).
   `failProcess` takes the process that is there, not the one that failed. When
   both a caller and the reader report a failure, and a call started a new
   process between the two, the second report kills it and its calls.
3. **Shutdown may leave a helper running** (`plugin.go:145`). A request past
   `loadCredentials` starts a new process in the slot shutdown has closed, and
   `closeOnce` keeps it from being closed again.
4. **All credentials expired, yet no second read** (`helper/protocol.py:156`). A
   credential that was answered 401 for another request is cooling down and is
   skipped without a status. The request reports 503, and only 401 makes the
   plugin read the credentials again (`README.md:191`). It is one way to it, not
   the only one: a token the account has revoked may also fail otherwise before it
   is looked at (an input image with 404, the bootstrap with 502), and one status
   that is not 401 or 403 turns the answer into 503 (`helper/protocol.py:197`).
5. **Other servers' refusals are the account's fault** (`helper/protocol.py:301`).
   A 401 or 403 for a client's image URL, or from a storage server, is judged by
   the same `_check` and puts the credential in a cooldown of 300 seconds.

Worth knowing, though no run is a counterexample to it. The `finally` clause of
`generate_with_credential` hides a conversation it knows whatever became of the
generation (`helper/protocol.py:287`), while `README.md:69` and `plugin.go:193`
describe the cleanup as something that follows a successful generation. The
model does what the code does (`Hide`), and no property calls either right.

The installation that
`embedded_helper.go:38` calls atomic has one window. When a rename fails, the
host removes the target, good or not, before it tries again
(`embedded_helper.go:82`); until then, or for good if it dies there, a path
another host was given is empty. `GivenPathHolds` says that this is the only
way.

## 5. Proofs

`tlapm HelperClientProofs.tla`. The assumptions are those of HelperClient:
`BoundsAssumption` (the bounds are natural numbers) and `GoroutineAssumption`
(callers, closers and readers are different goroutines). Nothing is assumed of
how many there are.

The theorem all others follow from is `InductiveInvariant`, `Spec => []IInv`.
`IInv` is the conjunction of the type invariant, the safety properties of the run
and two more facts, without which they are not inductive:

- `HoldsWhatItShould`: what a goroutine has taken out of the client fits where it
  is. Without it `TakeOver` could overwrite requests a goroutine still owes an
  answer, and `ReadAnswer` likewise.
- `IdentifierUnique`: identifiers of calls are different and not larger than the
  counter, and one that was not drawn yet occurs nowhere. Without it a new call
  could find an answer in its channel, or inherit the debt of an older one.

The properties need each other, too: `CallNotLost` after `TakeOver` needs
that the whole map was taken, `SendNeverBlocks` after `Deliver` needs
`OneAnswerer` (nobody else owes the same request an answer), and
`PendingOnCurrent` is kept by `Start` only since `TakeOver` left the map empty,
which it says itself for every waiting call.

Type correctness is proved first (`TypeCorrect`). `NextIInv` then has one step
for each action of `Next`, and under it one for each conjunct the action can
disturb. From `IInv` follow
`EveryRequestHasOneAnswerer`, `AnsweringNeverBlocks`, `NoCallIsLost`,
`PendingDoesNotLeak`, `WaitingCallsAreWatched` and `NoProcessLeaks`, each for any
number of callers, closers, processes and identifiers.

`tlapm PluginLifecycleProofs.tla`. The assumptions are those of PluginLifecycle:
`BoundsAssumption`, and `PathAssumption`, by which the stand-in for a missing
path is no path (`resolveHelperPath` never returns an empty one).

Its inductive invariant `LifecycleInv` is the type invariant, `LeaseMatchesConfig`,
`CurrentSlotIsOpen`, `RetiredStaysStopped` and `Coherent`, which they lean on:

- an unused plugin object or slot has left no trace, so that `Register` and
  `ReconfigureSwap`, which draw one, disturb no lease and no other object;
- an object's configuration is that of its slot, which `acquireHelper` hands out
  together (`LeaseMatchesConfig`) and `reconfigure` compares (`ReloadKeepsHelper`);
- the slot shutdown is about to close is `shutting`, and nobody holds a lease on a
  drained or retired one, so that nobody can start its helper again. This is
  inductive since `Acquire` leases only the current slot, which is open
  (`CurrentSlotIsOpen`), and `ReconfigureSwap` makes the old one retiring in the step
  in which it ceases to be current.

`InductiveInvariant` gives the invariants `RequestsRunWithTheirConfiguration`,
`NewRequestsGetAnOpenSlot` and `RetiredHelpersStayStopped`, and, with a look at
the actions that change slots, leases and helpers, the action properties
`RetireWaits`, `LeasesAreTimely` and `ReloadsKeepTheirHelper`, each for any
number of requests, plugin objects, slots and configurations. `RetireWaits` is not
the guard of `Retire`, which only asks for a drained slot: a request that came
after the wait would break it, and `Coherent` says that none does.

`PluginKeepsLeases`, `Spec => KeepsLeases`, shows that PluginLifecycle implements
HelperLeases. `LifecycleInv` suffices for it; a drained slot is to HelperLeases
still retiring (`Stages`). One lemma per action says which step of
HelperLeases it is (`RegisterOpens`, `SwapReplaces`, `RetireRetires`,
`TakeSlotShuts`, `CloseShuts`, `AcquireJoins`, `ReleaseLeaves`,
`CallStartsProcess`, `FailureFails`), and `OthersStutter` that the rest is none.
`Acquire` is a `Join` since slot and configuration are taken together
(`CurrentSlotIsOpen`, `Coherent`); `Retire` finds no users because `Users` is
read off the leases and a drained slot has none, and `CallStartsHelper` has a user for the same reason.

`tlapm HelperClientContractProofs.tla`: `ClientKeepsContract`, `Spec =>
KeepsContract`. The initial states map to CallContract's, and every action of
the client is for each call a step of the contract or none. It rests on `IInv`
and on one fact more (`UnsentUnanswered`: nothing answers a call that has not
been written). `StepKeepsContract` has one step per action; `OneCallMoves` and
`NoCallMoves` reduce it to the calls an action touches, since the mapping reads
each call from its own goroutine, channel and request only.

`tlapm CredentialSchedulerProofs.tla`. The assumption is `OfferedAssumption`: the
offers are sequences of credentials, and no accepted body asks for more images
than the bound. `SchedulerInv` has two layers.

- `Scheduled` keeps the threads apart: types, `OneImagePerCredential`,
  `NoUseWhileCooling`, `NoEarlySurrender` and two facts more. `Rounds`: what an
  image has given up it was offered, and in a round without a busy lock it has
  given up everything before its position, which makes `NoEarlySurrender`
  inductive. `Served`: only images that were asked for run, and none once the
  request is answered, which with `OneImagePerCredential` gives `ReplyIsLast`. The
  cooldown is none while an image generates because only the holder of the lock
  sets it; so no cooldown is shortened (`CooldownsAreKept`), although `Fail` does not
  look at the one it overwrites.
- `Positions` says what its control point means for an image: it has a result when
  it is through, none of its own failures when it unlocks, and the credential a
  thread is about to take is one it did not try. The refinement needs the last:
  an image takes a credential once.

`SchedulerKeepsSharing`, `Spec => KeepsSharing`, shows that CredentialScheduler
implements CredentialSharing. `StartGeneration` is `Take`: the lock is held and the
second look found no cooldown, which `UserIs` and `UsersKept` turn into a
credential that serves nobody and does not rest. `SkipCooling` and `RecheckCooling`
are `PassOver`, the end of a generation (`GenerationEndsUse`) `Succeed` or `Fail`,
the end of a round that concludes `GiveUp` (`ConcludeGivesUp`, which needs
`NoEarlySurrender`'s premises). Taking and releasing locks, going round and
rotating are no steps of the contract (`ImageSharing`). `RotationKeepsElements`
shows that rotation loses no credential.

`tlapm HelperServerProofs.tla`, with `WorkersAssumption` (there are workers), for
any number of requests and sessions. `Inv` adds three facts: a session in use is
registered; a session that was closed or interrupted in use was so by a cancel;
and a cancel has closed or has still to close all that are registered. The
third is what the order of `RequestControl.cancel` is for: since the event is set
before the copy is made, and `register` tests it under the lock, nobody registers
after the copy. The second makes `CancelNeverPunishes` a matter of one step.
`SessionsComeBack` has an invariant of its own, `Tidy`: a registered session is in
use, one that ended was closed, only a running request uses any, and a helper
that exited has none that waits or runs. It needs the last for `WorkerStarts`,
which would otherwise begin a request after the exit.

`tlapm RequestRetryProofs.tla`, with `TimeAssumption` (lengths of time are natural
numbers, a second and the timeout are not 0), for any store, margins and lengths.
`Inv` adds that the validity asked for, counted from now, still covers the
deadline, however late an entry is read (`ValidityCoversDeadline`); and that the second
attempt follows a call answered 401, keeps the first snapshot until it has its own,
and never calls without credentials (`SecondFollowsRejection`). With these a 401
for the client means that every credential of the last snapshot was in a call
answered 401 (`AuthErrorsAreGenuine`); it says nothing of why the helper answered so,
which finding 5 is about. `SecondsRoundUp` is the arithmetic of
`remainingTimeoutSeconds`.

`tlapm EmbeddedHelperProofs.tla`, with `RootsAssumption` (there is a directory), for
any number of hosts and directories. The inductive invariant is `InstallInv`. `Holds` (a host has a whole temporary file
exactly where it may be renamed, and nothing bad is where its file is to go back)
makes `GivenPathHolds` inductive. A step of a host touches its own variables and
its own directory's file (`Local`), and `HostStep` shows once that such a step
keeps the invariant when it keeps what the others rely on.

`tlapm WebGenerationProofs.tla`, with `InputsAssumption` (a request is a sequence
of images and one of masks), for any requests, documents, searches and lines.
`Prepared` follows the inputs phase by phase: which are normalised, that masks
come after all images, which mask each image got (`MasksCounted`: its own number
or the last), which are uploaded. `EveryInputUploaded` is its last phase.
`Assembled` is the invariant of the loop in `iter_sse_json`: the data lines
collected so far are those since the last empty line (`Gathered`), and the events
are those of the frames already ended, each at its rank (`Complete`).
`ReadLineStep` and `ReadBlankStep` add a line: the frames of a longer stream are
those of the shorter one (`SpansStay`) and at most the one that ends with the new
line (`OneSpan`, `FrameGrows`), so that every earlier event keeps its rank
(`EarlierEventsStay`). `FramesAreComplete` is what is left when the stream ends, for
streams of any length, frames of any number of lines and any `Decode`.
`ExpiredGenerationsEnd`, `Spec => TimeUpCountsDown`, is the half of `GenerationEnds`
that is safety: once the time is up, `StepsLeft`, a natural number by `Inv`, gets
smaller with every step. With a thread that is scheduled (the fairness TLC
assumes) no generation can go on.

The runs of HelperClient, PluginLifecycle, CredentialScheduler and EmbeddedHelper
check the inductive invariants themselves. `OneImagePerCredential`, `ReplyIsLast`,
`RetiredStaysStopped` and `NoLateLease` are proved, and in the runs part of these
invariants or of the refinements, which allow no step that breaks them.

Only model-checked: liveness (`DeadHelperNoticed`, `ReplacedIsClosed`,
`EveryRequestAnswered`, `CancelEndsRequest`, `EndOfInputExits`, `RequestEnds`,
`GenerationEnds`), since fairness and ENABLED are beyond the prover; and what the
recursive searches of WebEvent find, which the theorems leave open.

## 6. Not modelled

- *Configuration* (`config.go`): functions of their input and the file system;
  PluginLifecycle takes their result.
- *Proof of work, turnstile*: WebGeneration has how they end. The hash search and
  the interpreter compute on strings and share no state; what a right token is,
  an external service defines.
- *Platform files, build, tests*: operating system calls and tooling.
- *Within modelled components*: `routeModel`, `registrationInfo` and the response
  envelopes of the plugin, the bytes of frames, headers and payloads, the order
  of credentials by priority, and what an image's pixels become when a mask is
  put on it. None keeps state.
- The growth of the tables of locks and cooldowns, and the zombies `failProcess`
  leaves: both without bound by design of the code, and of no effect on what the
  models check.

`PROJECT.json` notes at each hazard without a property why there is none.

## 7. Where to go on

- A contract of the helper server towards the plugin (every images request that
  a worker begins is answered once, and cancelled at most once), implemented by
  HelperServer, as HelperClient implements CallContract.
- For RequestRetry, as for WebGeneration, the count of steps a request has left.
- A clock for CredentialScheduler, to compare the lengths of cooldowns with the
  deadline of a request.
