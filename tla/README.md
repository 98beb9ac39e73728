# Verification of trustruntime

TLA+ specifications of the trustruntime daemon and of its agentsandbox, with the
TLC runs that check them and the TLAPS proofs about them. Paths are relative to
the root of the repository (`src/` in PROJECT.json).

## The system

**trustruntime** is a daemon in a confidential virtual machine. Clients reach it
over vsock with mutual TLS and send framed messages; plugins (trustring: CMS
signing and verification) handle them. **agentsandbox** confines the containers
of AI agents: a controller writes per-container policies into eBPF maps and
hands filters to a proxy process, which intercepts the containers' HTTP and TLS
traffic with certificates it signs itself. A **launcher** starts the machines.

| component | state | operations | interacts with | hard part |
|---|---|---|---|---|
| vsock transport (`framework/.../vsock_server`) | shutdown signal, semaphore, listener handle; per connection: task, blocking job, permit | `start`, `stop`, accept, handshake, message loop | handlers of plugins, tokio's blocking pool, descriptors | shutdown races every step; permits and threads outlive one another |
| message framing (`message`, `connection.rs`) | header, body, idle start | read, dispatch, answer | transport, plugins | partial reads, idle time |
| framework certificates and checker (`cert`, `vsock_server/tls.rs`, `core/cert_checker.rs`) | TLS endpoint, status of each file | load, verify, check each period | transport, trustring, start-up | files are replaced while what was loaded from them is used |
| daemon lifecycle (`trustruntime/src/main.rs`, `core`, `plugin_manager`) | daemon state, plugins, certificate checker | start-up steps, READY/STOPPING, shutdown in reverse order | systemd, transport, signals | failure at each step |
| trustring plugin | certificates, CRL, keys | Sign, VerifySign, Verify | transport | error codes, decision order, who vouches for whom |
| policy control (`agentsandbox/controller`) | registered containers, path of each, watched paths with times | register, unregister, hot reload, rollback | eBPF loader, proxy process, hook | three threads, partial failure, stale snapshots |
| eBPF loader and programs (`agentsandbox/security`) | five kernel maps and their mirrors, the pinned table of connections, rings of events | load, compile, update, snapshot, restore, remove; the hooks | kernel, controller, proxy process | each copy of each map under a lock of its own; a hook reads tables a word at a time; restarts |
| security log (`agentsandbox/log`) | file, its lock | append a line | poller of events, other threads | partial writes |
| proxy process (`agentsandbox/proxy_proc`, `proxy/src/facade`) | one-time guard, registry, CAs, cached table of connections | start, proxy_init, refresh_policy, remove_container, set_api_key, look-ups | controller, proxy library | steps that stay done when a later one fails |
| certificate service (`agentsandbox/proxy/src/cert`) | services by container; issuer, generation, LRU cache | `set_ca`, `certificate_for` | handshakes of the proxy | signing happens outside the locks |
| proxy pipeline (`agentsandbox/proxy/src/server`, `logging`) | permits, connections, requests, audit sink | accept, resolve, MITM, filter, forward, audit | registry, certificates, inference | ordering of audit and forwarding, permits |
| filter (`proxy/src/filter`, `registry`) and name cache | configuration of each container, addresses of names | store, evaluate; look up | pipeline, resolver | the order in which rules speak, stale addresses |
| tunnel (`proxy/src/forward`, outbound half of `server`) | dial, heads, two pumps, one idle clock | connect, upgrade, relay | upstream proxies, targets | half-close, deadlines, a shared clock |
| inference (`agentsandbox/inference`, `proxy/src/inference_uds.rs`) | routes, models, encrypted keys in memory and on disk | load, route, mask, set_api_key, ask a remote | proxy, disk | memory and disk updated separately; cuts in texts |
| launcher | command line, shares, helpers, QEMU | parse, configure, spawn, wait | QEMU, virtiofsd | numbering of shares, helpers that end too soon |

What makes each component correct, in words: a permit covers exactly the work it
admits and shutdown drains that work; a policy in force on a container comes from
the container's own file, is never absent while the container is registered, and
is gone after it; a certificate is signed by the CA in force when it was asked
for; a response belongs to the request; READY and STOPPING are sent once and in
order; a request is forwarded only when the filter allows it, and leaves a record.

## Modules

A module states one component; its definitions carry the names of the source
where TLA+ allows. `PROJECT.json` maps each definition to its lines.

| module | models | role |
|---|---|---|
| `BoundedService` | what the transport promises its clients: at most `Limit` inside, no one returns, no request begins once closed | abstract specification |
| `VsockServer` | the vsock transport | component; implements `BoundedService` |
| `TrustRuntime` | `main()`, daemon, plugins, signals, systemd | composes `VsockServer` (EXTENDS) |
| `CertService`, `MCCertService` | certificates of one container | component; TLC symmetry |
| `PolicyControl`, `MCPolicyControl` | controller, eBPF maps, proxy filter | composes controller, loader and proxy process; TLC symmetry |
| `AuditedGateway` | what target, client and log see of each request: delivered only while rules admit it, passed only with its entry, answered once, refused only undelivered | abstract specification |
| `ProxyServer`, `MCProxyServer` | accept loop and request pipeline of the proxy | component; implements `AuditedGateway`; TLC constants |
| `Tunnel` | one outbound connection: dial, heads, relay, deadlines | component |
| `ProxyFilter`, `NameCache` | a filter as stored and evaluated; the addresses of a name | algorithm with its environment; component |
| `ProxyHost` | start of the proxy process, `proxy_init`, management messages | component |
| `InferenceRoute`, `InferenceConfig` | a request on an inference route; how the configuration is read | component; algorithm (extends `InferenceRoute`) |
| `InferenceKeys` | `api_keys.json`, its copies in memory, concurrent calls | component |
| `InferenceRemote` | a question to a remote inference service | component |
| `InferenceLibrary` | what `InferenceRoute`, `InferenceConfig` and `InferenceRemote` promise together | composition |
| `Masker` | cleaning a text | algorithm |
| `KernelPolicy` | a policy compiled into kernel maps, and every hook's answer | algorithm |
| `FlowLookup` | from a connection to its container, over loads and restarts | component |
| `SecurityLog` | events from their rings into lines of a file | component |
| `CertMaterial` | certificates, keys, lists; TLS endpoint; checker | component |
| `Trustring` | nodes that sign and verify (extends `CertMaterial`) | component |
| `Session` | the bytes of one vsock connection | component |
| `Launcher` | from a command line to the end of QEMU | component |
| `MCAgent`, `MCInference`, `MCParts` | | for TLC: tunnel, filter, names, host; inference; all of them and `Session` |
| `MCKernel`, `MCMaterial`, `MCLauncher`, `MCGuards` | | for TLC: policies and calls; certificates; command lines; all of them beside the controller |
| `MCInferenceKeys` | | for TLC: requests for keys |
| `VsockServerProofs`, `TrustRuntimeProofs`, `CertServiceProofs`, `ProxyServerProofs`, `PolicyControlProofs` | | theorems about the module of that name; the first also about `Session`, the last about `KernelPolicy` |
| `AgentProofs`, `GuardProofs`, `InferenceProofs` | | theorems about `NameCache`, `Tunnel`, `ProxyHost`, `ProxyFilter`; `FlowLookup`, `SecurityLog`, `CertMaterial`, `Trustring`, `Launcher`; `InferenceKeys`, `InferenceLibrary` |

An operator preceded by "Mutant:" in a component is a plausible bug of the
definition that follows. It is not part of the specification: it shows, for
each property, a change of the code that would break it.

### VsockServer

`shutdown` is `shutdown_signal`; `listener` is the position of
`listener_loop_async`; `stopper` that of the caller of `stop()`; `task[c]` the
tokio task of a connection (backlog, acquiring, handshaking, serving, done);
`thread[c]` the blocking job started for it, which is queued until the blocking
pool has a thread; `permits` the semaphore; `otherFile` a descriptor some other
part of the process holds. Threads and descriptors in use are computed from
these. One action per step: `StopCall` sets the signal, `AcceptTimeout` is the
one-second timeout of the socket, `HandshakeAbandoned` the select of
`accept_tls_with_shutdown` choosing the signal while the job keeps its thread
(`OrphanEnds`), `ReadTimeout` the five-second receive timeout after which the
loop tests the signal. The bytes of a message are data: a read ends in a
message, a rejection, a timeout, or the end of the connection.

### TrustRuntime

`main` is the step `main()` is about to take: configuration, certificates,
transport, plugins one by one (`up` counts them), start, READY, signal handlers,
wait, `stop()`, plugins down in reverse, STOPPING, return, exit. Every start-up
step may fail; the failure path reports READY, waits for a signal and ends, as
`handle_startup_failure` does. `daemon` is `Daemon.state`, changed even when
`sd_notify` fails; `heard` holds what systemd received. A SIGTERM before the
handlers are registered ends the process, SIGKILL may follow any signal
(`TimeoutStopSec`), and after `main()` returned the runtime still waits for its
blocking jobs: their threads go on while tasks are no longer polled. Not in it:
`TimeoutStartSec` and a second call of `stop()`.

### CertService

`visible`, `mapLock`, `issuer`, `generation`, `innerLock`, `cached` and `order`
are the fields of `ContainerCertServices`, `CertServiceInner`, `CertCache` and
`LruMap`; `setter` and `call` hold the position and the locals of each `set_ca`
and `certificate_for`. Signing (`Issue`) is its outcome, a pair of CA and
generation, and happens outside every lock. `completed` is history.

### PolicyControl

Three threads. `job["sock"]` is the lifecycle socket's thread, one message at a
time; `poll` is `ConfigMonitor`'s, which compares modification times and queues
paths; `job["watcher"]` takes the paths and applies the file. `kernel` and
`mirror` are the two copies of each map of `EbpfLoader`, written one at a time
in the order of the code (`todo`, the writes left); "rules" stands for the
capability and the file-system rule maps, always written together. `proxy` is
the filter in the proxy process; a call to it succeeds, is refused or gets no
answer. `before` is the snapshot a rollback restores.

Merged: the two locks of tracking a path, and of untracking it, which commute
with what other threads do between them. Left out: failing inserts into kernel
maps, poisoned locks, the start-up window without an event sender, the event
poller, and the CA inside `refresh_policy`. A cgroup id is not reused and each
edit changes the modification time.

### ProxyServer

`permits` is the semaphore of `serve()`, `acceptor` the connection the loop
holds while it waits for a permit, `conn[c]` the task of a connection with what
it found out (container, whether its binary is known, HTTP/1 or HTTP/2),
`req[r]` the position of a request in its handler with its locals, including the
configuration it took from the registry. `configs`, `cas` and `sinkUp` are the
registry and the sink, which the integrator changes at any time. `sent`,
`entry`, `reply` and `tunnel` are what the target, the log and the client have
seen; `Gateway` maps them, and the rules in force since a request came, to the
variables of `AuditedGateway`. HTTP/1 brings one request at a time, HTTP/2 several; a request is plain,
an upgrade or CONNECT; an inference route bypasses the filter; a closed
connection or reset stream drops the handler wherever it waits. An HTTP/1
upgrade returns the permit while the tunnel goes on (`HandOver`). The answer of an
upgrade is put together after its entry is in the log; when that fails the client
gets a 502 (`AnswerUnfit`).

The rule chain is abstracted to `Denied`, the pairs of configuration and target
it refuses; a configuration may also need the binary or the addresses
(`BinaryConfigs`, `IpConfigs`). Certificates are in `CertService`, the rules in
`ProxyFilter`, what a tunnel relays in `Tunnel`, and what happens on an
inference route in `InferenceRoute`.

### Tunnel

`tunPhase` is where the connection is, from the dial (TCP, CONNECT through an
upstream proxy, TLS, all under one deadline) to the relay. A plain request ends
when hyper has the stream, an upgrade writes its request and reads the head of
the answer, a CONNECT relays at once. Each pump has a buffer, the end of its
stream and the shared clock of last activity; `TunnelTick` runs the deadlines
down and waits for whoever is due. What peers send are numbered units, the units
of a head among them, so that a unit read with a head and lost, or delivered
twice, shows. `UpgradeResponse` makes the client's answer out of everything read
so far: units of the stream behind the head may stand in it as header lines
(`tunShown`), or spoil it.

### ProxyFilter and NameCache

`Evaluate` and the matchers are the code's: containers' rule sets in the order
`NormalizeRuleOrder` puts them, host conditions by name with wildcards or by network,
target rules and binary rules, `alert` that does not end the search, the default
at last. `PolicyIsRead` compares it with a reading of the configuration as it was
written: over the configurations `MCAgent` enumerates, and by a theorem for any.
The `port` of a rule set, which `evaluate` does not read, is left out. `Sorted` says what a stable sort returns (the place of an item is how many do not
come after it), which is what `sort_by_key` promises. `NameCache` has the look-up
outside the lock, concurrent misses, a name whose addresses change, and the
cache that is emptied when full.

### ProxyHost

The main thread's chain (environment, CA, inference, `proxy_init`, socket), other
callers racing for the one-time guard, and threads that apply management messages.
An environment is a record of verdicts; the two texts the process takes apart by
hand (the address of an upstream proxy, the list of keys) are sequences of
symbols, and `UpstreamReadsBack` and `KeysAreSplitOnce` compare what the parse
makes of every text up to a length with what was written; a port is read as the
number its digits make, with a sign or leading zeros. A variable may hold bytes that
are no Unicode (`NotUnicode`).

### Inference

`InferenceRoute`: the choice of the model, what is masked in which part of a body,
authorisation and headers, what the proxy does with the answer. The texts of the user
are places in the body (message, part); a segment's number, and the slot it is written
back to, is how many such places there are up to it. `InferenceConfig`:
defaults for what is missing or of the wrong type, and the refusals that follow.
`InferenceKeys`: a file is a name and a body, as in a file system where one
renames under another's open file; `persist_and_update` is a chain of actions, one
per system call (`OpenTmp`, `FillTmp`, `VerifyTmp`, `RenameTmp` and so on), each of
which may fail by itself. `InferenceRemote`: a service that sends anything in any pieces.
`Masker`: the search loop that steps over a keyword by one character, windows cut by
characters, findings in bytes, a validator for each kind of number with lengths of
its own, overlaps (a fold from the left), a text put together character by
character, a mark where a match begins. A mark is one symbol that occurs in no text.

### KernelPolicy, FlowLookup, SecurityLog

`CapPathRules`, `FsPathRules`, `CompileGlob` and the operators beside them are what
`update_from_security_policy` writes: what is said of one pattern is gathered into
one mask, and a policy with more rules than a table holds, or a pattern that leaves
no room for its zero, is refused before anything is written (`TooLarge`). The hooks
read the tables as the C code does: word by word in buffers filled up with zeros,
with bounded numbers of rules, depths and lengths. A path that the kernel resolves
is built from the end of its buffer, so that the end of a long one stays behind the
terminator (`Resolved`). Texts are sequences of `Symbols`,
none of which is the zero. The reference is the rules as written, and the filters in
user space. `FlowLookup` has the controller's loads with their failures, the pin, the
kernel's writes into a table with room for `FlowRoom`, the proxy's cached handle,
and ports that come again. `SecurityLog` has one ring per object, drained by a
poller item by item, one object after the other, while programs go on reporting; a
line is two writes under a lock, either of which may fail.

### CertMaterial, Trustring, Session

A file says where it lies, how it is written and what it holds; `LoadX509` and
its like refuse as `cert/mod.rs` does, `BuildTls` and the checker (`CheckAll`) read times in
seconds. The purposes of a certificate are
long names where OpenSSL knows one, for that is what `OBJ_obj2txt` gives
(`ShortNames` never occur). Cryptography is perfect: a signature is a record of who
signed what. In `Trustring` several nodes sign, verify and sign on, with what
strangers of the same CA and of none send them; ids have one length, that of the
hash `docs/interface.md` names, because `data || id` has no separator. `Session` reads headers and bodies from a
stream of words that arrives in pieces, with the receive timeout that throws away
what had been read, so that the server may take the middle of a request for the
start of one. A body is JSON text (`docs/interface.md`), whose words are neither
the protocol's version nor a length the server takes, and clients number their
requests from 1.

### Launcher

`lauAt` is the step of the launcher, `lauRun` its `RunArgs`. A word of the command
line is an option with or without a value after "=", or a text in parts; integer
widths are `U16`, `U32` and `U64`. After the parse come tools, configuration,
shares over 9p, helpers, QEMU and the wait for either QEMU or the end of its
pipe of errors; every step may fail. Formatting of the arguments (ports, basic
options, custom arguments) is left out.

## Runs

Two runs check modules that share no state as a sum: one of them moves while the
others are at rest. The run has every behaviour of each module and none of their
product, which no property could tell apart. There, a property is the
conjunction of what its module promises (`RelayIsFaithful`, `RingIsHonest`, ...);
its parts are stated and commented one by one in the module.

Symmetry is used only in runs without liveness. Deadlock is checked in
`CertService`, where every call returns and `Terminated` stands for the end. It
is off elsewhere: a stopped server, an ended process, or a system whose bounded
messages or clients are used up really rests.

| run | states | what it shows |
|---|---|---|
| `VsockServer` | 12 958 | permits, the bound on served connections, the drain after `stop()`, `BoundedService` implemented; `stop()` ends the listener and every connection whose client reads |
| `VsockWaiters` | violation | finding 1 |
| `TrustRuntime` | 59 472 | STOPPING comes last, plugins up whenever a read begins, a signal ends the process |
| `CertService` | 57 138 | no certificate of a former CA is cached or handed to a call begun after its replacement; LRU order |
| `PolicyControl` | 1 255 739 | a registered container keeps a policy, a removed one leaves nothing, edits reach the kernel and stay, unless the proxy did not take them |
| `PolicyOwners` | 434 660 | with two containers, two files and three messages, nobody gets another's policy, and files of registered containers are watched; the hooks decide as the rules say; connections are put down to their makers; the log tells events in order; TLS material is vetted and judged as OpenSSL judges it; a positive answer of the ring is earned; the launcher reads its line and shares and sizes the machine as asked |
| `PolicyRollback` | violation | finding 2 |
| `PolicyUnregister` | violation | finding 3 |
| `ProxyServer` | about 317 000 | permits, truth of the answers, policy in force at delivery, `AuditedGateway` implemented; deadlines hold, waiting connections are taken up |
| `ProxyAudit` | violation | finding 4 |
| `Parts` | 913 985 | a relay loses nothing and ends in time; filters and keys are read as written, names stand for addresses they have had; a proxy that serves has what it needs; prompts leave masked, for the right model, or not at all; masking takes whole entities, those in reach and nothing else, and searches every keyword; keys on disk and in memory agree; a session's replies bear the numbers of their requests |
| `KeysVanish` | violation | finding 5 |

Bounds, and why the cases happen within them:

- `VsockServer`: three connections for one permit (one served, one waiting for the permit,
  one in the backlog), a blocking pool of two so that a hung client leaves one
  thread for everyone else, three descriptors so that `try_clone` fails. The
  theorems hold for any numbers. `TrustRuntime` has two connections and two
  plugins, one more than `main()` adds, so that shutting down in order and
  failing half-way through `init_all` differ.
- `CertService`: capacity two with three domains evicts; two setters replace
  one another while four handshakes look up, sign and store; one CA does not
  parse and one domain is malformed.
- `PolicyControl`: one container with two messages, one edit and one proxy
  failure already has registration against edit, removal against reload and
  rollback against reload; the contents cover every place of refusal that the
  code has after parsing. `PolicyOwners` trades failures and refusals for a second
  container, a second file and a third message: two registrations and a removal,
  or a file shared and then left. `PolicyRollback` needs three messages and no
  edits.
- `PolicyOwners`, beside the controller: policies of up to two rules of a kind
  before every call, patterns with stars inside and at the end, paths around the
  length of a word and of a buffer (`WordLen`, `PathLen`), a full and an empty
  ring; two connections and two containers for a table of one entry, over two
  loads; two events for a ring of one; TLS material sound or with one fault, over
  four moments; two nodes, two objects made and one object of each kind a stranger
  could send, over three moments; command lines of up to three options of each of
  three vocabularies, with numbers on both sides of each width.
- `Parts`: one tunnel of each form with one unit upwards and two downwards through
  a buffer of one and an idle time of one tick; two rule sets with every order of
  rules that matters, over 3-bit addresses; two look-ups of two names for a cache
  of one; two receivers with two messages beside another caller of `proxy_init`,
  texts up to four or five symbols; every body, model and answer form of
  `MCInference`; two callers with two calls and two initialisations for the keys;
  three requests in a session, the longest of them too long.
- `ProxyServer`: one permit (16 in the code) and two connections make one wait
  for the other; two requests overlap on HTTP/2 or follow one another on
  HTTP/1; one container with one configuration, which may be absent, appear or
  go; one target with an inference route whose upgrade the filter denies, one
  without a route that may stop reading; one change of configuration, CA or
  sink. The initial registry and sink are arbitrary, so one change suffices to
  have every before and after.

## Fairness

- `VsockServer`: tokio polls a ready task (WF of the listener and of each
  task). A queued blocking job gets a thread if threads keep coming free (SF).
  Reads and `accept()` end because the sockets have receive timeouts; a handler
  returns. Writes have no timeout, so those of `Unresponsive` clients have no
  fairness. Nobody has to connect or to call `stop()`.
- `TrustRuntime`: the same while the process lives, and WF of `main()`. systemd
  owes nothing: neither a signal nor a kill.
- `PolicyControl`: WF of each of the three threads. The proxy answers or fails;
  the code has no timeout for that call, so no liveness of the socket's thread
  is claimed, and `ChangeIsApplied` is about the watcher.
- `ProxyServer`: WF of the accept loop, of what ends the sniffing, the handshake
  and the closing of each connection, and of what each request's handler does by
  itself or gives up at a deadline. Clients, targets, the integrator and the
  bodies of answers have none. `write_upgrade_request` has no deadline, so a
  stalled target may hold it: `DeadlinesHold` excludes that case (`Stuck`).
  `WaitersServed` assumes that permits come back again and again, because
  nothing bounds how long an idle client keeps one.
- `Tunnel` (`TunnelFairness`): WF of the task's own steps, of the tick, and of peers
  that take what was sent; peers owe no data and no end. `TunnelFinishes` excludes
  the two waits without a deadline: the request of an upgrade, and the flush when a
  TLS stream is shut down.
- The other modules state no liveness: they are algorithms, or a wait in them has
  nothing that bounds it.

## Where code and documentation part

1. `VsockWaiters`: without a free descriptor `try_clone()` fails, the listener
   loop breaks although nobody asked it to stop, and the connections in the
   backlog are reset. `conf/agent.toml:13` says that they wait.
2. `PolicyRollback`: `restore_rules` writes the kernel maps and not the mirrors
   from which `snapshot_policy` reads. After one refused registration, the
   rollback of a second one puts refused rules in force (`ebpf/mod.rs:1025`).
3. `PolicyUnregister`: the watcher looks the container up, releases the lock and
   writes afterwards; a container unregistered meanwhile gets its entries back
   and keeps them (`management.rs:80`).
4. `ProxyAudit`: the audit entry is written after the target answered. A target
   that got the request and then failed, or a sink that refuses the entry,
   leaves traffic without a record, where the comments say that none passes
   (`server/mod.rs:64`, `logging/mod.rs:26`).

5. `KeysVanish`: two calls of `set_api_key` write one temporary file and rename it;
   the one that comes second finds nothing to rename and, after five attempts,
   removes the store itself (`inference/src/config/mod.rs:94`), where the comment
   promises an atomic write.

What follows contradicts a document as well. No run of its own shows it; the
passing properties leave it out, and the model does what the code does.

- Rollback: `management.rs` takes an edit back when the proxy cannot be reached,
  and nothing tries it again until the file changes once more. `ChangeIsApplied`
  says that an edit comes into force and stays until the next one; it excuses this
  rollback, shared files, and containers being registered or removed.
- Tunnel: `forward/mod.rs:335-337` says that activity in either direction resets
  the idle clock. The clock is set when a chunk is out, so that the cut may come
  while the other direction holds a chunk it has read (`IdleMeansQuiet`).
- Upgrades: `build_upgrade_response` (`server/mod.rs:2082`) parses all that was
  read as header lines. Bytes of the tunnel with a valid name show up in the head
  of the client's answer, beside the tunnel (`LeakIsACopy`); an invalid name makes
  a 502 of the answer, with an "allow" entry in the log and the tunnel lost.
- Upstream proxy: `facade/mod.rs:235-237` and `398-399` say that traffic never
  goes direct silently. A variable that is no Unicode counts as unset
  (`std::env::var(..).ok()`), and it does (`DirectOnlyIfUnnamed`).
- Network rules: an address is compiled in host order (`ebpf/mod.rs`, `parse_ip`)
  and compared in network order (`network.bpf.c`), so that on little-endian
  machines only addresses that read alike from both ends, and "*", match, where
  the documentation of policies offers addresses and networks. `NetworkRulesAreKept` is
  about those that work.
- Exact names of files: what `bpf_d_path` leaves behind the terminator of a long
  path is compared as well, so that the rule for it may not match.
  `FileRulesAreKept` is about short paths; `WordsCompareLikeText` says of any path
  that no rule matches another one.
- Flows: `ebpf/mod.rs:1167-1171` says that the resolver heals itself when the
  controller restarts. It opens the new table on a miss only; a port used again
  hits the former table and names the container that used it then.
  `LatestMakerWins` is about answers from the table that is being written, and
  `AnswersOnlyMakers` holds for all of them.
- Keys: one call alone removes the store when renaming fails by itself five times
  and once more (`config/mod.rs:89-103`). `StoreIsMemory` excuses that there are no
  keys on disk then; the next call that succeeds writes them all.
- Session: `docs/interface.md:104` says that a general error bears the number and
  version of its request. After words lost to a timeout the server reads them in
  the middle of a request; `RepliesBearTheirNumbers` excuses the last reply of a
  connection that is then closed.
- Launcher: `cli.rs:449` offers `--virtiofs`. The helpers are killed when the
  arguments are complete (`qemu.rs:287`), and listen on another socket than QEMU is
  told. `--mem` is cut to 32 bits, and `--mem` and `--cid` do not count beside
  `--app-conf`. `LaunchesAsAsked` is about `--volume`, and about machines no file
  describes whose memory fits.

For findings 1 to 5 the passing properties name the cases instead of hiding them:
`GoneIsClean` excludes containers the watcher was working on
(`history.overlapped`), containers whose removal did not reach the proxy keep
only its filter (`history.unheard`), and `NeverUnprotected` is about containers all of whose
registrations had a `[security]` section (`history.bare`).

## Seen on the way

What the models show the code doing, where no document says otherwise:

- Names: entries never expire (the cache is emptied when 1024 are in it); the last
  of several concurrent misses wins; the connection resolves the name again.
- Proxy process: a failed bind leaves the guard consumed; a refused second
  `proxy_init` has reloaded the inference library; removed containers keep their
  CA; `http://http://h:8` and a bare `a:b:8` pass as upstreams.
- Inference: a text block without text shifts the texts after it, so that a secret
  may stay although masking is reported; the masker lets everything pass when an
  expression does not compile; an entity cut by a window, or the tail of one that
  lost an overlap, stays; a disabled model of the least priority blocks instead of
  falling back; the deadline of a remote answer is per read, where
  `inference_uds.rs:43` says total.
- Hooks: the user-space filters said to mirror the hooks differ from them (a
  file rule "*", several rules for one path); `evaluate` and `should_block_path` of
  `filters/capability.rs` differ on an empty pattern, and the kernel decides as the
  second does; a rule for another operation than connect fails the update after the
  other tables were written.
- Flows: conflicting objects are never replaced, because names of objects are
  compared with names of programs; a load that fails after sockops leaves the pin
  on a table nobody writes until the next one.
- Log: an entry whose line could not be ended is glued to the next one.
- Trustring: a node's own object is answered with "identity conflict"; certificate
  and key are not compared at load; the list is matched by serial over all
  certificates an object carries.
- TLS: a list must be in date when it is loaded and is used stale afterwards.
- Session: two timeouts in a row can take a whole request without an answer.
- Config monitor: a path that the poll thread records after it was unwatched is
  watched anew, for no container.
- Launcher: options are matched by prefix, a value may look like an option, empty
  parts of `a::b` count as absent; errors of options
  and of the launch end with status 0; a line of QEMU that is not UTF-8, or the end
  of its pipe, ends the launcher and QEMU with it.

## What is proved

TLAPS checks the following for all values of the constants that satisfy the
modules' assumptions: any finite set of connections, any number of permits, any
configurations and targets, any bound on the changes, any names, flows, containers
and policies.

**VsockServerProofs.** `TypeCorrect`, `PermitsAccounted`, `WorkAdmitted`,
`ServiceStaysBounded`, `DrainMonotone`, `Refinement`. The inductive invariant is
`TypeOK /\ PermitAccounting /\ WorkIsAdmitted /\ SignalAfterStart`. Counting
alone is not inductive: that a permit is released once follows from where task
and thread of a connection can be together (`WorkIsAdmitted`), and an orphaned
handshake is possible only once the signal is set. Lemmas state how the number
of holders changes when one connection moves. The refinement maps a step to one
step of `BoundedService` or to a stutter; the bound on insiders is the permit
count.

**TrustRuntimeProofs.** `RuntimeIsTransport` shows that the process, with
`main()` and systemd, only does steps of `VsockServer` or leaves it alone, which
carries its theorems over (`RuntimeServiceBounded`). `RuntimeTypeCorrect` adds the types of the process's own
variables, with what keeps the count of plugins in its range (`OwnCounts`); no run
checks them. `StoppingComesLast` and
`RequestsHavePlugins` use `RInv`: no connection exists before the transport
starts (`QuietInv`); until the signal is set, a started transport has all its
plugins (`PluginInv`); from the end of `stop()` on, the listener has ended or
`stop()` gave up, and STOPPING is heard only then (`ClosedInv`).

**CertServiceProofs.** `CacheStaysCurrent`, `CertificatesAreFresh`,
`VisibleServiceHasCa`, `CacheIsWellFormed`, `OldestGoesFirst`. The strengthening says who holds which lock at each
position (`LockInv`); that a `set_ca` in progress is exactly one generation
ahead of the last that returned (`GenerationInv`); that a cached certificate is
of the last completed generation (`CacheInv`); where a call has a certificate
(`PlaceInv`); and that what a call holds is neither older than its start nor
from the future, and is of the current CA when its generation is the current
one, so that the comparison in `StoreCurrent` is enough (`CallInv`). The last two
are about the recency list (`Recency`): its elements are the cached domains, each
once and within the capacity. A domain that is put again first makes room for
itself, so a full cache loses its head and nothing else.

**ProxyServerProofs.** `TypeCorrect`, `PermitsAccounted`, `RepliesTrue`,
`PolicyIsCurrent`, `GatewayRefined`. The invariant adds to the properties:
a connection in the loop's hand has been accepted and not begun (`InHand`);
requests in a handler are on a served connection (`InFlight`); only HTTP/2
shares a connection, without which an HTTP/1 upgrade could free the permit of
another request (`Exclusive`); the answer comes last and the target is untouched
before delivery (`Outcomes`); and what is known of a request's configuration at
each of its positions (`Decisions`), from which `PolicyIsCurrent` follows at the
two steps that reach a target. `GatewayRefined` maps each step to one of
`AuditedGateway` or to none: delivery, the answer with its entry, a refusal, a
connection that goes with all its requests and streams, an upgrade that is
logged and delivered and then spoilt by the answer made of it.

**PolicyControlProofs.** `TypeCorrect`, `PoliciesAreOwn`, `AlwaysProtected`,
`NothingIsLeft`, `TablesSound`, all from `TypeOK /\ Shape /\ Enforced`. The
properties alone do not carry over a step, because a policy is written in several
and a job works on a copy of what it read at its first. The invariant says, for
each job, what its copy holds and what it still has to write: a snapshot without
a policy belongs to a container that is excused or not registered yet; the watcher
works only for containers that are registered or gone; and what is left of a
container that is gone is what its remover is about to remove.

`HooksKeepRules` is about `KernelPolicy`, for policies, calls and texts of every
length. The invariant (`KerInv`) is short, for the module has two steps; the work is
in the operators. Words lie one after another and cover a buffer (`WordsCover`), so
that equal words up to the first zero are equal texts (`ExactIs`), and up to the end
of the second a prefix (`PrefixIs`); a pattern with its star at the end, or none,
compiles to what the pattern stands for (`GlobMatchIs`, `CompiledNames`); the path
put together from names is text (`FlatIsText`) and fits (`SourceFits`); the masks of a
pattern hold what any rule says of it; and the first rule that fits a call is the
same on both sides (`FirstIs`).

**VsockServerProofs**, on sessions: `SessionStaysPaired`. What a client sends is a
row of frames (`Framed`); the server's place in it is inside a frame (`Placed`) and,
whenever a header is accepted, at the fourth word of one. That is what keeps a server
that lost half a request to a timeout from taking a body for a header: the version
and the length it would read cannot be words of a body.

**AgentProofs.** `DecisionsRestOnTheName`: what is missing from `NamesAreTrue` is
what a request has seen on its way (`Witnessed`). While the resolver is asked, what
the name stands for is among what was seen; the answer is one of these; and the
answer the filter decides on is one of these, unless it came from the cache.

`RelayKeepsFaith` is `RelayIsFaithful`: units arrive in order, none lost or twice,
ends are passed on when everything before them is, and the budget of a dial is kept.
The invariant follows a unit through the four places of a direction (`Flows`: what was
delivered, is being written, lies in the buffer and is still on the wire is the run
of what was sent), and through the heads before the relay (`Proxied`, `Heading`),
where a chunk may hold the end of a head and the start of the stream.

`HostStaysArmed` is `HostIsArmed`. The invariant says what the start has in place at
each of its steps (`Staged`), what each caller of `proxy_init` has behind it
(`Called`), that the guard let one of them through (`OneAttempt`), and what a message
of the controller rests on (`Handled`, `Configured`). The two texts taken apart by hand
are reasoned about by what a text leaves without some of its symbols (`Without`), which
is passed on by concatenation (`WithoutCat`): trimming loses blanks only, the first colon
splits a pair into itself, and the pairs up to each comma leave what the text up to it
does (`PairsSoFar`).

`PolicyStaysRead` is `PolicyIsRead`. The state's invariant is short (the stored
configuration is the normal form of the written one, a decision is that of the
request last asked on it); the work is in the operators. A stable sort is a
permutation in order (`SortIsPlacing`), so that the first rule that fits among the
sorted is one of least rank among the written (`FirstIsStrictest`), a rule set decides
by its strictest fitting rules in either form (`RuleSetDecides`), and the first rule set that
decides is the one of highest priority and earliest among equals (`EvaluateAsMeant`).
The short cuts of the matchers are the one-star glob, folding keeps stars, and the
bits of a word that a mask keeps are equal exactly if the quotients by a power of two
are, prefixes of none and of all bits included.

**GuardProofs.** `FlowsAreAttributed`. The invariant relates the load of the
programs to the pin (`Loads`), the entries of every map to the containers that made
the connections (`MapsSound`), the one that is being written to the last of
them (`WrittenMapIsLatest`), and the map a look-up has in its hand to what it may
still find there (`UnderWay`, `AnswerSound`).

`LogStaysFaithful`: events of a ring lie in file, batch and ring in the order in
which they happened (`Rows`), where the batch is less the event whose line has been
written (`Pending`), and no line ends twice (`Whole`) because one writer has the
lock (`Locking`). `MaterialStaysVetted` carries over each step what an endpoint
that was built has passed (`SoundEndpoint`), what a peer it let in has
(`VettedPeer`), and that the checker's verdict is the truth at its moment
(`TrueStatus`). `RingStaysHonest` shows of each answer that a positive one was earned
(`Earned`) and that an object of the ring is recognised (`Recognised`); objects of
the ring have their signer's text and id (`OwnObject`), and a text can be split into
data and id in one way only.

`LaunchStaysAsAsked` is `LaunchesAsAsked`. What is new in it is the parser
(`WordUnderstood`, by the least word at which it would fail): after k words the
options say what those words say (`Meant`, with the last of a scalar and the rank of
each of a list), but for a last option that still waits for its value, and it waits
exactly if the next word is a value by the reading of the property (`Values`). The
state's invariant (`LauInv`) then carries the accepted line, the configuration and the
shares that follow from it, and who runs. Tags differ because `EscapeByte` is
injective on bytes, keeps a text's length, and no trimmed text begins with a slash,
which is why the empty one cannot be confused.

**InferenceProofs.** `KeysKept`, `PromptsStayGuarded`, `MaskingIsExact`. For the keys, the types say that
a body under a name is whole, spoilt or blank (`KType`), each call holds on to a state
and a file that exist (`Calls`), and a call that has no other beside it stands where its
chain of system calls put it (`Alone`, `Stands`): which file has which name, what lies in
it, and that memory is the store or is about to be, unless the store was lost to a
disk that cannot rename (`keyLost`). What operations promise when they
overlap is finding 5.

`PromptsStayGuarded` is `PromptsAreGuarded`, of three parts. `RoutesAreGuarded`: what the
library answered is `RouteUnder` of an installed configuration, and what was sent is that
answer applied (`InfInv`), so that the rest is about functions of a configuration and a
request. The least enabled strategy is found by the least index at which the search would
go wrong. That masking leaves no secret rests on numbering: in a well-formed body the
places that give segments are the places that take them, a place's number among them
is between 1 and their count and no two share one, so that each text takes back its own
segment. `LoadedStaysLegal`: what `Validate` passes has models of both types the engine
searches and no others; taking a field away adds no error, one field at a time.
`RemoteAnswersCount`: what is kept is the beginning of what was sent (`UdsInv`), and the
first line of a text with a line's end in it is found by the least of its places.

`MaskingIsExact` is `TextsAreMasked`, four statements about `MaskText` for texts and lists
of patterns of any length. Bytes grow with characters (`BytesGrow`), so that a keyword's
bytes come back as its characters (`BytesAreChars`, `BytesOfWord`) and a window holds what
is within its distance (`WindowHolds`). A run that is within reach is found whole
(`RunIsFound`, `ReachIsMatched`) by the pattern whose keyword comes first
(`OneIsFirst`, `FinderIs`). The fold that removes overlaps is described by where the last
match kept ends (`KeptUntilIs`): matches kept are apart, and one that is not kept overlaps
with one that is (`KeptAreApart`, `MatchesAreTouched`). That the text can be restored
goes over prefixes (`RestoreStep`, `TextIsRestored`): after each character, what was
written stands for the text up to the end of the last match begun, and the n-th mark
written is that of the n-th match (`NthIs`).

**How induction is done.** The library's induction theorems take an operator and
cannot be instantiated. Where a recursive function is reasoned about (`GlobMatch`'s
reach, flattening a path, the words of a command line, the powers of two), the proof takes the least index at which the claim fails,
which exists by `WellFoundedInduction`, and refutes it.

**Only model-checked.** Every safety invariant and every action property of the passing
runs is stated by a theorem. All liveness (`ListenerStops`, `ConnectionsDrain`,
`SignalEndsProcess`, `ChangeIsApplied`, `DeadlinesHold`, `WaitersServed`,
`RelayEndsInTime`) stays with TLC, because fairness and `ENABLED` are out of the
prover's reach; the runs that end in a violation, by nature. The runs compare the same
operators over the texts enumerated, so that a slip in a definition shows before a proof of
it is tried.

## Not modelled

`PROJECT.json` lists every component with its status.

- Parsing of TOML (`agentsandbox/config`, `framework/config`): a file is what it
  parses to, or does not parse. Defaults and ranges are data used once.
- The container hook sends one message and keeps no state; its messages are the
  environment of `PolicyControl`.
- Rotation of logs is a library's. Help texts and arguments of QEMU are formatting.
- hyper, OpenSSL, tokio, libbpf, the kernel, QEMU and virtiofsd are external: what
  `src/` relies on is modelled where it is used.
- The heads of requests have no deadline after sniffing, nor have bodies of answers
  (`proxy/src/server/mod.rs:414`): `ProxyServer` assumes no fairness there.
- Test tools, integration tests and examples.

## Plan

1. An abstract specification of policy enforcement (a container is bound to the
   file it was registered with) that `PolicyControl` implements outside the
   findings.
2. The product of `ProxyHost` and `FlowLookup` over one restart.
