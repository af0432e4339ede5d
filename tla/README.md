# Verification of the Geb projects

TLA+ models, TLC runs and TLAPS proofs for the Go programs in this repository:
an RPC framework with a registry (`Geb_RPC`), a group cache (`Geb_Chache`), a
web framework (`Geb_Web`) and an ORM (`Geb_Orm`). In the first two goroutines,
timers, locks and connections race; in the last two callbacks nest: handlers call
the handlers behind them, and hooks use the session they are called from.

Check a run with `tlc -config <run>.cfg <Module>.tla`, a proof with
`tlapm <Module>Proofs.tla`. `PROJECT.json` lists the runs, the source lines each
definition stands for, the hazards and the theorems.

## Inventory

| part | state | operations | hard because | correct if |
|---|---|---|---|---|
| RPC client `client.go` | `pending`, `seq`, `closed` under `mu`; per call `status`, `Error`, `Done`; the `sending` lock | Go, Call, CallUntil, WaitFor, Close; receive and ticker goroutines | an answer, a deadline, a failed write and Close end the same call | every call ends once, with its own answer, and returns |
| Dialling `client.go` | connection, codec, two channels, client closed or not | dail, dailTimeout, negotiate | the timeout overtakes a negotiation that goes on | constructor and goroutine end; both ends of the connection are released |
| RPC server `server.go` | per connection: handlers, `resultCh`, heartbeat channel, codec | ServeConn, serveCodec, handleRequest, sendResponse, heartListen | handlers, sender, timer and heartbeat share channels and variables; the connection fails in between | nothing is sent on a closed channel; every request is answered; all goroutines end |
| Codec `codec.go` | connection closed or not | Read/Write Request/Response, Close | several goroutines close it | closed once |
| Registry `registryServer.go` | `services`, `idToService` (`seMu`), `clients` (`clMu`), `interest`, alive channels | register, resign, heartbeat, query, alive check, informChanges | critical sections in sequence, timers, one goroutine per update | indexes agree, the dead are removed, clients learn of every change |
| Registry client `registryClient.go` | view of the services, update channel, `closed`, listener | register, Close, GetServiceAdders, HandleUpdate, doUpdate, heartBeat | a lock held over a channel send; the channel closed outside it | no send on a closed channel; updates are applied; Close ends |
| Balanced client `clientBalanced.go` | one client per address, being built or ready; `mu`, held over a request to the registry | Go, Call, CallUntil, Close | callers wait for a client another builds; it fails, or Close takes it meanwhile | one client per address, none left behind; every call and Close return |
| Group cache `gebcache.go`, `cache.go`, `singleflight.go`, `lru.go` | LRU list, map, byte count; calls in flight | Get, load, getLocally, Do, Add, RemoveOldest | loads merge, finish and are evicted concurrently | one load per key, sound accounting, every Get returns |
| Cache peers `http.go`, `pickers.go` | getters; hash ring | HTTPPool.Get, ServeHTTP, Add, Pick | nodes wait for each other; a peer is down | rings agree; a failed peer falls back |
| Web router `router.go`, `engine.go` | a tree of path segments with handlers and middlewires | AddHandler, AddMiddlewire, Handlers, ServeHTTP | patterns overlap and the search backtracks | the best pattern wins, in every order of registration, behind its middlewires |
| Web context `context.go` | the chain of a request and the index `i` into it | run, Next, Fail, the answers | loops and handlers nest and share `i` | handlers run in order, each once, none after Fail |
| ORM session `session/`, `clause/clauses.go`, `geborm.go` | clauses, `refTable`, transaction | the seven statements, the modifiers, Raw, hooks, Begin, Commit, Rollback, Engine.Transaction | hooks make statements between the building and the execution of another; anything may fail or panic | a statement is made of its own clauses and leaves none; a transaction is all or nothing |
| ORM text `clause/generator.go`, `schema/`, `dialect/`, `log/` | none that changes | SQL text of clauses and types | - | - |

The registry pushes updates to clients over HTTP; a balanced client asks its
registry client for addresses and builds one RPC client per address; RPC client
and server meet in the codec's connection; cache nodes are clients of each
other; the web router makes the chain that a context runs. The hazards of each part are in `PROJECT.json`, at their lines.

## Modules

- **RpcClient** - one connected `DefaultClient`: caller goroutines, receiver,
  ticker and a user who may close. One action per critical section or blocking
  operation: `Register` (Go, registerCall), `LockSending`, `CheckStatus`,
  `Write`/`WriteFails`, `TakeBack`/`Drop` (send), `TimerFires`/`Cancel`
  (WaitFor), `CloseBegin`/`Terminate`/`CloseMark`/`CloseConn` (Close),
  `Read`/`Deliver` (receive). `pc` says where a goroutine is, `hand` which call
  it has removed from `pending` and must end. The connection is a bounded queue
  of requests and a set of answers: the server handles requests concurrently,
  so they come in any order.
- **CallContract** - what the client promises without locks, goroutines or
  numbers: a call ends once, and only its own deadline or a closing client
  cancels it. `RpcClient` has the refinement mapping (`CallStates`, `Open`).
- **RpcDial** - `dail`, `dailTimeout`, `negotiate` and the constructors against a
  server that confirms, is silent or goes down. `deadline` is the timer that only
  `dailTimeout` has, until the constructor has left its select.
- **RpcServerConn** - one connection: reader, handler and service goroutine per
  request, sender, heartbeat listener. `handleRequest` shares `err` and `resp`
  without a lock; where a field may be read while it is written, the value
  `torn` is one of the outcomes.
- **RpcConnect** - composes RpcDial and RpcServerConn at the connection: the server
  reads what the client has sent (`Confirm`, `Refuse`, `Requested`), and either end
  learns later of the other's closing (`PeerLost`, `ServerLost`), or never, if the
  network falls silent. Its own steps are only these meetings; all else is a step of
  one of the two.
- **RegistryServer** - the registry and its clients' views. One action per
  section of `seMu`, `clMu` or a service's `mu`; `informer` is the goroutine of
  `informChanges`, `net` the updates on their way, in any order; `newest`
  records the last list made for a client and exists for a property only.
- **GebCache** - `Group.Get` on several nodes: cache lookup, singleflight, load,
  forwarding over HTTP to a handler goroutine of the peer, LRU with byte count.
  A datum is its length. A handler is named after the load it serves, of which
  there is at most one (`OneLoadPerKey`).
- **RingPicker** - the consistent hash ring as several processes build it, each
  in its own order, over a small hash range where points may collide: `Sorted` is
  sort.Ints, `Search` sort.Search as a recursion over its two bounds, `Pick` what
  is done with its result. It justifies, and bounds, the assumption of `GebCache`
  that rings are constants.
- **RegistryClient** - the registry client with its three goroutines: `Lock` and
  `Send` of HandleUpdate, which keeps `mu` over the send; `Range`, `Receive` and
  `Apply` of doUpdate; HeartBeat; any number of users of GetServiceAdders
  (`Get`, `StoreAnswer`, `AskFails`) and closers (`CloseMark`, `CloseCh`,
  `StopListening`). The registry is the environment: it answers and pushes any list.
- **BalancedClient** - composes RegistryClient (INSTANCE; the callers are its
  users, the closing user its closer). One action per section of `b.mu` or
  blocking operation of Go (`Begin`, `AskRegistry`, `NoAddress`, `PickAddress`, `BuildFailed`,
  `Issue`), of the goroutine that builds a client (`ReadOption`, `Dial`,
  `Remove`, `CloseDown`) and of Close (`Mark`, `CloseRegistry`, `CloseClient`).
  The RPC client below is taken for what CallContract promises: a call ends.
- **WebContext** - `run`, `Next`, `Fail` and the answers. `at` is the innermost
  loop or handler, `depth` the handlers under way, `begun` which have been
  called. **WebRouter** extends it: the tree as a function from the path of a
  node, registration in any order, and `Search`, which is doGetHandlers as a
  recursive function: `Visit` is what it does at one node with the results of the
  node's children. Segments are model values, of which a request's path may also
  hold "*" and ".". `Matches` and `Closer` are the reference definition: the comment
  of defaultRouter, except where it lets `/a/b/*` match `/a/b`; there they follow
  the code and router_test.go, which do not.
- **OrmSession** - one session: `clause` maps a kind of clause to its owner,
  `stack` is the statements under way, those of hooks on top of the one the hook
  is called for. `Start` builds up to the before-hook, `Execute` hands the text
  to the database and clears, `Return` ends the after-hook. The database is two
  counters of writes, saved and in the open transaction.
- **RpcClientProofs, RpcServerConnProofs, RegistryServerProofs, GebCacheProofs,
  RegistryClientProofs, BalancedClientProofs, WebRouterProofs,
  OrmSessionProofs** - the theorems; those of the contexts are with the router's,
  those of the ring with the cache's, those of dialling with the client's. **MC...** - constants and mappings for TLC.

Definitions marked "variant", and `RemoveNewest`, `RemoveFromList`,
`LeadUnchecked`, `TakeReplyAsIs`, `DoneAlone`, `AddUnsorted` and `PickAfter`, are
plausible bugs: no specification uses them; replacing the definition that
follows by one of them makes the property named with it in `PROJECT.json` fail.

## Runs

Passing:

- `rpc_client` - two calls, one with a deadline, one with a reply pointer that
  may not be encodable, all kinds of answers, the ticker and a closing user: no
  call is ended twice, stranded or given another's answer, outcomes are final,
  every call returns, the goroutines end after Close, and `CallContract` is
  implemented.
- `rpc_connect` - a client dials, negotiates and sends three requests to a server
  whose result channel is full after one: the constructor ends, so does its
  goroutine; a connection that the constructor gave up is closed at the server's end
  at last (AbandonedConnIsClosed); and when the connection is closed, everything at
  the server's end ends (ClosedConnUnwinds). Without `HeartTimesOut` the first, and
  without `drain` the second would fail.
- `rpc_server_conn` - a normal and a hanging request: nothing is sent on a closed
  channel, answers made in time are whole, every request is answered, silence is
  noticed.
- `registry_updates` - two providers and a watcher, registrations longer than
  three ticks included: indexes agree, every change is sent. `registry_alive` -
  heartbeats, timers and fairness: no panic, whoever is listed or registered as a
  client is watched, the dead are removed.
- `balanced_client` - two callers, one address, two updates, clients that are
  built or fail to be, a registry that fails, and Close at any time: the channel
  is never misused, one client per address is in use, Close leaves none behind,
  calls and Close return, updates are applied.
- `gebcache_peers` - two nodes with rings that loop for one key, a peer without the
  group, a peer that is down, and caches of one small datum: the accounting is sound
  through replacement and eviction, loads are merged, what is added is kept,
  peers' errors fall back, and a Get whose route reaches an owner returns
  although other keys are stuck. `gebcache_ring` - all small hash functions.
- `web_router` - four registrations in every order, before, between and during a
  request: the best pattern wins, behind its middlewires, and the chain is called in
  order.
- `orm_session` - four statements, modifiers and transactions of a user and of
  hooks, any of which may fail or panic.

Where the program does not do what a comment or note says (`findings` in
`PROJECT.json` quotes them):

- `registry_views` (ViewsAreCurrent) - what the registry tells a client is stored in
  the order of its arrival. In the trace a client asks for a name that has no
  instance yet; an instance registers, and its update overtakes the reply; then
  GetServiceAddrsForce stores the empty reply over the update, and the list stays
  outdated until the service changes again. One update can overtake another in the
  same way.
- `rpc_dial` (TimeoutReleasesConn) - NewClientTimeOut returns ErrTimeOut while the
  negotiation is under way; the connection taken from `connCh` is dropped, Close
  finds no codec to close, and when the goroutine has ended too the connection is
  still open, until the garbage collector finds it. client.go:333 and 设计与记录:40
  promise its release. A connection whose negotiation fails stays open in the same
  way.

Two more disagreements have no run of their own: the definitions follow the code,
so that a run that passes shows what the code does and not what is promised there.

- ImplementsContract: 设计与记录:22-25 and 41 say that a cancelled call gets
  ErrShutDown if it has not been sent, and ErrWaitingForReceiving only if it has
  been or is being sent (client.go:39-40 word the errors so). But `terminateCalls`
  (client.go:136-146) gives ErrWaitingForReceiving to every call in `pending`, those
  that still wait for `sending` included. `CallContract` allows it (`Cancel`).
- BestPatternWins: the comment of defaultRouter (router.go:18-20) lets `/a/b/*` match
  `/a/b`. The code and router_test.go (`Handlers("GET", "/a/b")` is empty) do not, and
  neither does `Matches`.

The models have further outcomes that a reader of the comments may not expect;
they are part of the behaviours above, and no run is spent on them.

RPC:

- `registerCall` puts a call into `pending` before `send` sets RECEIVING
  (client.go:50 says otherwise): the time in between is that of the unsent calls
  named above.
- CallUntil may return nil for a call that the receiver is about to end
  (`TimerFires`), and starts its timer only after the request is written.
- An error answer to a call with a reply pointer panics (`Deliver`).
- A negotiation that ends after ErrTimeOut starts the ticker of a client without
  codec, whose first heartbeat panics (client.go:295, `TickerWrites`).
- A method that ends after its time limit shares `err` and `resp` with the
  handler (server.go:202-223): it can replace the timeout error, and what is sent
  may be torn.
- A call whose client cannot be built ends with the `err` of GetServiceAdders,
  which is nil, not with `c.err` (clientBalanced.go:146, `BuildFailed`).
- CClient.Close calls Close of `c.c`, a nil interface while the client is being
  built: the process panics, and `mu` stays locked (clientBalanced.go:38-46). The
  liveness properties of `balanced_client` are stated up to this panic.
- More than Cap + 1 updates at once block HandleUpdate with `mu` locked, and with
  it doUpdate, GetServiceAdders and Close (`Send`). With three pushes and capacity
  1 TLC finds UpdatesAreApplied violated; the run has two.
- doUpdate that has not begun to range over `reg.ch` when a registration fails
  finds it nil and stays for ever (`Range`).
- GetServiceAddrsForce stores its answer over a newer update, or after Close
  (`StoreAnswer`).
- A registration that stalls for three ticks before it is listed loses its alive
  check (`Expire` before `List`), which is why `registry_alive` has no stalls.

Cache: a failed `http.Get` panics in its deferred Body.Close instead of falling
back to the local Getter (`TransportFails`).

Web:

- Below the first wildcard of the winning pattern middlewires are lost: only the
  fallback to `*` keeps those of the exact child (router.go:188-198), which is
  why MidwirsGuard speaks of the ones above it.
- A path without handlers is answered with 500; the 404 after it comes too late
  (`NotFound`).

ORM:

- A statement made by a before-hook inherits the clauses of the one it is called
  for, and a BatchInsert whose before-hooks execute statements loses its INSERT:
  OwnClauses leaves both out.
- BatchInsert and Insert without values leave the chained modifiers in place.
- `tx` stays set after Commit and Rollback (transaction.go:15), so later
  statements of the session fail.
- FindAll does not close its rows when Scan fails (session.go:198); rows are not
  modelled.

## Bounds

- `WireCap` 1: one request fits the connection, so a sender blocks on the second;
  a larger buffer only postpones that. `MaxSeq`: as many numbers as calls.
  The ticker sends forever, its messages share the wire.
- `ResultCap` 1 (10 in the code): the third handler finds the channel full while
  the sender holds one response. In `rpc_connect` requests are named in the order in
  which they come, and all their methods hang: they are answered by their timers.
- `MaxId`: one id per registration, as the code never reuses one. `Beating` and
  `Mortal` name the services whose heartbeats and deaths are explored: two
  providers differ in nothing else. `Stall` allows the alive timer to fire
  before a registration is over.
- `Lengths` {0,1}, `KeyLen` 1, `MaxBytes` 1 of `gebcache_peers`: an empty datum
  fits and a second one evicts it; the other datum exceeds the bound alone, so
  that adding it, or replacing an entry by it, empties the cache; the
  proofs cover all sizes. Two clients suffice to lead, to join and to load late;
  handlers add concurrency on the peers.
- `balanced_client`: `Cap` 1 and two updates, which are as many as channel and
  doUpdate hold; one address, whose client may fail once and be built again (2
  slots). Several addresses share only `b.mu` and the map, and BalancedClientProofs
  covers any number of them.
- `web_router`: patterns and paths over two segments, every pattern kind and an
  invalid one, four registrations: a dead end needs one, the three kinds of child
  of one node three, and a middlewire the fourth. `NextBound` 1: Next is called
  once beyond the end of the chain.
- `orm_session`: four steps among statements, modifiers and transactions, hooks one
  level deep, two tables, two values: a modifier, the statement that takes it, a
  statement of its hook and one after it.
- `MaxHash` 3 with 3 peers of 2 points: all 4096 hash functions are initial
  states, with points of one peer and of different peers that coincide. A ring
  without collisions of different peers has one or two places per peer.

Deadlock is checked except for the cache, whose clients may stop and whose loads
may wait for each other; the ring, which is finished when all peers are added;
and the router and the session, which stop when the bounded number of
registrations, requests or steps is used up. `balanced_client` says itself when
it may stop (`Stopped`): the process has died or everybody is done.

## Fairness

Every goroutine that can run does (weak fairness per goroutine): the Go
scheduler runs runnable goroutines, and its mutexes hand over to waiters. Timers
fire. The client's liveness additionally assumes a server that reads and answers unless
it vanishes: a write has no deadline, so a server that stops reading blocks its
callers. `rpc_server_conn` does not assume that a client sends anything, and the
heartbeat timer is only fair once the client is silent. In `rpc_connect` the client
runs too: a server that is up answers an option that it receives, one way or the
other, the end of a client reaches it unless the network is silent, and its heartbeat
timer is fair once no heartbeat can come any more. In the registry a service's
timer is fair once its process is gone, and updates arrive, in any order. No
client is assumed to call `Get`, to register or to close. In BalancedClient
requests to the registry and RPC calls end, one way or the other; nobody has to
call, to close or to push an update.

## Proofs

All are for every value of the constants that satisfies the named assumptions of
the module; none needs a bound to be small.

- **RpcClient**: `IInv` says that an unfinished call has exactly one owner:
  it is in `pending` under its own number, or in the hand of one goroutine, or
  refused; that whatever travels belongs to a call that was sent, under its
  number; and that only the holder of `mu` sees finished calls in `pending`.
  Neither EndedByOne nor AnswerIsOwn is inductive without these. From `IInv`
  follow those two, NoCallStranded, and the action property FinishedIsFinal.
  RpcClient implements `CallContract` (ImplementsCallContract): `Settle` of a call
  is seen as its end, `CloseBegin` as the shutting of the client, the steps in
  between are not seen. The mapping needs two more invariants: a timer takes only
  its own call out of `pending`, since numbers are not used twice (`InvOwnCall`),
  and a call has no error before it ends, so that an answer is never seen as a
  cancelling (`InvErr`). `LockInv` ties `sending` and `mu` to the place of
  the one goroutine that holds each; with it follow that requests never mix on the
  connection (OneWriterAtATime), that Close leaves no call without somebody to
  end it (CloseLeavesNoCall), and CallsNeverStuck.
- **RpcDial** (in RpcClientProofs): `DialInv` says which of `connCh` and `finish`
  is filled at each place of the two goroutines, and that there is no codec before
  the negotiation has installed it. DialNeverStuck follows, and CodecReleased: a
  closed client has closed its connection if and only if that had become its codec,
  which is the exact extent of the finding of `rpc_dial`.
- **RpcConnect** (in RpcServerConnProofs): each of its steps is a step, or a stutter,
  of both components (ConnectImplementsBoth), so that what is proved of each holds
  where they meet.
- **RpcServerConn**: `HandlersFirst` (the reader is past `wg.Wait` only when all
  handlers are done, and then starts no more) strengthens NoSendOnClosed.
  TimelyAnswersAreWhole needs `WholeInv`: unless the timer wins, the handler goes
  on only after the service goroutine has finished with `err` and `resp`, which
  then say the same, and a response is with the sender or the client only after
  its handler has let go of it. `FlowInv` follows each response: it is in one
  place (`OnePlace`: handler, channel, sender or client), and on an open
  connection in none that loses it (`Kept`); the reader, the sender and the
  heartbeat end in the order the code waits for (`Companions`). From it follow
  AnswersAreFinal, ResponsesAreKept and ConnectionNeverStuck. It assumes that a
  response is not mistaken for none (`NothingSent`).
- **RegistryServer**: `IdsAreFresh` (ids in use are at most the last id; nobody
  is listed before `seMu` was taken) strengthens IndexesAgree, from which follows
  that `resign` never finds a service missing from its list. EveryChangeIsSent is
  nearly inductive by itself: each section that changes a list leaves somebody
  about to inform, and `SentInv` adds that a service is a client, and asks for
  names, only once it has entered. MembersAreWatched (`WatchInv`) rests on ids
  that belong to one service, so that an alive check removes its own, and on
  `Arrivals`: who is about to be listed is watched. This last is where the theorem
  assumes `~Stall`: a registration that takes three ticks breaks it, as said above.
  `RemovalInv` adds, under the same assumption, how far each part of a removal is
  when `resign` is at a stage: it gives ResignedOnce (the request to resign and the
  alive check race, one of them runs `resign`, once) and TheDeadAreNeverStuck.
- **GebCache**: `LeaderIsRegistered` strengthens OneLoadPerKey: two loads of a
  key would both be the registered leader. `ResultsOK` (a load has no
  result before it is given one, and stores only a datum) gives ErrorsAreLocal, and `CachesOK`
  (list, map and byte count of every cache agree, each key once) is kept by Get,
  Add and the loop of Add, for all sizes; CacheIsSound and AddedIsKept follow. The
  second says that the loop stops before it reaches the new entry: the least
  number of removals that fits is less than the length of the list.
  RoutedGetsNeverStuck: in a set of goroutines that wait only for each other
  (`Deadlock`; they really occur for keys whose rings loop) there is no Get of a
  routed key. Every wait of such a Get is for another routed one (`RoutesOK`), a
  forwarded one is a hop nearer to the owner (`OneHopLess`), so that in a deadlock
  there would be none at the least distance. It needs finitely many nodes
  (`NodeSets`).
- **RingPicker** (in GebCacheProofs): `RingInv` says that the keys are sorted and
  are the points of the peers added, and that hashMap has the last one at each. A
  lemma finds that the binary search returns the least index whose key is not
  below the hash: its bounds enclose that index and their distance shrinks. So
  Pick returns the clockwise successor (PickIsSuccessor); two rings of the same
  peers are the same without collisions (RingsAgree); and a new peer takes keys
  only for itself, with collisions too (MovesOnlyToNewPeer).
- **RegistryClient**: who sends holds `mu`, and `closed` is not set under him
  (`InvSend`); until it is, the channel is open, and only the goroutine that set
  it closes the channel (`InvClose`). Hence ChannelIsSafe. `mu` stays locked only
  if HandleUpdate and doUpdate wait for each other (LockIsAlwaysFreed), and then
  for ever, as Close needs `mu` too (ClogIsForEver): the blocking after Cap + 1
  updates that is named above is the only deadlock, whatever the capacity.
- **BalancedClient** implements RegistryClient (ImplementsRegistryClient): each
  of its steps is a step of its registry client or leaves it alone, so that the
  invariant of RegistryClient carries over, and with it ChannelIsSafe. `BInv`:
  until Close the map names every client in use and every failed one that is
  still to be removed; who asks for addresses holds `b.mu`, so nobody makes a
  client once Close has taken the map; what is in use then is left for Close.
  From it follow OneClientPerAddress and CloseClosesAll. A caller waits for a
  goroutine that builds a client, this one for `b.mu`, its holder for `reg.mu`:
  `InvWait` and LockIsAlwaysFreed give CallersAreNeverStuck but for that deadlock,
  as long as the bound on clients (`SlotsLeft`) lets another be made.
- **WebContext**: `Counts` says that as long as `i` is inside the chain it counts
  the handlers called, but for the one that runs; it leaves the chain when all
  have been called or in Fail. InOrder and FailIsFinal follow, for every chain and
  nesting (`ContextSpec`). The router implements `ContextSpec` (ImplementsContext),
  since what its search returns is a list of handlers, so that both carry over.
- **WebRouter**: `TreeInv` says that the tree has the handlers accepted for each
  method and pattern, valid ones, and with a node the nodes on the way to it. Given
  it, the search is proved right node by node: `Under(m, path, n)` are the patterns
  that go through n and match the path below it, and a result is `Right` if it is
  found exactly when there is one and ends with the handler of the closest. An
  exact child, ".", and "*" split these patterns, and every one of the first is
  closer than one of the second (`Branches`, `CloserAt`, `VisitIsRight`).
  BestPatternWins is this at the root. For MidwirsGuard a result also `Collects`: it
  keeps, in order, some of the middlewires of the path's nodes from n on, among
  them all those above the winner's wildcard; nodes at or below a wildcard give
  none, which needs `WildsAreBare` as an invariant. The point of the proof is
  backtracking: what an exact child has collected in vain goes into the chain only
  if "*" answers instead, and then it is still middlewires of the path.
- **OrmSession**: `InvTx` (what was written since Begin is with the database's
  transaction, and a running Transaction has it open) strengthens TransactionIsAtomic.
  `ClauseInv` is behind OwnClauses and SessionIsClean: whoever uses the session
  while all statements below have been executed finds only its own modifiers in it
  (`OwnModifiersOnly`); a text built then is the one that its statement should
  execute (`TextsOwn`); and a BatchInsert's INSERT stays until a statement of its
  before-hooks is executed (`BatchesOwn`).

The recursive definitions (the sum of an LRU's sizes, the binary search, the
search of the tree, FlattenSeq of the community modules) are recursive functions.
What they compute is proved by induction over the numbers in a form without
operator parameters: every non-empty set of numbers has a least member
(`LeastNumber`, from WFMin), so a set that holds 0 and with a number the next one
holds all (`AllNumbers`), with the set of numbers for which the claim holds for it.

Only model-checked: liveness and everything under fairness, which the prover has
no rules for; and ViewsAreCurrent and TimeoutReleasesConn, which do not hold. Every other
property of the runs is a theorem. Of the liveness properties the safety half is proved, for every value of
the constants: what waits can move, or what it waits for can (CallsNeverStuck,
DialNeverStuck, ConnectionNeverStuck, TheDeadAreNeverStuck, CallersAreNeverStuck,
RoutedGetsNeverStuck). These spell out, as `CanMove`, `CanStep` and so on, when the
steps are enabled; that a step is then really enabled was evaluated by TLC on the
states of small instances, since the prover has no rules for ENABLED either. That the
moves also come to an end is what the runs show under fairness.

## Not modelled

- gob and JSON encoding, reflection over service methods (`service.go`), type
  registration: data conversions without concurrency; a value that cannot be
  encoded is modelled as a failing write, a method's outcome as a choice.
- The SQL text of clauses, schema, dialect and log of the ORM, rows and their
  values; headers and bodies of the web contexts.
- Setters and getters of single fields; `Accept`'s loop, which only starts
  connections; `PrintInfo` and logging.
- A registered name or group that is empty, malformed HTTP requests: rejected
  before any state changes.
- Registrations of handlers during a search, which the router does not lock
  against; panics of web handlers.
- Panics that end the process outside what the models are about: reflection on a
  request whose arguments do not fit the method (server.go:62-74), which no deferred
  function of the service goroutine recovers; a ring without peers, for which Pick
  names no peer and HTTPPool.Get calls a nil getter (http.go:53-60); and a failed
  `http.Get` in a goroutine that is no HTTP handler (in the model only the Get is
  lost, as in a handler, whose panic net/http recovers).
- A caller of a session that recovers a panic outside Engine.Transaction and goes on
  with clauses the statement left behind: in `OrmSession` such a panic ends the use
  of the session (`Panic`).
- Hooks that chain modifiers without a statement of their own, or end a
  transaction; a Raw text that is not executed at once.
- A client that falls silent before it sends its options blocks `ServeConn` for
  ever; the model has this state (`Ended`) and no property forbids it.

## Plan

1. Proofs: that a load of `GebCache` returns what the owner's Getter or cache gave
   (an abstract group without singleflight that the cache implements).
2. BalancedClient over RegistryServer's views instead of any list: the addresses
   a caller is given are ones the registry has listed.
3. A registry whose clients answer late, so that heartbeats and updates of one
   service overlap with its next registration.
