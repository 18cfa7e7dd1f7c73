# sp0rkle in TLA+

sp0rkle is an IRC bot: a goirc connection to each server, a set of drivers that
handle its events and commands, and a BoltDB file that keeps what they store.
This directory models the parts of it where an order of events matters, checks
them with TLC on small instances and proves the main invariants with TLAPS.

Run `tlc -config X.cfg M` for a run of `PROJECT.json` (its module `M` and
`X.cfg`), `tlapm M.tla` for a proof module. Every definition that models code is
listed in `PROJECT.json` under `map` with the lines it translates.

## The system

| part | state it keeps | operations | talks to |
|---|---|---|---|
| server connections and shutdown (`bot/serverset.go`, `bot/bot.go`, `bot/handlers.go`, `main.go`) | a `connectLoop` goroutine per server, its channel `wait` and its flag `shutdown`, the WaitGroup, `Bot.mu` | Connect, reconnect, the DISCONNECTED handler, Shutdown from a signal or the rebuilder's NOTICE | goirc; every driver gets its events |
| pollers (`bot/pollerset.go`) | registered pollers with their quit channels, contexts of the live connections | Add, CONNECTED, DISCONNECTED, one goroutine per poller | flights, minecraft, GitHub |
| dispatch (`bot/commandset.go`, `filter.go`, `rewriteset.go`, `context.go`) | commands by prefix, ignored nicks, rewriters | Add, match, Handle, help, ignore, unignore | every driver |
| indexed collections (`db/indexed.go`, `scan.go`, `db.go`) | values by object id and pointers to them from index keys, in nested buckets | Get, All, Match, Put, BatchPut, Del, Fsck, Next | bbolt; factoids, quotes, reminders, seen, stats, urls, pushes |
| keyed collections, configuration (`db/keyed.go`, `db/conf`) | values by key | Get, All, Put, BatchPut, Del, Fsck | karma, configuration |
| database file (`db/bolt.go`) | the handle, a backup goroutine | New, Close, backup | bbolt |
| reminders (`drivers/reminddriver`, `collections/reminders`) | stored reminders and tells, a goroutine per reminder, the maps `running`, `finished`, `listed` | remind, snooze, list, del, load, unload, tell, tellCheck | pushes |
| factoids | factoids by key, a cache of those shown, the last shown per channel | insert, lookup, edit, forget, pointers | |
| karma, stats, seen | a counter or a record per nick or thing | read, modify, Put; search | |
| quotes | numbered quotes, those shown, a rate limit | add, delete, look up | |
| markov | word pairs per nick, the nicks that are learnt | learn, enable, disable, generate | llama API |
| urls | URLs with codes under which they are shortened or cached | scan, find, shorten, cache | HTTP |
| pushes | a push state per nick: pending, authorised, confirmed; aliases | enable, OAuth over HTTP, confirm, alias | Pushbullet |
| flights | tracked flights, subscribers, aliases | stalk, unstalk, alias, Poll | PollerSet, a flight API |
| calculator (`util/calc`, `calcdriver`) | the last result of each nick | calculate | |
| dates (`util/datetime`) | none | Parse | reminders, calculator |
| decisions, text utilities (`util`) | none | split, colours, votes, pointers, plugins | karma, factoids |

The events of one connection are handled one at a time, but every handler of an
event has its own goroutine, and the connections, the pollers, the goroutines of
reminders and the HTTP server run beside them. The only lock the drivers share is
BoltDB's: a transaction is atomic, a read followed by a write is two. That, lost
connections, shutdown while connecting, restarts of the process and deadlines
that race a cancellation are what is hard here.

What makes each part correct:

- *connections*: one session per server; a lost one is dialled again until
  Shutdown; Shutdown ends every loop before the process exits, and it does end.
- *pollers*: while connected each poller has exactly one goroutine that goes on;
  a goroutine told to quit ends.
- *indexed collections*: a stored value is found under each of its keys, and a
  key finds nothing else; a batch is all or nothing; Fsck repairs pointers.
- *reminders*: each is said once, at its time, unless deleted; what waits can be
  cancelled; the store and the goroutines agree across reconnects and restarts.
- *read-modify-Put parts*: no increment is lost; one record per nick and action.
- *factoids, quotes*: a choice repeats only when all have been shown, and finds
  one when there is one.
- *pushes*: only a confirmed state is pushed to; a disabled one stays disabled.
- *flights*: a subscriber of a tracked flight hears of each change until it lands.
- *configuration*: what was set is read back, in memory as in the file.
- *backups*: every file of a backup holds one committed state, or is gone.
- *dispatch*: one command runs, the longest that matches; an ignored nick is not heard.
- *calculator, dates, texts*: an input means what its words say, however long it is.

## Modules

### IndexedStore, KeyTable (Database_proofs)

`IndexedStore` is an indexed collection: `store` is the last commit (`vals`: the
`_vals` bucket; `idxs`: pointers under complete keys; `bkts`: the nested buckets
that exist), `batch` the copy that a BatchPut is building, `scan` what Fsck is to
delete of what it has read, `copy[c]` the value a handler holds since an earlier transaction. `PutTx`,
`DelIndex` and the index pass of Fsck translate the code as functions of the
store, with its order and early returns: `delIndex` goes through the keys of the
*copy it is given* and stops silently at the first whose bucket is missing; Put
unindexes the stored value before it indexes the new one; the index pass of Fsck
looks at the top level only. `IndexPassFails` and `ValuePassFails` say when a pass of Fsck
returns an error, which rolls back what both have done. `KeyTable` is what a collection
promises: a table of values by id, searched by key.

- `records`, in its scene "collection": two ids, one with three forms, four keys of which one
  is nested, two clients, who are alike. `Complete` (a stored value has all its pointers,
  also inside a batch), `Exact` (pointers lie only where an outdated copy was deleted) and
  `ImplementsTable` (refinement: a lookup of any key answers what a search of the table
  would).
- `fsck`: two values of one key, no nested bucket. It violates `FsckRepairs`, that Fsck makes
  every key of a stored value point at a value that has it: one of the two is deleted, the
  pointer goes with it, and Fsck does not give it to the other.

Fsck repairs nothing in a collection that holds a value. `fsckValuePass` (`scan.go:102`)
decodes what is stored with the prefix that `toBson` writes before it, which every other
reader takes off (`suffix`, `scan.go:56`, `77`, `159`, `indexed.go:144`, `315`). The decoder
reads the prefix as a length of half a gigabyte and refuses it; the error rolls the transaction of
`indexed.go:289` back, the deletions of the index pass included. Where index keys are nested
the index pass fails before that: it meets a bucket where it expects a pointer, and bbolt does not
delete a bucket so. Only a collection with neither has its pointers dropped. The comment at
`stats.go:77` says that the pass "repoints", and `scan.go:128` logs "incorrect, fixing".

More to know, met while modelling: nothing calls Fsck, and nothing reads the flag
`fsck_on_startup` (`main.go:52`), so dangling pointers outlive a restart; the keys `S{"a","\xff"}` and
`T{"a",true}` have the same bytes; `Next` asks for an interface that a nil pointer in
one also has; and two
values that file under the same complete key, as two reminders of one nick for the
same moment do (`reminders.go:71`), hide one another in that bucket.

Two ids and three forms of a value are the least in which keys move, are shared
between an old and a new form, and are taken by another id; the proofs remove
the bound. A key is never also a bucket (assumed; the drivers' keys have fixed
shapes), and BoltDB's transactions are trusted.

Proved for every set of ids, keys, buckets, values and clients: `TypeCorrect`,
`PointersExact`, and, when keys are unique, `PointersComplete` and `Implements`.
The inductive invariant `IInv` is the type invariant with `Good` of both states
of the store: the committed one and that of the batch (otherwise a commit could
bring in anything). `UInv` adds that every value is indexed; it needs the
buckets of a stored value's keys to exist, since `DelIndex` stops where one does
not. `Grows` relates the batch to the commit for the refinement: while it runs
only puts happen, so its steps are invisible and its commit is one Put of the
table per value.
Fsck adds one lemma, `PassesGood`: what it commits when it does not fail is in order, since
it fails as soon as a value is stored.

### ServerSet, ServerSet_proofs

The connections from `Connect` to the end of the process. `loop[s]` is where the
connectLoop of `s` is, `conn[s]` the goirc connection (*closing*: Connected() is
false and its goroutines are being waited for), `gone[s]` DISCONNECTED handlers
blocked on the unbuffered `wait`, `call[c]` the Shutdown of the signal goroutine
or of the NOTICE handler, step by step. A send on an unbuffered channel is one
step with its receive. External behaviour of goirc that the model takes over:
Connect and Close hold the connection's lock, Connected() takes it, Close waits
for the connection's goroutines and then dispatches DISCONNECTED, and the events
of one connection are handled one at a time. `server.shutdown` is written and
read without a lock; a step reads the last value written.

- `server_set`: two servers, up to two interrupts; `faults` says, for each
  behaviour, whether nothing goes wrong or dials may be refused, connections
  dropped, interrupts come before Connect and a NOTICE shuts the bot down.
  `OneSession`, `LoopsEndFirst` (unless a NOTICE),
  `Redials` (until a Shutdown) and `CleanShutdown` (when nothing goes wrong: with a
  fault the shutdown may hang, see below). Fairness is weak, on goroutines that are
  enabled, on dials that end and on a server that closes after QUIT; nothing makes a
  user interrupt or a connection drop.
- `select_break`: what the comment at `serverset.go:50` says and the code does not
  do: the `break` leaves the select only.

The run reaches states in which the bot hangs for good, which is why it does not
check deadlock: a connection that drops while Shutdown looks at it has its
handler's strobe taken by the ending loop, and Shutdown's own strobe has no
receiver; while it hangs the signal goroutine does not receive a second interrupt;
a NOTICE handler that calls Shutdown waits for a DISCONNECTED that its connection
dispatches only after the handler has returned; and an interrupt before Connect
holds the bot's lock that Connect needs. A NOTICE during Connect may also find the
WaitGroup at zero between a loop's start and its Add.

Proved for every finite set of servers, every fault and every bound:
`NeverDialsOpen`, `NeverMissesDisconnect`, `CountsLoops`, `EndsLoopsFirst`,
`TypeCorrect`. The inductive invariant: a connection that is not down has a loop
that waits or is done; a blocked DISCONNECTED belongs to one that is down with a loop that waits
or is done, and there is at most one; a loop that waits with its connection down
is owed one; and (`Marked`) a Shutdown that strobes a server has set its flag,
which is why a strobe that is not a disconnect ends the loop and cannot make it
dial an open connection. `EndsLoopsFirst` adds what the lock excludes: the signal
goroutine's Shutdown waits at a WaitGroup to which Connect has added every loop.

### PollerSet (Bot_proofs)

The pollers' goroutines. A run is one goroutine of `startOne`; `quit` is
`pollerSet.set`, `closed` and `ticked` are what its select can receive. Go's
select chooses at random among ready channels, so a run that was told to quit may
poll again before it ends; that it does end is a strong fairness of `Quit` (a
choice that is possible again and again is made some time).

- `poller_set`: two pollers, two connections, three runs, so that a poller is
  restarted while its old goroutine still polls. `OneLiveRun`, `ClosedEnds`,
  `KeepsPolling`.

Proved for any finite set of pollers, any connections and any number of runs:
`OneGoroutine`, `PollsSomewhere`, `TypeCorrect`. The invariants are inductive with
`Owned`: a run that was not started belongs to nobody and was not told to quit.

### Reminders, Reminders_proofs

Reminders and their goroutines. `db` is the collection, `timer[k]` a goroutine of
`Remind` with its context's deadline, `running`, `finished` and `listed` the three
maps, `handler[c]` what the handler of connection `c` still has to do. The steps
are those between which another goroutine can run: reading the records on load,
pruning them, starting each, and for a goroutine its deadline (after which cancel
does nothing), saying it, `finished`, `running`, the record. Time is a clock that
ticks; a deadline may be noticed late. `unload` is one step, and it is over before
the next CONNECTED of the same server: a reconnection is a dial, a registration
and a welcome over the network, and the handler a loop over a map. A message for a
connection that is gone counts as said.

- `reminders`: two reminders, one connection that drops and comes back, a snooze and
  a restart. `NoStaleCancel`; until the snooze `Killable`, `SaidOnce`, `Kept` and
  `DueIsStored`; `Forgotten`, under weak fairness of time, handlers and goroutines.
- `reminders_kill` (violation): `Killable` with two servers. "We need to be able to kill
  reminder goroutines" (`reminddriver.go:28`), but `load` runs on the CONNECTED of each
  server and starts a goroutine for what is stored, also where one waits: the entry of
  `running` is overwritten, the first goroutine cannot be stopped, and both say it.

The ways in which goroutines and records part, met while modelling: a reminder that
is snoozed twice is said at the time of the first snooze, though the help says
"Resets the previously-triggered reminder." (`reminddriver.go:67`); a reminder snoozed between `finished` and Forget of the goroutine that said it loses
its cancel function and its record; one whose time comes while disconnected is
pruned on reconnect, never said; and the DISCONNECTED of one server stops the
reminders of all the others, which do not reconnect. `Kept` is therefore stated for
times when every server is connected.

Two reminders let the goroutine of one end while the other's waits, share a target
and differ in who may list them; two goroutines are enough for an old and a new one of
the same reminder, or one of each, and an end is reused by another. Of one reminder two
servers can have two goroutines, and a third connection event brings a lost one back.

Proved for any reminders, nicks, times and bounds. With any number of servers: `TypeCorrect`,
`CancelsItsOwn` (`NoStaleCancel`, inductive with the types) and `NoneIsMissed` (`Kept`). For
`Kept` the invariant `KInv` says who is about to start or delete what nobody waits for
(`Covered`) and that all that was ever read or started for a reminder has the same time
(`OneTime`): otherwise a goroutine's end could be that of the last one for a later time.
With one server (`Conn = {c}`, which the finding shows to be needed) `CanBeKilled`,
`NeverTwice` and `NoneComesLate` (`Killable`, `SaidOnce`, `DueIsStored`): `Agree` relates
records, goroutines, `running` and what the handler has read, part by part: no two
goroutines for one reminder (`Once`), those that wait in the map (`InMap`), their records
stored as they were (`AsStored`), and what load has read unstarted and unsaid (`Pruning`,
`Starting`).

### Factoids, Factoids_proofs

What the bot is mostly for: values taught under keys and shown when somebody says
the key. `store` is the collection (IndexedStore proves that a lookup by key finds
what a table would), `seen` the cache of `GetPseudoRand`, `lastSeen` the factoid
that "that" means in each channel. A line starts two goroutines: `act` is its
addition or command, `look` its lookup, and they interleave at each transaction
and each access to `lastSeen`. A value is the sequence of keys it points to, a chance
is certain or not; the text, the type and the access counts are left out, and so
are the errors of the store. `recurse` is a step per pointer: it looks one up with
`GetPseudoRand` too, so that it advances the same cache.

- `factoids`: one connection, two channels; each behaviour has one of three sets of
  lines (pointers in a cycle with `MaxKeys` 1 for the code's 20, and a line that is
  both a command and a key; the values of one key; the random lookup). `Fair`: of two
  values of a key neither is chosen three times before the other. `Answers`: a key
  with values finds one unless something was forgotten since the cache was last
  wiped. `ThatIsLast`. `Settles`, under weak fairness of both goroutines.

Three values are the least with which one can be forgotten in the middle of a
round; two connections would only add stale lists, which weaken `Fair`. Met while
modelling: the lookup puts back the factoid it read before its choice, so when the
text of a command ("forget that") is itself a key, the factoid it deletes or edits
can be brought back by the lookup of the same line, after the bot has said that it
forgot it. And when the only value of a key not yet shown is forgotten, the next lookup
finds none, once, although there are others: the comment at `factoids.go:204` ("people have
deleted it since") is of another case, that all are gone.

An addition has its id from the moment it is heard, and not from `NewFactoid` one step
later: ids are only unique, and with it the bound on them is exact.

Proved for any keys, lines, values and bounds. With any number of connections
`TypeCorrect`; with one (`Conn = {c}`) the rest, since another connection can refute it: a
list of factoids read before another's "forget that" puts an id into the cache that no
longer counts (`Answers`, `Fair`), and `lastSeen` of a channel name two servers share is the
other's (`ThatIsLast`).

- `ThatIsTold` (`ThatIsLast`): both goroutines of a line are about one channel, and `Told` is
  what a lookup that has chosen will report. It needs `PlainAdds`, that the line of an
  addition is not itself a key: after "a :is b" := x, the line "a :is b" both teaches and
  shows, and then "that" may be the one while the channel was told of the other last. The
  lines of the run satisfy it.
- `KeysAnswer` (`Answers`): a stored value, one in the list of a goroutine and the one a
  command is changing are copies that may each be put back. `KeyInv` says that all of an id
  are filed under one key, and that what is in no copy any more does not come back;
  `HoldInv` that lists are up to date while an addition has not stored its own
  (`Stable`), and that what a lookup holds and the collection no longer has was forgotten by
  the command of the same line, which is done (`Listless`, `Choiceless`).
- `TurnsFair` (`Fair`): `StreakInv` on top. i has had two turns since j's only if i's second
  was the first of this round, and j is still to come in it or is gone for good (`Bounded`);
  only factoids of a key are passed over when it is looked up (`Related`); a list read
  earlier still has all of those (`Lists`).

### Pushes, Pushes_proofs

The push notifications of a nick. `db` is the collection, with the transactions of
`IndexedStore` (INSTANCE, over the index keys "nick" and "aliases"); `cmd[c]` is the
command a connection handles and `req[r]` an HTTP request, each with the copy of the
state it has read. A handler's lookup (which may delete a state whose hour is over),
its call of Pushbullet's API and its write are separate steps; `old` are the states
whose hour has ended, which may happen between any two of them. `pushed`, `typed`
and `off` are history. A token, a device and a pin are members of small sets, a
pin is new each time. Requests that only show a page change no state and are left
out, and so are the errors of the store.

- `pushes`: two nicks, two devices, two states, one connection and one request.
  `Confirmed`: a state that pushes go to has the device to which its pin was
  pushed, and the pin was typed: the request may put a copy that it read before
  the confirmation, but then it is not done. `OwnDisable`: `push disable` deletes the
  state of its own nick only, though there are pointers from aliases, stale ones too.
- `push_disable`: the help of `push disable` says that tokens are deleted; a request
  that has read the state before puts it back after, with a token.

Two states are needed for one to be the alias of another and for enabling anew,
two pins for one to be overtaken. One connection: its commands already meet every
step of a request. Met while modelling: a request for a state that is not stored
reaches `Del` with nil (`push.go:146`), which panics, before the handler's "nostate";
a confirmation may be deleted by a handler that read the state before it and finds
its hour over; visiting `/oauth/auth` again replaces the token of a confirmed state. And
`push enable`, which looks for aliases, may delete the unfinished state of another nick: with
two requests beside it, one that puts an alias back between the read and the deletion of
`push disable` leaves the alias's pointer dangling, and the other, which read the state
before it was confirmed, stores it again without that alias.

Proved for any nicks, devices, connections, requests and bounds: `TypeCorrect`, `PinsConfirm`
(`Confirmed`) and `DisablesOwn` (`OwnDisable`). Every copy of a state, stored or held by a
handler, may be put at any time, so the invariant is of all of them (`SoundWith`): a pin
is there with the device it was pushed to, and done means that the pin was typed. For
`OwnDisable` it says that all copies of an id, and the pointers of nicks to it, agree on its
nick: as the ids come into being one by one, that there is a function from ids to nicks
with which they agree. `PutIs`, `DelIs` and `LookupIs` are what is needed of IndexedStore.

### Flights, Flights_proofs

The tracking poller, which talks to subscribers on several networks. `tracking` and
`aliases` are its two maps (`heard` is the set of subscribers, with what each was
told last, a history variable); `cmd` the stalk command a connection handles, between
its query and the aliases of the flight's codes; `poll` the goroutine that polls
while anybody is connected and an old one that was told to quit and is still at it.
`PollerSet` has all the goroutines; here one old one is enough for two polls to
overlap, each with the contexts it copied. Answers come from `sky`, as it is when the
service is asked; of what is said of a flight only what makes two texts differ is
kept (an active flight reads like an airborne one). A panic ends the process (`up`).

- `flights`: one flight with two codes, two networks, two commands in a behaviour; a
  behaviour is one of two scenes, one code and polls that overlap, or both codes
  and both networks (which makes several flights tracked, so that some queries may
  fail) and none that overlap. `AliasesEnd`, on which the end of `getLocked`'s recursion
  rests. `Told`: what a subscriber heard last is what the bot knows, unless it learnt it
  from another's stalk command or sent it while the server was lost.
  `LandedForgotten`, when polls are made, commands end and queries do not fail for ever.

Met while modelling, and why the properties say no more: an answer of before take-off
applied after one of after it (a stalk command beside a poll, or two polls) looks
like a landing, and the flight is forgotten in the air; a subscriber who comes from a
network that connected while a poll was waiting for the service is dropped by it as
"No longer connected" (`flights.go:58`); a stalk command that finds the flight landed
or changed tells nobody else; with live data a landing may not change the text, and
then nobody is told; the failure of one query of several ends the process
(`results[flight]` is nil); and nothing expires: `old` is not called, although
`flights.go:116` speaks of an expiry timer.

Proved for any planes, codes, networks and answers: `AliasesLead` (`AliasesEnd`) and
`SubscribersTold` (`Told`). `IInv` is both with the types, as neither is inductive alone:
a name stands for a tracked flight, whose subscribers can be told, only if aliases lead
to one.

### Handlers and the parts that read, then put: Counters, Seen, Quotes, Urls, Markov, RateLimit, Records_proofs

`Handlers` has what these share: connections (`Conn`), each of which handles one event
at a time with every handler of it in a goroutine of its own, object ids and the two
operators that `IndexedStore` wants of Fsck, which nothing calls. Each of the others
has a variable with the collection and one with where the handler of each connection
is (`voting`, `sights`, `quoting`, `work`, `chains`: a `pc` and what it has read).
A read is a step and the Put that follows it another; the transactions are those of
`IndexedStore` by INSTANCE (karma and markov are keyed and have functions). What is
left out of a record (texts, who voted last, words and hours) is not tested by any
guard. History variables say what was promised: `heard` and `told` count the votes and
lines, `lastAt` the events, `announced` the codes, `forgot` the quotes deleted; `met`,
`crossed`, `risky`, `inHand` and `outlived` those of which two handlers crossed.

- `records`: one module per behaviour (`scene`; they share no state, and the seventh is the
  collection of `IndexedStore`, whose clients are the two connections), two connections
  and up to four lines or commands, which is what two handlers need to cross on a record
  and a third to see what they left. Symmetric in the connections. No fairness: what is
  stated is safety, each time of everything that did not cross, and a weaker promise for
  what did. `CountsKept`: scores and counts are exact, or less than what was said and
  never more. `LeaderListed`: the top ten begin with the first, where no put crossed another. `NewestSeen`: one record
  per nick and action with the newest time, though times may be equal. `DeletedStays`:
  a number names one quote, and what was deleted stays so. `CodesLead`: a code
  announced leads to its URL and its file. `ChainsWalk`: generation ends in the middle of
  a chain only where a URL was left out or the chain goes. `RateKept`: see below.

Proved in `Records_proofs`, each from an inductive invariant larger than what it says:

- `RateIsKept`, for every gap and however long it goes on: in no window are more calls let
  through than its time allows, and the burst. The badness says nothing of windows;
  `RateInv` relates the two: what the window's calls are *due* (a gap each, less the time
  since the first) is never above the badness, which refused calls only raise, nor above
  the burst.
- `QuotesStay` (`DeletedStays`), for any connections, texts and expressions: `QuotesInv`
  has that ids and numbers to come are new, also to the handlers that have taken one and
  not put it yet, and that each pointer is that of the quote it finds.
- `ChainsLead` (`ChainsWalk`), for any words, tags and connections: `MarkovInv` has what a
  handler that learns a sentence has still to link, and what a walk stands on.
- `CountsAreKept` and `LeaderIsListed` (`CountsKept`, `LeaderListed`), for any lines, votes
  and connections: `CountersInv` has that no copy in hand holds more than what was told by
  then, that ids never run out since each handler at work has a line of its own, and that
  a record which no put crossed is pointed at with what was told of its nick.
- `NewestIsSeen` (`NewestSeen`), for any nicks, actions and connections: `SeenInv` has that
  what a handler holds of a nick and action that no two crossed is what is stored, so that a
  put never goes back in time. The time keys of a nick are shared: the record that takes one
  is listed under it, and of every record something as new stays listed.
- `CodesAlwaysLead` (`CodesLead`), for any URLs, codes, hashes and connections: `UrlsInv`
  has, of the codes that are not risky, that one record alone has each and is found by it,
  that the codes of a copy in hand are still stored, and that a code that was tried is free
  still and its file nobody else's. Ids are new because each is one handler's alone until
  it is put.

Met while modelling:

- a nick may be off the list for good: when two connections put a record across each
  other, the later put deletes the lines key that the record has by then, and with it the
  place of another nick that had come to have as many lines (`stats.go:75-79`).
  `LeaderListed` once left that out: the run's four lines are too few for it, which the
  attempt at its proof showed, and TLC then with seven.
- karma and stats lose a vote or a line when connections cross. The stats of a private
  line are looked up under the nick as channel but stored under the bot's nick, so none
  is ever found and every private line makes a new record.
- `quotedriver.go:49` speaks of a burst of four; the code lets five through. The map of
  limits is shared by all connections without a lock.
- a quote deleted between a lookup's read and its Put is back; a lookup of an expression
  whose last unshown quote was deleted answers that there is none, once.
- `seen` keys a record by the exact nick where its indexes are in lower case;
  `SeenAnyMatching` is ascending though `commands.go:31` speaks of the most recent ten,
  and nine are printed; of a kick the nick is taken from the line's text, the reason.
- `Encode` shifts the checksum by i and not by 8*i bits; after ten codes in use `shorten`
  stores and announces an empty one; an older copy put back takes the code of a record.
- a line being learnt while its nick disables markov leaves a chain; a nick with no chain
  is told that disabling failed, though it did not.

### Keyed, Conf, Dispatch (Bot_proofs), Backup (Database_proofs), Dates (Reminders_proofs), Lexer, Calc, Text

What all drivers use. `Keyed` is a keyed collection: `tree` holds its buckets, values
and sequences by path, a path the bytes of a key's elements, encoded as `db.go` does
(name, separator, value). A batch puts its values step by step in its own copy of the tree
(`batch`), which no other writer crosses and which Get and All do not see before it commits.
`Conf` puts namespaces on it, next to the in-memory one
of the tests (`mem`). `Backup` has the handle, the loop's goroutine and `doBackup` step by
step, with the file of each minute; the process may die at any of them. `Dispatch` has the
lines of several connections, each with its handlers (`progress`), the set of ignored nicks
and what ran. The others are functions: `Lexer` the positions that `util.Lexer` stops at;
`Calc` tokens, the shunting yard and the stack machine on terms (a number is the term
that gives it, so nothing is rounded and two results are equal only for the same term);
`Text` colours, votes, pointers, options, plugins; `Dates` the setters, `resolve` and the
command remind's last correction. A text is a sequence of symbols, or of the phrases of a
grammar. `Calc` also has the last result of each nick, and `Text` and `Dates` a text
that grows, so that TLC goes through all short ones; `lexer` is what the phrases of a text
about dates (`spoken`) have set.

`shared`: a behaviour is one of seven scenes (`Scene`), each of one of these modules.

- `KeyedKept`: what is under each key is what the last successful call left there, batches
  whole, sequences kept. Eight keys, nested, partial and of every kind of element, batches of
  two.
- `ConfAgrees`: a namespace in the file answers as one in memory does. Two namespaces.
- `BackupsWhole`: a file that nobody writes restores to a state that the database was in,
  and there is one of this process. Four minutes and two commits, in which a tick, a Close
  and a restart share a minute or not.
- `Dispatched`: the longest command, once, never along with an addition, never of an ignored
  nick. Three lines, of nine, on two connections.
- `CalcAgrees`: an expression written out of a term, with as few brackets as the precedences
  allow, gives that term, also after texts that are no expression. Three calculations by two
  nicks, the first of which has expressions three operators deep.
- `TextAgrees`: each tool does as its comments say, but for the texts that the property
  excepts, in which the code does not (see below). Texts of five to seven of the symbols
  that matter to a tool (in seven fit two colours of two parts).
- `DatesMeant`: each phrase means what its words say by counting days and months, and a text
  what its phrases mean one after the other in the order of resolution, whatever order they
  stand in. Seven days of each of fourteen months, from the first to the last, with a leap
  day among them, and two phrases on three odd ones (a leap day, the 31st, late on the 3rd).

Symmetric in the connections and in the nicks that calculate. No fairness: only `Backup`
could want it, and a ticker that stops is not this code's.

Proved for every number of minutes and of transactions: `BackupsAreWhole`, that is
`BackupsWhole`. `BackupInv` adds who writes: a backup is New's or a tick's; New's is of
the minute the process started in and of its first state or a later one, and a tick's of
a later minute, also a tick that waited while New or another tick was copying, so that no
tick takes the file of New, and a copy that fails takes only a file that it wrote.

Proved for any connections, commands, nick of the bot and lines: `LinesAreDispatched`,
that is `Dispatched`. `DispatchInv` says of each connection (`ConnInv`) that a handler has
done something only if it is past the filter, and then one thing, which its line allows;
that what ignore said is in the namespace (`muted`); and that no handler of a muted nick's
line is past the filter, so that none of them can still run when another connection's
unignore ends the promise. The lemmas under it are about texts: `TrimmedIs` and
`ContextIs` (taking the bot's nick off a line adds no mark of an addition, so that insert, which
looks at what is left, and the commands, which look at all of it, never both act), `PrefixIs` and
`MatchIsLongest` (no prefix that is added is longer and fits too, also one that was refused
because it was there).

Proved of keyed collections and the configuration, for any keys, values, namespaces and
settings: `KeysKeep` and `NamespacesAgree`, that is `KeyedKept` and `ConfAgrees`. `KeyedInv`
says of the tree, and of the copy of a running batch, that under the paths of the keys that
should have a value there is that value, and no other value; that the buckets on the way to
each are there, no bucket is anything but the beginning of a valid key, and none is where a value is
(`Fits`); and that the sequences have their buckets (`Numbered`). The lemmas under it are about
bytes: the first separator of an element of a valid key is the one after its name
(`Separated`), hence paths are beginnings of one another only if their keys are (`PrefixOfBytes`).
That needs `KeysDiffer`, which the code leaves to those who choose the keys: elements of one
name and the same bytes are one element. `StringsDiffer` shows that it holds of valid keys
of strings, and karma and the configuration have no others; `NamespacesAgree` has no hypothesis.

Proved of dates, for any phrases that the grammar has and any moments, with texts of any length:
`DatesAreMeant`, that is `DatesMeant`. `DatesInv` has four parts: `DatesType`; `Started` (the
lexer has set nothing, or what its one phrase sets alone, or something); `YearsSaid` (a year
or month that is set was said by a phrase that has one); `Merged` (of a text of one phrase of each
rank the lexer agrees, in the fields of each rank, with one that read the phrase of that rank
only). The last is what makes texts composed: `resolve` is a stage per rank (`ResolveIs`),
and a stage reads only its rank's fields (`StagesAgree`). That each phrase means its words is arithmetic
of the calendar: `MonthsFollow` and `DateIs` (time.Date and its inverse, whatever month and
day they are given), `EveryMth` (how many of an interval's numbers are of one class),
from which come `NthDay` and `NthMonth`, the corrections by one of `dayOffset` and
`monthOffset`; `PhraseMeans` collects the phrases.

Met while modelling:

- *keyed collections*: names are checked for separators, types and values are not: the
  elements S{"a", "\xff"} and T{"a", true} are one key, and so are two times of one
  millisecond. Next, Get and All do not check names either (`keyed.go:281`).
- *configuration*: an integer of 2^31 or more is read back as 0.
- *backups*: `doBackup` takes no lock and panics on the handle that Close sets to nil,
  leaving an empty file; the error of the deferred Close of the gzip writer is dropped; a
  copy that fails removes the good file of its minute. Nothing reads `backup_on_startup`.
- *calculator*: "1(2+)" and "-(1)+" have an answer; "-(3)" begins with the number 0; "1e" is 0;
  "abs2" panics, which goirc recovers from; the map of results is shared without a lock.
- *dispatch*: "bot:is ..." is dropped by both handlers, one of which takes off the nick that
  the other looks for.
- *texts*: `RemoveColours` reads beyond a text that ends in a colour, and takes a comma with no
  number after it, against its grammar (`utils.go:41-46`); `FactPointer` reads beyond an unclosed
  "*{"; "a++b++" is two votes, and "c+++x" one for c, against `karmadriver.go:62`; a quote that
  holds "<plugin=quote" is expanded for ever; `decide` may choose nothing of "a  b".
- *dates*: "12:30pm" is half past midnight and "12:30am" half past noon: of the three rules
  for half days only the first calls `ampm`, whose comment says otherwise (`lexer.go:90`). From
  July on "january" is last January, though `lexer.go:392` wants the closest: Go's %
  keeps a sign. On the 29th to the 31st "february" may be in March, and so may the "3rd
  tuesday of february". "remind me ... at midnight" is refused as past. What `Error`
  collects ("Parsed two times") is never reported, since the parse goes on; "1 day ago 2
  hours ago" is a day ago and two hours on; "32 december" is in the year 1. "3rd tuesday
  of 2016" with a month elsewhere panics.

## Proved, checked, not modelled

Proved with TLAPS, for every value of the constants: the type invariants and every safety
property of the passing runs of IndexedStore, with its refinement, ServerSet, PollerSet,
Reminders, Factoids, Pushes, Flights, all of `records`, Keyed, Conf, Backup, Dispatch and
Dates. Some have hypotheses, named in their sections: unique keys in IndexedStore, keys that do not
collide in Keyed, one server in part of Reminders, one connection and plain additions in part
of Factoids. The type invariants of Reminders,
Factoids, Pushes and Flights are in no run: the theorems say more.

Model-checked only: `CalcAgrees` of Calc and `TextAgrees` of Text. They are about what
recursive functions and folds compute of texts of any length, which is an induction over data and
not within the prover's reach; nor is liveness under fairness (`Settles` and its like).

Not modelled are the parts of `PROJECT.json` with status `not_modelled`, with the reason
for each: other network pollers and lookups, the BSON encoding, the regression test
harness. Of the parts modelled: panic recovery, connection settings and the JOINs of
`serverset.go`; tells and time zones of reminders; in factoids the commands that only
read, and regular expressions; Fsck of keyed collections, which deletes nothing in those
there are; insults, which ask an LLM; bases, netmasks and dates of the calculator's
driver; the tokens of dates, with zones, minutes and ISO durations. Concurrent writes to a
Go map may end the process; the models take each access to a map as one step.

## Plan

1. Tells and `tellCheck`, which share the collection of reminders.
2. The pollers of GitHub and of Minecraft servers, on PollerSet.
