# A verification of go-avahi in TLA+

go-avahi binds the Avahi client library (C) to Go. A program makes a `Client`,
makes browsers, resolvers and entry groups on it, and reads their events from Go
channels. The code is small, but three kinds of actors meet in it: the goroutines
of the application, the goroutines that the package starts itself (one or more for
every event queue), and the event thread of Avahi, which calls exported Go
functions. This directory models how they meet, checks it with TLC, and proves with
TLAPS what is safe about the event queue, the Client with its children, the two
together, the entry group, the poller, the resolvers, and the loops that take domain
names and TXT records apart.

Line numbers are those of the source at the commit that stands beside this
directory.

## 1. The system

### 1.1 Components

| Component | Source | State | Operations | Correct when |
|---|---|---|---|---|
| Event queue | `eventqueue.go` | `buf`, `closechan`, `outchan`, `closewait`, mutex; procs, each with a value | `init`, `Push`, `Close`, `proc`, receive from `Chan` | no event lost, duplicated or left behind; nobody sends on the closed channel; `Close` returns though nobody reads |
| Client | `client.go`, `closer.go` | `avahiClient`, `threadedPoll`, `queue`, `closed`, `children` | `NewClient`, `Close`, `Get*`, `begin`, `end`, `addCloser`, `delCloser`, `clientCallback` | `Close` takes every child with it; no callback on a closed object; no C object used after it is freed |
| Browsers | `servicebrowser.go`, `domainbrowser.go`, `recordbrowser.go`, `servicetypebrowser.go` | C object, `queue`, `handle`, `closed` | constructor, `Close`, `Get`, `Chan`, callback | as a child of the Client |
| Resolvers | `serviceresolver.go`, `addressresolver.go`, `hostnameresolver.go` | the same | the same, and answers of their own for loopback names and addresses | as a child; each has its answer once |
| Entry group | `entrygroup.go` | the same, and `empty` | `Commit`, `Reset`, `IsEmpty`, `Add*` | as a child; `empty` agrees with what the daemon holds |
| Poller | `poller.go` | `sources`, mutex | `AddXxx`, `Poll`, `delSource` | events in the order of their source; a source stays until it is closed; `Poll` ends with its context |
| Domain names | `domain.go` | none | `DomainFrom`, `DomainSlice`, `DomainEqual`, ... | slicing is the inverse of joining |
| DNS records | `dns.go` | none | decoders of A, AAAA, TXT | no string lost, no read past the end |
| C glue | `glue.go` | none | addresses, string lists, comparison | each pair of conversions is an inverse |
| Loopback, localhost | `loopback.go`, `localhost.go` | cached interface index | `Loopback`, `MustLoopback`, `isLocalhost` | an error is not cached; a name forced on a loopback address resolves to it |
| Names of constants | `*event.go`, `*state.go`, `err.go`, ... | none | `String` | |

### 1.2 How they interact

* **Calls.** An application goroutine calls constructors and methods. What touches
  Avahi is between `Client.begin` and `Client.end`, which lock the mutex of the
  `AvahiThreadedPoll` (`client.go:205-220`).
* **Callbacks.** The event thread of the poll holds that mutex while it calls an
  exported callback. The callback finds its Go object through a `cgo.Handle` and
  calls `queue.Push`.
* **Goroutines of the package.** A `Push` into an empty buffer starts `proc`, which
  takes values from the buffer and offers them on `outchan`.
* **Shared state.** `Client.children`, changed by constructors and by `Close` of each
  child, and ranged over by `Client.Close`; `Poller.sources`, changed by `AddXxx` and
  by `Poll`.
* **Shutdown.** `Client.Close` stops and joins the event thread, closes every child,
  then frees client and poll, then closes its own queue and handle. `Close` of a child
  frees the C object under the lock, then closes the queue, then deletes the handle.

### 1.3 What is hard

1. `proc` holds a value with no lock held, so several procs may exist, race for the
   channel, and race with `Close` (`eventqueue.go:69-82`).
2. A queue that is closed must not be pushed to again, and its owner has to arrange
   that with a thread of a C library.
3. `Client.Close` does most of its work without the lock, and passes over a child
   whose `closed` flag is set, even when that child's `Close` is half done.
4. Constructors fail at several points, before and after they have made a handle.
5. `Poll` works on a snapshot, and `delSource` changes the list without the lock.
6. `context` expiry races with events.
7. Avahi has one errno for the whole Client, and may call back before
   `avahi_client_new` has returned.
8. The workarounds for loopback are spread over three resolvers and a cache, and have
   to fit together.

`PROJECT.json` lists the hazards line by line, with the properties that watch each.

## 2. The modules

| Module | Models | Used by |
|---|---|---|
| `EventStream` | what an event queue promises: every event that was accepted leaves at most once, and after `Close` nothing is pending | `EventQueue` (refinement) |
| `EventQueue` | `eventqueue.go` and the receivers of its channel | `EventQueueProofs`, `ClientEvents` |
| `EventQueueProofs` | theorems about `EventQueue` | `ClientEventsProofs` |
| `Client` | `client.go`, `closer.go`, and constructor, `Close` and callback of all children | `ClientProofs`, `ClientEvents` |
| `ClientProofs` | theorems about `Client` | `ClientEventsProofs` |
| `ClientEvents` | composition of `Client` with the `EventQueue` of one child | `ClientEventsProofs` |
| `ClientEventsProofs` | theorems about the composition, from those about its parts | |
| `Poller` | `poller.go` | `PollerProofs`, `MCPoller` |
| `PollerProofs` | theorems about `Poller` | |
| `EntryGroup` | `entrygroup.go` against the group of the daemon | `EntryGroupProofs`, `MCEntryGroup` |
| `EntryGroupProofs` | theorems about `EntryGroup` | |
| `Escaping` | what the loops of `domain.go` do with one byte | `DomainCodec`, `Domain` |
| `DomainCodec` | `DomainFrom`, `DomainSlice` and `DomainNormalize`, one turn of their loops at a time | `DomainCodecProofs`, `MCDomain` |
| `DomainCodecProofs` | theorems about `DomainCodec` | |
| `Domain` | `domain.go` and the comparison of `glue.go`, as operators | `MCDomain` |
| `NameSyntax` | what an escaped name means, apart from the code that reads it | `MCDomain` |
| `DecodeTXT` | `DNSDecodeTXT` of `dns.go`, one turn of its loop at a time | `DecodeTXTProofs`, `MCRecords` |
| `DecodeTXTProofs` | theorems about `DecodeTXT` | |
| `Records` | the rest of `dns.go` and of `glue.go`, as operators | `Resolver` |
| `Resolver` | what the resolvers report, `loopback.go`, `localhost.go` | `ResolverProofs`, `MCRecords` |
| `ResolverProofs` | theorems about `Resolver` and the addresses of `Records` | |
| `MCPoller`, `MCEntryGroup` | symmetry sets and constants for TLC | |
| `MCDomain`, `MCRecords` | enumerate the inputs of the functions and state properties of them | `MCData` |
| `MCData` | puts these two into one run | |

A definition whose comment begins with "Mutant of" is not part of the model: it is a
plausible bug, used in place of the definition it names to see that a property
notices.

### 2.1 EventQueue

| Variable | Code |
|---|---|
| `buf`, `pushed` | `eventqueue.buf`; events are numbered in the order of `Push` |
| `pc[p]`, `held[p]` | where the p-th goroutine `proc` is, and its local `v` |
| `sendq` | the senders that wait in the runtime's queue of `outchan` |
| `closewait`, `closechan`, `outchan`, `closer` | the WaitGroup, the two channels, and how far `Close` is |
| `rpc[r]`, `received` | readers of `Chan`, and what they received, in order |

The p-th proc is the one that the p-th `Push` starts, if it starts one. Whatever the
code does under `q.lock` is one action: `Push`; `Take` (lock, take the first value,
unlock); `Finish` (lock, buffer empty, unlock) and then `Done`, the deferred
`closewait.Done()`. The `select` in `proc` is `SelectClose` (the closed `closechan`,
value dropped), `SelectSend` (a reader waits), or `SelectPark` (neither, the goroutine
waits). A parked proc is woken by a reader (`ReceiveSent`, first come first served,
as in the Go runtime) or by `ClosePurge`. `Close` is `ClosePurge` (purge the buffer
and close `closechan`, under the lock), `CloseWait`, and `CloseOut`. A reader may
give up at any time (`Cancel`), as the `Get` methods do when their context expires.

Assumed of the owner: no `Push` after the beginning of `Close`, and one `Close`.
`ClientEvents!QueueSpec` shows that the Client keeps to it.

### 2.2 Client

All children have the same shape; `servicebrowser.go` is the one to read beside the
model. `Objects` is the set of them. Two constructors differ, and constants say for
which objects: `LocalResolvers` (`NewHostNameResolver`, which for "localhost" may make
no Avahi object and register itself without `begin`, `hostnameresolver.go:91-144`) and
`EarlyReturns` (constructors that return an error before `begin`).

A user `u` goes through a call step by step, `pc[u]` says where it is and `arg[u]`
which object it works on. What is between `begin` and `end` is two actions (taking the
lock, and the rest with the release), so that the lock can be contended and its
holder seen. Code outside the lock is cut at each shared access: `CloseSwap`,
`CloseBegin`, `CloseFree`, `CloseQueue`, `CloseHandle` are the lines of a child's
`Close`, and `ClientSwap` ... `ClientHandle` those of `Client.Close`, where
`ClientRange` is one turn of the loop in `closers.close` and runs the same steps of
the child's `Close`.

The event thread takes the lock, calls back for the client or for a child whose C
object is live, and returns. `avahi_threaded_poll_stop` (`ClientStop`) waits for it.
Before there is an event thread, `avahi_client_new` itself may call back
(`NewClientCallback`), when the Go side has no `avahiClient` to ask for an error.

Assumed of the application: no child is created, used or closed, and no `Get*`
called, from the moment at which one goroutine calls `Client.Close` to its return;
after the return only `Close` is called, which does nothing. `ConcurrentClose = TRUE`
drops that for `Close` of children: see finding 2.

### 2.3 ClientEvents

`Client` knows of a queue only whether it is open. `ClientEvents` takes one object,
`Focus`, and runs its queue with it: its variables are those of both modules, and
every action is one of `Client`, of `EventQueue`, or of both at a time.

| Step | `Client` | Queue of `Focus` |
|---|---|---|
| callback of `Focus` returns; local answer | `CallbackReturn`; `NewLocal` | `Push`, without the guard of `EventQueue` |
| `Close` in `Focus.Close`, in `Client.Close`, or in a constructor that Avahi refuses | none, then `CloseQueue` or `NewFail` | `ClosePurge`, `CloseWait`, then `CloseOut` |
| goroutine `proc`; `Get` of the application | none | `ProcStep`; `Receive`, `Cancel` |

So `CloseQueue` now waits for the goroutines of the queue, while another goroutine
waits for that `Close` or the event thread goes on. `Push` is translated once more,
without `EventQueue`'s assumption that the queue is open, because it is the one thing
to be shown: the property `QueueSpec` says that every step of the composition is a
step of `EventQueue` or leaves the queue alone. That discharges the assumption of
section 2.1, on which the theorems about the queue rest; `ClientEventsProofs` proves
it for every number of goroutines, objects, events and readers.

### 2.4 Poller

`Poll` is `Snapshot` (copy the list under the lock), one of `SelectExpired`,
`SelectEvent` and `SelectClosed`, and then a retry or a return. `delSource` holds no
lock: `DelFind`, `DelCopy`, `DelLoad` and `DelStore` are its search, its `copy`, and
the read and write of `p.sources`. A channel is a FIFO of numbered events; what an
event queue may do to their order is the business of `EventQueue`. One goroutine
polls. `AddDuringPoll` says whether others may add sources meanwhile.

### 2.5 EntryGroup

The Go side is `group`, `empty` and the latest `event`; the daemon's side is
`entries`, `record`, `state` and the `signals` that tell the event thread of changes.
A method enters, takes the lock (`Begin`), and calls Avahi (`...Call`, or a failure);
`Store` is `empty.Store`, which comes after the call and before the lock is released,
and is a step of its own because `IsEmpty` reads the flag without the lock. All the
`Add` methods have one shape; `AddRecord` also checks and rounds its TTL. `errno` is
the variable of Avahi that every failing call on the Client overwrites: `NewErrno` and
`Callback` are the places that read it, and `OtherFail` is everybody else who writes
it. `avahi_entry_group_new` calls back once before it returns, with the state
UNCOMMITTED, which is part of `NewOk`. When the daemon is lost the group fails and stays
failed until it is closed and created again, as `doc.go:251-258` says.

The daemon may refuse any call, finish a registration well or with a collision, go
away, and come back. What it holds of the group after a collision is what was added
(it is withdrawn from the network, not from the group).

### 2.6 Escaping, DomainCodec, Domain, NameSyntax

A name is a sequence of bytes, without a NUL, at which `C.CString` would end it.
`avahi_unescape_label` is external: it ends a label at a dot or at the end; it reads
`\.` and `\\`, and `\DDD` as the byte with that decimal number, from 1 to 255; it fails
on any other escape, when the label is not UTF-8, and when the buffer has no byte left
for the NUL. Which sequences are UTF-8 is the constant `Utf8Valid`, of which the proofs
assume nothing. `Escaping` has what is done at one place of a string.

`DomainCodec` runs `DomainFrom` on `labels` (`JoinByte`, `JoinLabel`, `JoinDone`; `ln`
and `cn` are the loop variables `n` and `i`) and then `DomainSlice` on its result
`name`, or `DomainSlice` on any name (`given` tells which). `SliceLabel`, `LabelDone`
and `SliceDone` are the loop of `DomainSlice`; `UnescapeByte`, `NoRoom`, `BadEscape` and
`BadLabel` are what the C function does inside; `next` is the pointer that it moves.
When `DomainSlice` has returned the labels of a name, or nil, `Normalize` gives them to
`DomainFrom`, as `DomainNormalize` does: `given` is then `"valid"` or `"invalid"`, and
`source` keeps the name for comparison. The `DomainSlice` that comes after it is not
part of `DomainNormalize`; it is what a caller would do with the result.

`Domain` has each Go function as an operator of the same name, which is what the
comparison and service names are built from. `MCDomain` extends both.

`NameSyntax` is the reference for what the functions return: a name is read as a
sequence of units, each of which spells one byte of a label in one of the ways there
are to spell it, and of dots. `Legal` and `Meaning` come from that grammar; they know
of no buffer and of no loop, so that "valid" in a property is not what the code happens
to accept. The one thing of the code's that the properties of the passing run have to
leave out is `Tight`, a name of one label with nothing escaped, on which `DomainSlice`
fails: that is finding 6.

### 2.7 DecodeTXT, Records

A string is a sequence of bytes, as is the RDATA of a TXT record; an `AvahiStringList`
is the sequence of its nodes. `DecodeTXT` is the loop of `DNSDecodeTXT`, where `at` is
the position at which the slice begins that the code has left. `TxtDecodeExact`
says what has to come out without a loop: a set of positions is a cut of the data
(`Cuts`) if the strings whose sizes are there take each byte exactly once, and the
result is made of those strings that are not empty.

Of an address only what the code looks at is kept: its family, whether it is IPv4 in
IPv6 form, whether it is loopback or link-local, its zone. To `netip` all of
127.0.0.0/8 is loopback, so there are two loopback addresses of IPv4: 127.0.0.1 and
another. Whether `netip` calls `::ffff:127.0.0.1` loopback depends on the version of Go;
`Sees4In6` says which, and the proofs are for both. `netip` and `if_indextoname` are
external.

### 2.8 Resolver

`loopback` is the cached index; `event`, `asked` and `answer` are the last event or
answer of a resolver and what it was about. Inputs are names as lists of labels,
addresses, interfaces, flags, and what `net.Interfaces` says at that moment.
`Loopback` is its result and `Cached` its effect on the cache. `NewHostNameResolver`
either answers, fails, or passes the query to Avahi, whose answers come by
`hostnameResolverCallback`. The host name that Avahi passes to
`serviceResolverCallback` is taken to be what `FQDN` takes it for, the name without
the domain. `Found` and `Failure` are what Avahi may pass to the callbacks: any
interface, name and address, IPv4 in IPv6 form among them (an AAAA record may hold
it), and neither name nor address with a failure.

## 3. The runs

| Run | Question | Instance |
|---|---|---|
| `EventQueue` | Is any event lost, duplicated, stranded, or sent on the closed channel? Does the queue implement `EventStream`? Is the invariant of the proofs one? Does `Close` return though nobody reads, are readers released, is every event delivered to a reader that keeps reading? | 4 pushes, 2 readers |
| `EventQueueOrder` | Is the order of events kept? No: finding 1. | 3 pushes, 1 reader |
| `ClientEvents` | Does a callback find its object, is nothing freed too early or twice, does `Client.Close` close everything, and is nothing left but what finding 3 says? Does the Client use the queue as `EventQueue` demands, and is anything of it left? Does every `Close` return, with event thread, unread events and goroutines in its way? | 3 goroutines, a host name resolver with 2 events and 1 reader, a browser |
| `ClientConcurrentClose` | May a child be closed while the Client is? No: finding 2. | 2 goroutines, 1 browser |
| `ClientEarlyReturn` | Is everything freed after an early return? No: finding 3. | 1 goroutine, 1 resolver |
| `PollerSerial` | Does the list hold what was added, are events returned in order, does `Poll` return, does no source starve? | 2 sources, 2 events each |
| `PollerAddDuringPoll` | Is `Add` safe while `Poll` runs? No: finding 4. | 3 sources, 1 event each |
| `EntryGroupPublish` | Does `IsEmpty` agree with the daemon, is each error the one of its own call, are TTLs rounded within their limit, does an event end every registration? | 2 goroutines, 4 TTLs |
| `Data` | Do the loops of slicing undo those of joining, are names compared and normalized by what they mean, is a service name split where it was joined? Is RDATA cut at the right places, does an address survive both directions, do the loopback workarounds fit together? | names of up to 4 pieces, up to 3 labels, or 6 in a service name; RDATA of up to 6 bytes; 7 kinds of bits, 4 interfaces |
| `SlicesAnyName` | Does `DomainSlice` return the labels of every name that has some? No: finding 6. | names of up to 2 pieces |
| `MappedAddress` | Is every IPv4 address reported as one? No: finding 7. | as `Data` |
| `TxtPublished` | Does Avahi get the strings of the application? No: finding 5. | up to 3 strings |

### 3.1 The bounds

* `MaxPush` bounds the events and with them the procs. Two procs suffice for a race,
  three for a parked one that is overtaken by one in its select while a third waits
  for the lock; with four, the buffer may hold two values meanwhile.
* Two readers suffice for a reader that cancels while another waits.
* `ClientEvents`: three goroutines are one in `Client.Close`, or two in `Close` of the
  same child while a third creates another. Each object is created once; objects share
  nothing but the Client, its lock, its map of children and its event thread, and a new
  one is another member of `Objects`; two are one that the loop of `Client.Close` is
  at, and one that it has yet to come to. The resolver may answer by itself, ask Avahi,
  or return early. Its two events are two goroutines of the queue at once, one of them
  blocked without a reader, and the reader comes and goes.
* Two sources: one that is removed from the list before or after another. The run that
  looks for damage has three.
* `EntryGroup`: two goroutines, since what is at stake is an order of two. A second is
  four units and also the limit, and the TTLs are negative, rounded up to the limit,
  equal to it and just above it. `MaxSignals` only limits how far the event thread may
  fall behind.
* `Data`, names: a name is put together from pieces. Those are one byte of each kind
  that the code tells apart, with a neighbour of the letters in ASCII, and the two
  bytes of one UTF-8 character; and digits, which after a backslash are the number of a
  dot, of a letter, of half a character, of no byte (0 and 256), or too few. Four
  pieces are, for instance, a label that begins with an escape by number and contains a
  dot, and all ways to end a name in the middle of something. `Others` is the second
  name of a comparison: the same letters in other cases and spellings, and names that
  mean nothing.
* `Data`, labels: up to three labels with four bytes of a dot, a backslash and half a
  character. A service name takes whole labels instead (`_.`, which looks like one of
  its type and has to be escaped; `_`; and a backslash): with six of them the type has
  two to five labels, so that it has subtypes, and the domain none to three.
* An input grows before the loops run on it, and another takes its place when they
  have ended, so that the system never stops.
* `Data`, records: sizes from 0 to 3 and 9 in six bytes are up to six strings, with the
  end of the data before, at and behind the end of the last. Addresses: one of each
  kind that the code tells apart, mapped or not, and a zone that is not the
  interface's. Interfaces: loopback, another, one that is gone, and none.
* Names and records share nothing, so that the run has the ones or the others.

None of these bounds is in the proofs, which are for every value of the constants.

### 3.2 Fairness

* `EventQueue`: weak fairness of every proc and of the goroutine inside `Close`, which
  is what the Go scheduler gives a goroutine that can run. Parked procs need more than
  that only if readers come; `sendq` is served in order. Nothing obliges the
  application to push, close or read: that a reader keeps reading is the hypothesis of
  `Delivery` (`KeepsReading`).
* `Client`: weak fairness of the steps of a call, strong fairness of those that wait
  for the mutex or for the event thread. The event thread takes the mutex again and
  again, so weak fairness would let it win for ever; a pthread mutex does not promise
  to be fair either, but the event thread sleeps in `poll(2)` between callbacks and
  leaves the mutex free for most of the time. Callbacks return. Nothing makes Avahi
  call back.
* `ClientEvents`: that of both, `AllSpec`. Nothing makes the application read.
* `Poller`: weak fairness of the polling goroutine, strong fairness of the choice of
  each case: `reflect.Select` chooses uniformly among the ready cases, so that a case
  that is ready again and again is chosen with probability one. Nothing makes the
  application call `Poll` again; `EventReturned` has that as its hypothesis.

* `EntryGroup`: as `Client`; in addition the daemon ends a registration that it has
  begun. Nothing makes it fail or come back.

## 4. Findings

1. **Events may be reordered** (`eventqueue.go:77`, run `EventQueueOrder`).
   `README.md:36` says "It uses a single channel for all events reported by an object,
   so add/remove events cannot be reordered". `proc` takes a value, unlocks and then
   sends. A second `Push` in this interval sees `len(buf) == 1` and starts another
   proc, which may send its younger value first. What does hold is
   `BufferNeverOvertaken`: an event is only overtaken once it is out of the buffer.
2. **`Client.Close` does not wait for a child's `Close`** (`client.go:124`, run
   `ClientConcurrentClose`). Goroutine A is in `ServiceBrowser.Close`, past the swap of
   the flag. Goroutine B calls `Client.Close`: it closes the same browser once more,
   which the comment calls safe, and finds the flag set; it then frees client and poll
   while A has yet to lock the poll or is about to free its C object.
3. **Early returns leak a handle** (`addressresolver.go:88`,
   `hostnameresolver.go:106,126`, run `ClientEarlyReturn`).
4. **`Add` while `Poll` runs may lose a source** (`poller.go:87`, run
   `PollerAddDuringPoll`), although `poller.go:50` gives "safety guarantees".
5. **The first TXT string is not published** (`glue.go:83`, run `TxtPublished`). The
   loop of `makeAvahiStringList` ends before index 0. `entrygroup.go:76` calls the field
   "TXT record", and the test at `avahi_test.go:167` publishes the one string "foo=bar",
   of which Avahi gets nothing. With another position than the first, an empty string
   makes the same function panic (`glue.go:89`).

6. **A name of one label cannot be sliced** (`domain.go:60`, run `SlicesAnyName`).
   `domain.go:59` says of the buffer "len(d) must be enough", but the label and its NUL
   do not fit when the name is one label with nothing to unescape and no dot at its end.
   So `DomainSlice("local")` is nil, `DomainEqual("local", "local")` is false although
   `domain.go:81-82` says that of invalid names only, and `DomainNormalize("local")` is
   empty, which `domain.go:106` says of an error.
7. **Mapped addresses are reported as they are** (`glue.go:54`, run `MappedAddress`).
   `doc.go:449-450` says that IPv4 addresses received from Avahi are "not 16-byte
   IP6-mapped IP4 addresses". An AAAA record may hold such an address, which Avahi
   passes on as one of IPv6, and `decodeAvahiAddress` does not unmap it.

Met while reading, not by a run:

* `client.go:64-65` speaks of "loopback addresses (127.0.0.1 and ::1)", but
  `serviceresolver.go:256` and `addressresolver.go:187` force the name on all addresses
  that `netip` calls loopback: what was 127.0.0.2 then has a name that resolves to
  127.0.0.1. `LoopbackRoundTrip` claims the same address for the two that the comment
  names, and for the others a loopback address of the same family.
* `client.go:67` says "as 127.0.0.1" where `hostnameresolver.go` may answer `::1`.
  `NewHostNameResolver` does not look at `addrproto` when it answers by itself, so that a
  query over IPv4 for an IPv6 address gets 127.0.0.1.
* Two constructors in two goroutines may write `Client.children` at a time when one of
  them is a `NewHostNameResolver` that answers by itself (`hostnameresolver.go:139` is
  not between `begin` and `end`); `NoMapRace` leaves this case out.
* `DomainNormalize` drops a dot at the end of a name, and with every pass one more of
  those that stand there together: the labels of `a..` are "a" and an empty one, which
  come out as `a.`.
* `entrygroup.go:243` cuts `Port` to 16 bits without a test. `domain.go:61` allocates a
  buffer that is never freed.
* `poller.go:21` lists `EntryGroup` among the sources, but there is no method to add one.
  `lookupflags.go:115` tests `Cached` where it prints "local". `browserevent.go:47` names
  `BrowserFailure` "BrowserAllForNow".

## 5. The proofs

Every safety property that a passing run checks is proved for every value of the
constants, but for three of `MCDomain` (section 5.8). For each component there is an
inductive invariant: `IInv`, which stands in the component's module and is checked by
the component's run in place of its first part `TypeOK`; or, for the two loops, the
types together with `LoopInv`, `CodecInv` or `SpellInv`, which are only proved (the
latter two are about maps on all numbers). They are proved inductive in the module
`...Proofs`, and the properties follow from them.

### 5.1 EventQueue

For every `MaxPush` in `Nat` and every set of readers:

| Theorem | Says |
|---|---|
| `TypeCorrect` | `Spec => []TypeOK`; part of it is that the WaitGroup never goes below zero, on which Go would panic |
| `Invariance` | `Spec => []IInv` |
| `EventsConserved` | `Spec => []Conservation` |
| `BufferOrder` | `Spec => []BufferNeverOvertaken` |
| `CloseIsSafe` | `Spec => []NoSendOnClosedChannel` |
| `WakeupNotLost` | `Spec => []NoLostWakeup` |
| `ClosedIsQuiet` | `Spec => []AfterClose`: when `Close` has returned, no goroutine, no event and no waiting reader is left |
| `ImplementsStream` | `Spec => StreamRefinement`: the queue implements `EventStream` |

None of these properties is inductive. `TypeOK` needs to know that `Done` finds the
WaitGroup positive, which is so because it counts the procs that are alive
(`closewait = Cardinality(Live)`). `Conservation` as stated does not say that the
buffer holds the newest events in order, without which `Take` might take a value that
another proc has. The strengthening is `IInv`:

* `ProcInv`, who is where: no proc before its `Push`, a proc has a value exactly in
  its select, the senders in `sendq` are parked procs, `closewait` counts;
* `EventInv`, what is where: the buffer is an interval that ends with the newest
  event, everything else is at one place at most, and before `Close` at one;
* `CloseInv`, how far `Close` is, and that an event in the buffer has a proc.

They are proved in that order: `TypeOK /\ ProcInv` is inductive by itself, `EventInv`
relative to it, `CloseInv` relative to both. Each proof has a step for each action.
The refinement uses the invariant at every step that changes `Undelivered`: a `Take`
must leave the set as it was, a send must remove exactly one member, a drop is a
`Discard`, `CloseOut` finds nothing left.

The environment is that of section 2.1; section 5.3 proves that the Client provides it.

### 5.2 Client

For every set of goroutines and objects, whichever of them are local resolvers or
return early:

| Theorem | Says | Under |
|---|---|---|
| `Invariance` | `Spec => []IInv` | |
| `CallbackFindsObject` | `Spec => []NoCallbackOnClosed` | |
| `ReleasedOnce` | `Spec => []NoDoubleRelease` | |
| `SettlesClean` | `Spec => []SettledClean`: when no goroutine is in a call and the Client is closed, every child is, and nothing is left but what finding 3 says | |
| `UsedWhileThere` | `Spec => []NoUseAfterFree` | `ConcurrentClose = FALSE` |
| `MapIsSafe` | `Spec => []NoMapRace` | `ConcurrentClose = FALSE` |
| `CloseTakesChildren` | `Spec => []ChildrenClosedWithClient` | `ConcurrentClose = FALSE` |
| `LeavesNothingElse` | `Spec => []NothingElseLeaked` | `ConcurrentClose = FALSE` |

So finding 2 is limited: a child that is closed while the Client is may make a
goroutine use memory that is freed (the run of finding 2 violates `NoUseAfterFree`) or
write the map under the loop, and `Client.Close` may return before the child is
released. But no callback ever finds a closed object, nothing is released twice, and
once all calls have returned the result is the same as without the race. The
other assumption that the proofs asked for is that no goroutine is called "thread", the
name that the event thread has as holder of the lock.

What the properties say of one place in a call depends on what other goroutines may
have done to the same object, so `IInv` says what is there of every object at every
moment, for both values of `ConcurrentClose`:

* `ArgInv`: two goroutines never work on the same object, because the swap of `closed`
  lets one `Close` through and an object has one constructor. This is what makes the
  rest inductive.
* `StepInv`: what is there of the object a goroutine works on, at each of its steps.
  Before `CloseFree` everything is (`Intact`), after it no callback can find it
  (`Released`). In a `Close` that `Client.Close` has overtaken (`Overtaken`), the C
  object has gone with the client, but queue and handle are there.
* `ObjectInv`: what is there of an object on which nobody works. An object that is not
  closed is intact and among the children.
* `PhaseInv`: what is there of the Client before, while and after it is open, and while
  `Client.Close` runs: everybody but its caller is idle, or in the `Close` of a child
  if that is allowed (`Aside`), the event thread is off after `ClientStop`, and from
  `ClientFree` on every object is closed.
* `CallbackInv`: the event thread is in the callback of a live C object only, for which
  it holds the lock.

The proof has a lemma for each part of the invariant, with a step for each action, or
for the actions that leave that part alone for the same reason.

### 5.3 ClientEvents

For any `Focus` among the objects, and any number of events and readers:

| Theorem | Says | Under |
|---|---|---|
| `KeepsQueueSpec` | `AllSpec => QueueSpec`: composition steps are steps of `EventQueue`, or leave the queue alone | |
| `QueueGuarantees` | the theorems of section 5.1, the refinement of `EventStream` among them, for the queue of `Focus` | |
| `NothingStaysBehindSettled` | `AllSpec => [](Idle => NothingLeftBehind)` | |
| `NothingStaysBehind` | `AllSpec => []NothingLeftBehind` | `ConcurrentClose = FALSE` |

`KeepsQueueSpec` is where a push after `Close`, or a second `Close`, would show. It
takes the invariant of `Client` and `LinkInv`, which links what the two modules say of
the same queue: it is closed in `Client` exactly when `closer` is, it is being closed
only while a goroutine is at the step that closes it, and no event was pushed before
the object was made. `FocusStep` sums up what a step of `Client` can do to `Focus`, so
that the actions of `Client` are gone through once. `QueueGuarantees` follows from it
by the theorems of `EventQueueProofs`, and `NothingStaysBehind` is
`CloseTakesChildren` of `Client` (`SettlesClean`, in the other one), `ClosedIsQuiet` of
`EventQueue` and `LinkInv` together; nothing about the queue is proved again.

### 5.4 EntryGroup

For every set of goroutines and TTLs, and every `Second` and `MaxSeconds` that its
assumption allows:

| Theorem | Says |
|---|---|
| `Invariance` | `Spec => []IInv` |
| `EmptyIsTrue` | `Spec => []EmptyAgrees` |
| `OwnError` | `Spec => []ErrorIsOwn` |
| `RoundedTTL` | `Spec => []TTLRounded` |

`EmptyAgrees` is about moments at which nobody holds the lock; `EmptyInv` says what
`Store` is about to write in between.
`ErrorIsOwn` is inductive only with `errno = u` while `u` is about to read it, which is
so because it holds the lock. `TTLRounded` rests on `TTLRounding`, a lemma about
`TTLSeconds` alone, and on `RecordInv`: the record at the daemon is one whose TTL has
passed the test and was rounded by that function.

### 5.5 Poller

For every set of sources and number of events:

| Theorem | Says | Under |
|---|---|---|
| `ChannelsInStep` | `Spec => []Inv1`: the types, `delSource` after a closed source, channels and returned events in step | |
| `NeverReordered` | `Spec => []ReturnedInOrder` | |
| `Invariance` | `Spec => []IInv` | `AddDuringPoll = FALSE` |
| `ListIsRight` | `Spec => []SourcesAsAdded` | `AddDuringPoll = FALSE` |
| `OpenSourcesStay` | `Spec => OnlyClosedRemoved`, an action property | `AddDuringPoll = FALSE` |

So what is wrong with an `Add` during `Poll` (finding 4) is limited to the list: even
then no event is reordered or skipped, and the slice expression of `delSource` does not
panic. `SourcesAsAdded` says nothing while `delSource` works; `ListInv` does. After the
copy the list without its last element is what it will be, and the last element is
there twice or is the source that goes: `CopyFront` is that lemma.

### 5.6 Resolver

For every set of host names, interfaces and zones, and any `LowerCase` that leaves
"localhost" and "localdomain" alone:

| Theorem | Says |
|---|---|
| `CacheIsRight` | `Spec => []CacheInv`: the cache holds the index of the loopback interface or none |
| `LocalhostIsAnswered` | `Spec => []LocalhostAnswered` |
| `AddressIsKept` | `Spec => []AddressSurvives` |
| `NameLeadsBack` | `Spec => []LoopbackRoundTrip` |

The first is what the second needs to hold after any history of errors. The others are
about single events and rest on lemmas about the operators of `Records`:
`makeAvahiAddress` inverts `decodeAvahiAddress` up to the form of an IPv4 address,
whatever address Avahi reports; decoding inverts making up to that form and the zone;
and one of the two decoders of records is for an address. `NameLeadsBack` is about all
that `netip` calls loopback, mapped or not, for both values of `Sees4In6`: a mapped
address leads to one of its family, which is then `::1`. The kinds of addresses are
those of `V4` and `V6`, which are definitions: one of each kind that the code tells
apart.

### 5.7 The loops: DecodeTXT and DomainCodec

For every set of RDATA, and for all labels and names:

| Theorem | Says |
|---|---|
| `DecodeInvariance` | `DecodeSpec => [](DecodeTypeOK /\ LoopInv)` |
| `DecodesExactly` | `DecodeSpec => []TxtDecodeExact`: the strings that come out are those of the data, and nil comes out exactly if it cannot be cut |
| `CodecInvariance` | `CodecSpec => [](CodecTypeOK /\ CodecInv)` |
| `SliceUndoesFrom` | `CodecSpec => []SliceInvertsFrom`, for whatever `Utf8Valid` accepts the labels |
| `NormalizeSpells` | `CodecSpec => []Normalized`: the name that `DomainNormalize` returns spells the labels that the given one spells, with each dot and backslash in them escaped and nothing else; or it is empty, if `DomainSlice` refuses the name |

The types are worth a proof here: they say that neither loop leaves its data, nor
`DomainSlice` the name when a backslash is its last byte.

A loop over data calls for induction over the data, which is out of the prover's
reach. The proofs do without. They state what is to be computed by the existence of
something that the loop makes as it goes, so that the induction is the one of
`[]`:

* `LoopInv` says that there is a set of positions that cuts the part of the RDATA
  that is behind `at`, and that every cut of all of the data is this set as far as
  that. A turn adds one position. At the end the set is a cut of the whole, and the
  only one; and if a string exceeds the data there is none.
* `CodecInv` says that there is a map `pos` which has, for each byte of each label, and
  for its end, the place in the name (`Placed`). Each turn of `DomainFrom` extends the
  map by a place (`JoinsByte`, `JoinsLabel`), `JoinDone` finds it complete, and each
  turn of `DomainSlice` moves `next` from one place in it to the following (`ReadsNext`,
  `EndsLabel`). That the buffer never overflows takes one thing more: `next` is at
  least one byte ahead of what was read, and one more as soon as a byte was escaped or
  a dot was passed (`Unescaped`). The label that has neither is the one for which
  `DomainSlice` fails (`NoRoomForOne`).
* `SpellInv` is the same the other way round. `DomainSlice` makes the map of the labels
  that it cuts from the name, in which a byte takes one place, two or four (`WidthAt`)
  and is what stands there means (`Spelt`): a label begins with a dot (`CutOpens`), takes
  one more byte, however it is spelt (`CutGrows`), and ends (`CutCloses`). With the labels
  that come of it `CodecInv` goes on, whose map has the new places (`AllPlaced`).
  `Normalized` states the two maps of the same labels, one in the name that was given
  and one in the name that was returned.

### 5.8 What stays with TLC

* Liveness (`CloseCompletes`, `ReadersUnblocked`, `Delivery`, `CloseReturns`,
  `PollReturns`, `EventReturned`, `ClosedForgotten`, `CommitSettles`, `CallsReturn`):
  the prover has no rules for fairness and `ENABLED`.
* `EqualIsCaseless`, `NormalizeKeepsMeaning` and `SplitInvertsJoin`: the first two are
  stated by `NameSyntax`, which reads a name by recursion, and the first and the last
  put `DomainFrom` and `DomainSlice` together several times in one formula, for which
  `Domain` has them as operators, and those are recursive. `Normalized` is what is
  proved of the second: it speaks of maps instead of `Meaning`, and it does not say
  which names are refused.
* The runs of the findings, each of which is one counterexample.

## 6. What is not modelled, and why

* The states that the daemon reports to a Client, and an application that closes its
  objects and creates them again when the daemon comes back (`doc.go:251-258`): the
  package only passes the states on and neither acts on them nor remembers them, so a
  model of it would be one of Avahi and of a program that is not here. What a lost
  daemon does to an entry group is in `EntryGroup`.
* The fields of events that are copies of what Avahi passes, and the arguments that
  constructors only pass on.
* The event queues of several objects at once: they share nothing but the Client, and
  `ClientEvents` has another object next to `Focus`.
* `Client.Close` and `Get*` from several goroutines at once beyond section 2.2: the
  methods would lock a poll that is gone, and the package does not say they may.
* Memory (`C.malloc`, `C.free`, `avahi_string_list_add_arbitrary` that returns NULL),
  logging, the names of constants.
* Go's memory model: accesses without a lock are interleaved one by one, which finds
  the races that are listed, but no torn reads.
* Several goroutines that poll one `Poller`.

## 7. What could follow

The models of sections 2.1 to 2.8 are there, and their safety is proved as far as
section 5 says. What is left:

1. `EqualIsCaseless`, `NormalizeKeepsMeaning` and `SplitInvertsJoin` for all names: that
   a name has one reading, and the loops of `DomainCodec` on two names side by side, and
   on the parts of one. The maps of section 5.7 say what one pass leaves behind.
2. `Client.Close` and `Get*` from several goroutines at once, if the package should
   come to promise something about them (section 6).
3. Several goroutines that poll one `Poller`, in the same case.
