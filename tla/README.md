# Verification of socklib (namespace `sks`)

socklib is a C++ wrapper around BSD sockets (POSIX) and Winsock (Windows).  This
directory holds TLA+ models of it, the TLC configurations that check them and
TLAPS proofs about them.  Everything is read from the code in `src/`; file names
below are relative to the repository.

## 1. The system

| Component | Code | State | Operations | What makes it hard |
|---|---|---|---|---|
| Socket ownership and lifetime | `src/socks.cpp` 36-257, 480-557; `include/socks.hpp` | `m_validFD`, `m_sockFD`, `m_domain` of each object; the kernel's sockets; files of bound unix sockets | two constructors, `createUnixPair`, `accept`, moves, `socketFD(true)`, `bind`, `listen`, `connect`, destructor | one descriptor number is reused by many sockets; the moves swap; the destructor makes four system calls with everything else in between; the file system is shared |
| Generic address | `src/addrs.cpp` 28-240 | domain tag, owning pointer | constructors, copy, move, `assign`, comparisons, casts | copies of blank addresses, self-assignment, exceptions between `delete` and `new` |
| Library initialization | `src/initialization.cpp`, called from sockets and addresses | `libraryUsers`, `autoInitialize`, Winsock itself | `initialize`, `deinitialize` | a plain counter used by all threads; constructors that throw after it was counted up |
| Data transfer | `src/socks.cpp` 259-335 | none of its own: the kernel's buffers | `send` (6 forms), `receive` (6 forms) | partial sends, time-outs and closes in the middle of a send, truncation, empty datagrams |
| Readiness | `src/socks.cpp` 396-446, 559-608 | none | `writeReady`, `readReady`, `bytesReady`, `writeReadySockets`, `readReadySockets` | the answer is stale when it is used; time-outs |
| Time-outs | `src/socks.cpp` 337-394 | the kernel's options | `sendTimeout`, `receiveTimeout` | units and widths, 0 means none |
| Options | `src/socks.cpp` 448-478 | the kernel's options | `socketOption` | the length argument of the getters is not initialized |
| Address formats | `src/addrs.cpp` 263-605 | bytes, port, name of one address | parse, to and from the C structures, name, comparison | round trips, ports above 65535, unix names with and without a terminating zero |
| Echo server example | `examples/echo_serv/main.cpp` | the client's list of sockets | one loop: poll, accept, receive, send to all | one client's error stops the service of the others |
| AX.25 addresses | `src/addrs.cpp` 607-681 | | | never compiled |
| Errors | `src/errors.cpp` | | | wraps an `errno` |

How they interact.  A socket calls the kernel and nothing else, but for two
things: its constructors and destructor call `initialize` and `deinitialize`, and
its destructor builds an `address` from its local name to find out which file to
unlink.  An `address` holds a heap object of a specific class, whose base class
counts itself as a library user.  `receive(address&, ...)` move-assigns a fresh
address to its argument.  The only state shared by threads without the user's
own locking is `libraryUsers` and `autoInitialize`, the kernel's descriptor table
and the file system.

What makes each component correct:

* ownership: every open descriptor is closed exactly once, by its owner; the
  file of a bound unix socket is removed by the destructor that closes the socket,
  and no other file is;
* address: one owner per heap object, of the class the tag says;
* initialization: the library runs while somebody uses it and is finalized after
  the last user;
* transfer: bytes arrive in order, all of a `send` that returns went out;
* messages: each is received once or not at all, with the address of its sender;
* readiness: an answer of `readReady` or `bytesReady` holds until another thread receives
  from the same socket;
* time-outs, options, formats: what a getter or a parser returns means what was set or
  written;
* example: everybody is served, and hears the others in order.

## 2. Modules

| Module | Contents |
|---|---|
| `DescriptorOwnership` | abstract: who owns each descriptor, and the five ways an owner can change |
| `Socket` | class `socket` of the POSIX build, with the kernel's sockets and the file system |
| `Address` | class `address`, with the heap |
| `Library` | `initialize` and `deinitialize` of the Windows build, step by step |
| `Stream` | the send loop, receive and the end of a socket over one connection |
| `AddressFormats` | what an address means: texts, C structures, names, comparison |
| `Options` | times and options between the library's types and the system's, without state |
| `Datagram` | messages: send and receive with addresses, polling, and `Options` in use |
| `EchoServer` | the loop of the example, with its clients |
| `SocketProofs`, `AddressProofs`, `LibraryProofs`, `StreamProofs`, `FormatsProofs`, `DatagramProofs`, `EchoProofs` | TLAPS proofs about `Socket`, `Address`, `Library`, `Stream`, `AddressFormats`, `Options` with `Datagram`, and `EchoServer` |
| `SeqLemmas` | lemmas about sequences, place by place, that the proofs about buffers, lists and paths share |
| `MCSocket`, `MCAddress`, `MCLibrary`, `MCStream`, `MCAddressFormats`, `MCDatagram`, `MCEchoServer` | instances for TLC |

### Socket

`obj[o]` is the place (variable or heap cell) `o`: `valid`, `fd` and `dom` are the
members `m_validFD`, `m_sockFD` and `m_domain`; `phase` is "raw" before the
constructor and after the destructor, "live" between them, and "named", "shut",
"closed" inside the destructor after `localAddress`, `shutdown` and `close`;
`local` is the destructor's variable `local`.  `kern[f]` is the kernel's socket
at descriptor number `f`; a closed number is reused by any later call.  `file[p]`
is what a file-system name refers to.  `client` holds the descriptors that
`socketFD(true)` gave away.

Each member function makes at most one system call, so it is one action.  The
destructor is four: `ReadLocal`, `Shutdown`, `Close`, `Unlink` (or `Terminate`,
if the conversion to `unixAddress` throws).  A call that fails throws and changes
nothing of this, so it is no step.  `MoveConstruct` swaps with members that were
never initialized: their values are chosen arbitrarily.  Other processes
(`OtherProcesses`) bind and remove the same names, `Crash` ends the process at
any time, and with `StaleUse` clients call members of objects that have lost
their descriptor, which the code does not prevent.  `TakeFD` is `socketFD(true)`: it
returns `m_sockFD` whatever `m_validFD` is.  `misused` is a history variable: a client has
taken the descriptor of an object that had none.  The promise of sole ownership, and what
`DescriptorOwnership` says, end there, until the process ends.  `Unlink` removes the file, if the name refers
to one; `UnlinkFails` is an unlink that the system refuses, whose result the destructor
does not look at: the file stays, with the mark "refused".

Of the address families there are two, unix and one other: the code only ever
asks whether the domain is unix.

### Address

`addr[o]` has the domain tag and the pointer; `heap[q]` the class of the object
at `q`.  Freed addresses are reused.  Behaviour after a use of freed memory is not
followed: such a step is not enabled.  `happened` is a history variable: what
befell an address that had a pointee ("copyBlank", "moveOnto", "assignUnknown",
"noMemory").  The properties say which of these they survive: `OwnsPointee` only
"moveOnto", `NoLeak` all the others.

### Library

Each access of `libraryUsers` by a thread is a step, in the order of the code;
the comparison in `deinitialize` may use the value just written or read it again,
as a compiler may.  Users are valid sockets, address objects and the client's own
calls.  `Serial` makes constructors and destructors of different threads exclude
each other, as a client with a lock would.  `lost` is a history variable: users
that are gone without a call of `deinitialize` (a socket constructor that threw,
`socketFD(true)`).  `autoInitialize` changes only while there are no sockets and
no addresses.  `Make` is the rest of a constructor: that of a socket needs Winsock
running, that of an address may not call it at all.  A spontaneous failure of
WSACleanup is left out.

### Stream

Two ends, "a" and "b", and any threads at each of them.  `call[t]` is the `send` that
thread `t` is in, with the variable `sent` of the loop; one call of `::send` is one
step (`SendSome`) and takes any part of the rest that the kernel has room for.  `queue`
and `inbox` are the two kernels' buffers, of `SendRoom` and `ReceiveRoom` bytes;
`Transmit` moves a byte.  A byte carries the call and the index it came from, so that
loss, repetition and reordering show.  `handed` and `got` are histories of all that
`::send` took and `receive` returned.  `SendThrows` is a failing `::send`: the
connection was reset, or nothing fits until the time-out of an end in `TimedOut`;
`SendInterrupted` is a signal (`Interrupts`).  A `receive` that times out or is
interrupted throws, changes nothing and is no step; `bufSize` is at least 1.

`Destroy` is the destructor's shutdown and close in one step: between the two the
other end sees what it sees after both.  No thread is in `send` on the socket.
What the kernel does is external, and Linux's: data for a socket that is gone, and a
socket that goes with data that was not received, reset the connection, and neither side
transmits any more.  `reset[e]` is what end `e` knows of it.  A reset is reported
once, to the first `send` or `receive` that meets it ("pending", then "reported"), and
from then on `receive` returns size 0, as at an orderly end; it does so at once if the
end of the peer's stream came before the reset ("afterEnd").  The other thread's send
may be the call that threw: `receive` then says size 0 to a client that was never told
that data is missing.  `EofIsEnd` says how much a size of 0 means under these rules.

### AddressFormats

One address is constructed and goes through any sequence of copies (each is a
round trip through a C structure), `bind` and `localAddress` (the kernel ends a
pathname at its first zero), names (an address constructed from `name()`) and
moves.  `a` is what was constructed, `b` what became of it.  A text has the parts of
the accepted formats, which are listed in comments of the two constructors: scheme,
host, brackets, port.  Other texts, such as an IPv6 address given to `IPv4Address`,
are left out.  Numbers keep their widths (ports modulo 2^16, groups of two octets
in network order), octets of a `sockaddr_un` behind its length are garbage that
`TypeOK` would find in a path.  The resolver is external, and stable.

A path has up to all `PathSize` octets of `sun_path` when the kernel returns it
(`Structs`): an abstract name of a `sockaddr_un`'s whole length, or a pathname bound
without its zero, whose length is then one more than the structure's.  Texts are shorter
(`TextPaths`), and the kernel binds no address that is longer than a `sockaddr_un`.  The
conversion back of such an address puts its zero (`Terminator`) behind `sun_path`.  That is
undefined behaviour; the model goes on with the structure that results when the octet
behind is written and nothing else happens.

### Options and Datagram

`Options` translates the conversions of `sendTimeout`, `receiveTimeout`, poll's
time-out and `socketOption` as operators, for both builds (`platform`), with what the
kernels make of the result: Linux rejects some values, takes zero for no time-out and
rounds up to its clock (`Tick`); Windows takes milliseconds.  An option's int is its
bytes, so that a getter with an uninitialized length, or a setter that filled one byte
of the int, shows.  The value of a getter is a set: none if it throws, and any for the bool
getter once the kernel has written behind its one-byte variable.  Numbers wrap at
`UIntSize`, the number of values of a `DWORD` or an `int`.

In `Datagram` the threads of one process use the sockets at which messages arrive.
`thread[t].pc` is the call a thread is in: "polling" in `readReadySockets` (`readReady`
is the list of one socket), "receiving" and "receivingFrom" in `recv` and `recvfrom`,
"taken" between `recvfrom` and the end of `receive(address&, ...)`.  `ready` is the
vector that was returned, which the thread goes through; `told`, `measured` and `raced`
are history: the receive follows a poll, its size comes from `bytesReady`, another
thread has taken a message from that socket since.  The network (`net`) loses, by never
delivering, and reorders; it does not duplicate.  `Unnamed` senders have no address
(unix sockets that are not bound): `recvfrom` then leaves `addr` as it was, which is
not initialized, and `receive` returns whatever address that may be or throws, with
the message gone (`lost`).  `SendThrows`, `PollThrows` and `ReceiveThrows` are any error the
kernel may have (a signal, an answer from a host where nobody listens), at any time.
`Fionread`, what `bytesReady` asks, is the size of the first message on Linux and of all
that wait on Windows.  A kernel that says POLLIN for a message it then discards
(a bad checksum) is left out.  Options are set before anything else happens.

### EchoServer

`pc` is the statement of `main` the server is at, between two system calls:
`readReady`, `connectedAddress`, `receive` and each `::send` are steps of their own, and
clients act in between.  `clientList` is the vector; `slot`, `last` and `to` are the
iterators of the two loops.  `ReceiveEnd` erases from the vector that the outer loop
iterates over, so that the next client is skipped and the iterator runs past the new
end, over destroyed sockets (undefined behaviour that, with descriptors closed, ends in
POLLNVAL: `NotReady`).  `conn[c]` is the connection as the server's kernel sees it:
"fin" when the client has closed, "reset" when it closed with data unread or data
reached it after that.  `accept` and the `readReady` before it are one step.  `due` and
`got` are histories.

## 3. Runs

| Run | Instance | Shows |
|---|---|---|
| `socket_ownership` | 3 objects, 2 descriptors, no names, stale use | `TypeOK`, `NoLeak`, `SoleOwner`, and that `Socket` implements `DescriptorOwnership` |
| `socket_names` | 2 objects, 2 descriptors, 1 name, other processes, fairness | `DomainAgrees`, `StaleHasUnlinker`, `SocketFilesRemoved` |
| `address_owned` | 3 addresses, 3 cells, 2 domains | `TypeOK`, `OwnsPointee`, `NoLeak` |
| `library_serial` | 2 threads, 2 sockets, 2 addresses, 1 client | `TypeOK`, `RunningWhileUsed`, `CountExact`, `NeverTerminates` |
| `stream_live` | 2 threads at one end that send 3 bytes each, one at the other that sends 0 or 2; room for 2 + 2; time-outs and signals; fairness | `TypeOK`, `SentExactly`, `EofIsEnd`, `ClosingLosesNothing`, `SendEnds`, `SentArrives` |
| `datagram` | 2 threads, 2 sockets, 2 senders (one unnamed), data of 0, 2 and 3 bytes where 2 is the longest message; 14 time-outs, both builds; fairness | `TypeOK`, `SentOnceReceivedOnce`, `ReadyUnlessRaced`, `TimeoutReadsBack`, `OptionReadsBack`, `PollEnds`, `ReceiveEnds` |
| `echo_server` | 3 clients that send 2, 1 and no messages, room for 1 message, 1 waiting connection; fairness | `TypeOK`, `MissedBehindReset`, `EchoInOrder`, `ListedOnce`, `EveryoneServed` |
| `formats` | 3 octets, 6 written ports, `sun_path` of 4 | `TypeOK`, `CopiesKeepStruct`, `TerminatorInside`, `NamesRebuild`, `PortAsWritten`, `OrderIsTotal` |

These are disagreements between the code and what it says of itself; each run
has one property and TLC finds the counterexample:

| Run | Property | What happens |
|---|---|---|
| `listener_file` | `ListenerKeepsItsFile` | a unix connection made by `accept` has the listener's name; its destructor unlinks the listener's file |
| `address_finalize` | `FinalizedWhenUnused` | move-assigning onto a full address (the second `receive` into the same `address`) loses its heap object |
| `echo_missed` | `EchoedToAll` | one client's reset connection ends the broadcast for the clients behind it |
| `library_race` | `RunningWhileUsed` | a constructor skips WSAStartup on a count that a destructor is taking to zero |

More disagreements are in the statements of properties that hold rather than in runs of
their own:

* `m_sockFD` is "only read if m_validFD is true" (`socks.hpp:69`), but no member
  function except the destructor looks at the flag: after a move or `socketFD(true)` a
  call reaches whatever socket has the number now.  `SoleOwner` and
  `ImplementsOwnership` hold with such calls (`StaleUse = TRUE`), until one of them is
  `socketFD(true)` (`socks.cpp:505-510`): it hands out a number that another object may
  have, and a client that closes it closes that object's descriptor.  Both properties end
  there (`misused`); without this clause both are false, and only `NoLeak` remains;
* copying a blank address onto a full one deletes the pointee and keeps the pointer
  (`addrs.cpp:116`), where the comments tell blank addresses by the pointer
  (`addrs.cpp:187`); size, comparison and destructor then use freed memory.
  `OwnsPointee` excludes that history ("copyBlank");
* the result of `unlink` is ignored (`socks.cpp:152`): `SocketFilesRemoved` and
  `StaleHasUnlinker` are about files that the system lets the destructor remove;
* "check if receive returns a vector of size 0" (`socks.hpp:118`): on a connection that was
  reset every receive after the one that threw returns size 0 too, and the first one does if
  another thread's send was told of the reset.  `EofIsEnd` allows for it;
* the getters of `socketOption` leave the length they pass uninitialized
  (`socks.cpp:457`): with a negative one they throw, with 0 they read nothing, with one
  below an int's size the getter of an int reads part of it, and with one above 1 the
  kernel writes up to four bytes to the one-byte variable of the getter of a bool.
  `OptionReadsBack` is about lengths that happen to be that of the bool, or to cover the int;
* "NULL-terminate" (`addrs.cpp:562`): an address that the kernel returned may fill
  `sun_path` (`addrs.cpp:550-553` take it), and the C structure of each copy of it gets its
  zero one octet behind the array.  `TerminatorInside` is about addresses that leave room
  for it, as those from texts do (`addrs.cpp:540`); without this clause it is false;
* "POLLHUP and POLLOUT are mutually exclusive; this function will return false if socket
  disconnects" (`socks.cpp:410`): Linux sets POLLOUT on a connection that was reset, for a
  send would not block, and `writeReady` answers yes.  No model shows it: `writeReady` is
  left out (section 6);
* `receive(address&, ...)` of a message without a sender's address returns an
  arbitrary one or loses the message: `SentOnceReceivedOnce` excludes such senders from
  what is not lost;
* a long time-out of `readReady` wraps in poll's `int` and may wait for ever, and one
  below a millisecond means for ever on Windows: the preconditions of `PollEnds`,
  `ReceiveEnds` and `TimeoutReadsBack`;
* a socket constructor that throws after `initialize` keeps its count, and Winsock is
  never finalized ("finalize ... automatically", `initialization.hpp:15`):
  `CountExact` counts it in `lost`;
* a socket that is destroyed with data to receive resets the connection, and what it
  had sent is lost ("no data is lost unless it is lost while traversing the
  network", `socks.cpp:108`): `ClosingLosesNothing` is about senders that have
  received everything;
* "This string should be usable to construct an identical address"
  (`addrs.hpp:114`): the name of an abstract or unnamed unix address is a description,
  and the name of a copy of an IPv6 address has no scope.  `NamesRebuild` is about
  addresses with a name, and about `==`, which does not compare scopes.

Bounds.  Three objects are what the interesting cases of `Socket` take: two that
exchange a descriptor while a third is being destroyed; with two descriptor numbers
every number is reused after every kind of close.  `socket_ownership` has no
names, which the descriptors' owners do not depend on.  The run about names has two
objects, for its temporal property rules out symmetry: a destructor, and a socket
that binds the same name behind it.  Three addresses are a source, a target and one
more that could share; three heap cells let each have a pointee, or one be lost.
`Modulus` 8 and `MaxLost` 2 in `Library`: five users and two lost ones stay below the
modulus.  In `Stream` the two sends at one end do not fit the kernels' buffers
together, so that calls are cut, blocked and interleaved, and one follows another that
failed half-way.  In
`Datagram`, two threads are what a race for a message takes, and
two sockets a list with an order and a second element; a message is longer than a
buffer of 1 and shorter than what a third length asks for.  There are 2 microseconds
to a millisecond, 6 to a second, 4 to a tick and 16 values of a `DWORD`, and the
time-outs are on both sides of each; the setters are run through all of them, while
data is only sent under the settings in `Settings`, and only the sockets in `Direct`
are received from without polling.  In `EchoServer`, with three clients one can be
skipped by the iterator while another is behind it, and one can be reset between a
speaker and a listener; two messages of one client show the order.  In
`AddressFormats`, a path of up to 4 octets is unnamed, abstract or named, with and without
zeros inside, of the longest text and of all of `sun_path`; the ports are on both sides of
the modulus.  Objects, descriptors, names, addresses, cells and threads
are interchangeable, and the safety runs of `Socket`, `Address` and `Library` use that
as symmetry.  So does `echo_missed`.

`address_owned` does not check for deadlock: when every address points to freed
memory, no step is defined.  Nor do the runs of `Stream`: it stops when both ends are
destroyed and the bounds are used up.

Fairness.  In `Socket`, `FairSpec` asks for weak fairness of the destructor's own
steps: a thread inside a destructor goes on, and none of the four system calls waits
for anything.  Nothing is assumed of clients or other processes.  In `Stream`, a
thread inside `send` goes on when `::send` can take something, fails because of a reset or
the time-out, or is not needed any more, the network moves, and the clients at the ends in `Readers` receive
what there is.  In `stream_live` only "a" is in `Readers` and only "a" has set a
time-out: the sends of "b" end because "a" receives, or is destroyed, those of "a"
because of the time-out.  `SendEnds` says just that: without either, a `send` may
well block for ever.  A signal may come at any time and never has to: it is no part of
the fairness, nor are the errors of `PollThrows` and `ReceiveThrows`.
In `Datagram`, a thread inside a call goes on when the kernel can answer or its time-out
can expire; nothing is asked of the network.  In `EchoServer` the
server's thread goes on, the kernels report closed clients, and the clients in `Readers`
read; `EveryoneServed` is about the case that all clients do, for one that does not
blocks the server in `send`.

`PROJECT.json` names for each property a seeded fault: an operator such as
`TakeMembersWithoutFlag`, defined just before the one it would replace and used
nowhere, that states the bug the property is there to catch.

## 4. Proofs

Every invariant, and the refinement, of a run that passes is also a theorem: it holds
for all values of the constants that satisfy the assumptions below.  Each module proves
one inductive invariant, by one lemma per action, and derives the rest from it.

**`SocketProofs`**, for all sets of objects, descriptors and names:

* `TypeCorrect` and `NothingLeaks` (`NoLeak`), whatever clients call on whatever object,
  and with other processes.  `LeakInv` is what they rest on: an open descriptor has an
  object that owns it, or is the client's, and a destructor that is under way has a
  valid descriptor (`Ready`).
* `OneOwner` (`SoleOwner`), with stale use.  `SoleOwner` alone is not inductive: it needs
  that a descriptor the client took is open (`ClientOpen`), or the kernel could hand it out
  again.  Both hold as long as no object is misused, and again after the end of the process.
  `OwnershipInv` is the conjunction.  The step proof goes through what
  each action does to `Owns`, `IsOpen`, `client` and `misused` (lemmas `SameOwners`,
  `ConstructGains`, `MoveAssignSwaps`, ...), so that the argument about ownership is
  made once for each kind of change.
* `RefinesOwnership`: `Spec => ImplementsOwnership`.  `MappingExact` says what the
  refinement mapping `Owner` is under the invariant until a misuse, and one lemma for each
  kind of change shows the abstract action.  A step to or in a misused state is a `Misuse`,
  for which the mapping only needs to name some owner (`OwnerType`, from `NoLeak`), and only
  the end of the process leads out of it (`MisuseLasts`).
* `DomainsAgree` and `StaleNamesAreUnlinked`, for clients that use valid objects
  only (`~StaleUse`).  `NamesInv` adds that the destructor's `local` still is the descriptor's
  local address until `close` (nobody binds a socket in its destructor) and that a
  name that refers to a descriptor is the name that socket is bound to.

**`AddressProofs`**: `AddressTypes`, `PointeesAreOwned` (`OwnsPointee`) and
`PointeesAreKept` (`NoLeak`), for all sets of addresses, cells and classes.  The
invariant is the conjunction of the three.  The actions come down to a few effects: an
address gains a pointee, loses it, exchanges it, or only a blank one changes.

**`LibraryProofs`**: `LibraryTypes` for any interleaving; `CountIsExact`,
`RunsWhileUsed` and `DestructorsReturn` under the hypothesis `Serial`, without which
they are false (`library_race`).  `SerialInv` says that only one thread is inside a
constructor or destructor (`Exclusive`), what the count and Winsock are when none is
(`Settled`), and, for each statement that the one thread can be at, what they are there
(`Stage`).  `CountAssumption`, that the users and the lost ones stay below the width of
the count, is needed for any of it.

**`StreamProofs`**: `StreamTypes`, `SentExactlyOnce`, `EofOnlyAtEnd` (`EofIsEnd`),
`NothingLostByClosing`, for all threads, calls, lengths and buffer sizes.
The core of `StreamInv` is `Conserved`: at a socket that is there, what `::send` took at
the other end is what was received, what is in the one kernel and what is in the other,
one after the other; if the connection is reset, unless the end of the peer's stream
came before, nothing of the sort is known.  `ResetByLoss` says that a connection is reset only if its peer is gone without
having received everything, which is what makes closing safe for a socket that has,
`ResetAt` what an end knows of it, and `Ended` what was received when `receive` returned
size 0: all of it, unless the reset was reported at this end before.

**`DatagramProofs`**: `DatagramTypes`, `ReceivedOnceAtMost` (`SentOnceReceivedOnce`),
`TimeoutIsRead` (`TimeoutReadsBack`), `OptionIsRead` (`OptionReadsBack`) and `ReadyIsKept`
(`ReadyUnlessRaced`).  `Placed` is what makes a message be received at most once: it is
in one place, and in one if and only if it was sent; the places are the network, a
queue, a thread's hands, what was returned and what was lost.  `SettingsKept` says what
the kernel holds after the setters, and the lemmas `PosixTimeout` and `WindowsTimeout`
what a getter makes of it, for any number of microseconds to a millisecond and a second,
any clock tick and any width.  `ReadyIsKept` has the hypothesis `ListsOnce`: no list given
to `readReadySockets` names a socket twice.  A caller that lists a socket twice finds it
twice, and takes its one message at the first.  `OptionIsRead` says nothing of
lengths with which the kernel writes behind the bool getter's variable.

**`FormatsProofs`**: `FormatsTypes`, `StructsAreKept` (`CopiesKeepStruct`), `TerminatorStaysInside`
(`TerminatorInside`), `NamesAreKept` (`NamesRebuild`), `PortIsWritten` (`PortAsWritten`), `OrderTotal` (`OrderIsTotal`), for any
octets and written ports, and any size of `sun_path`.  `FormatsInv` says what the
constructed address and what became of it have in common: the same octets and port, and
the same scope as long as no name was read (`InetsAgree`), or the same path up to one cut
at its first zero (`PathsAgree`).  It rests on the conversions being inverses of each other:
network order (`PortThere`, `OctetsThere`), the length of a `sockaddr_un`, also of a path that
fills it (`PathThere`), and the
kernel's cut being idempotent and never longer than the path (`CutIs`).  `AddressesOrdered` is about the order of any
three addresses, and the comparison of paths has its own lemmas: at the first place in
which two paths differ, the order is that of the octets there.

**`EchoProofs`**: `EchoTypes`, `EchoedInOrder` (`EchoInOrder`), `ConnectionsListedOnce`
(`ListedOnce`) and `OnlyMissedBehindReset` (`MissedBehindReset`), for any finite number of
clients.  Messages are in order because what a client has said is heard by the
others, or being sent around, or in its inbox, in this order (`Broadcast`, `Waiting`).
`Accounted` extends the last property to the middle of a broadcast: a message that is due
and not heard is still to be sent, or was lost behind a reset connection.  It holds
although the loop erases from the vector it runs over: `Positions` says where the iterators
can be, and that the one of the outer loop runs past the end only between two clients.

Assumptions.  All are about constants: sentinel values are different from the values they
stand in for (`NamesAssumption`, `FileAssumption`, `AddressAssumption`, `NoMessageAssumption`,
and "server" in `EchoAssumption`), there are finitely many clients, and numbers are in their
ranges (`LibraryAssumption`, `CountAssumption`, `StreamAssumption`, `DatagramAssumption`,
`OptionsAssumption`, `FormatAssumption`: an octet is in 0..255 and zero is one of them).  TLC
evaluates each of them in the runs.  The hypotheses of single theorems are `Serial`,
`ListsOnce`, and `~StaleUse` in the two about names.  None is about reachable states.

What the proofs changed in the models: the cases of `TimevalOption` overlapped (a
negative number of seconds with microseconds out of range is two of them), and are now tried
in the order in which the kernel tries them; `PollReturns` states that the sockets are
found in the order of the list by numbering their places.

Only model-checked: all liveness (`SocketFilesRemoved`, `SendEnds`, `SentArrives`,
`PollEnds`, `ReceiveEnds`, `EveryoneServed`), which is out of the prover's reach.  No module
declares a recursive operator, so that no property is left to TLC for that reason.

## 5. Plan

Everything that the modules set out to model is in them, and every safety property that a
run checks is proved.  What is left is about statements that are still weaker than they could be:

1. An abstract specification of a connection (two streams of bytes, each with an end)
   that `Stream` implements, and one of a mailbox for `Datagram`; the invariants `Conserved`
   and `Placed` are what their refinement mappings need.
2. Shorter proofs of the steps of `DatagramProofs` and `EchoProofs`, where the
   conjuncts that an action does not touch still take a step each.

## 6. Not modelled

* AX.25 addresses: never compiled, the macro that enables them is commented out in
  `macros.hpp`.
* Errors: `sysErr` wraps a number.  On Windows it subtracts 10000 from Winsock's
  numbers; whether the result is the number of the same error in `std::errc` depends on
  headers outside the repository.
* The test driver: scripted calls of the library.
* What an option does to a socket once it is set, `flags` of `send` and `receive`, and
  the addresses `localAddress` and `connectedAddress` return beyond what `Socket`,
  `AddressFormats` and `EchoServer` need of them.
* `writeReady`, and `writeReadySockets` over a list: they change nothing, and every send
  of the models may block, fail or go through as if they had not been asked.  Whether a
  yes still holds at the send is a fact about the kernel and the client's other threads.
* `operator==` and `!=` of sockets compare two numbers, and the forms of `send` and `receive` that only convert
  their arguments are the form they call.
