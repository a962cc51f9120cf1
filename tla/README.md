# A verification of freeflow-c

freeflow-c is three programs. `flowctl` is a command line client, `flowmgr` a manager
daemon, and `flowpath` the data plane daemon and library that moves packets. This
directory holds TLA+ models of their control, TLC runs on small instances, and proofs
that TLAPS checks for every value of the constants. The models are written from the
source; where it disagrees with its own comments, documents or tests, a run shows how.

To run a configuration `X.cfg` of module `M`, use `tlc -config X.cfg M`; to check the
proofs, `tlapm M.tla` for `M` one of `RingLemmas`, `RingProofs`, `NadkProofs`, `WireProofs`,
`ManagementProofs`, `HashTableProofs`, `JsonProofs` and `FlowMgrProofs`. `PROJECT.json`
lists the runs with their modules, the lines each definition stands for, the hazards and the
findings.

## The system

    flowctl  --JSON, one command-->  flowmgr  --JSON request-->   flowpath
    flowctl  <--answer, or none---   flowmgr  <--result, JSON--   flowpath
                                                                   data planes
                                                                   wire: port <-> port
                                                                   NADK and UDP devices

| Component (source) | State it keeps | Operations |
|---|---|---|
| flowctl (`src/flowctl`) | one connection | build a command, connect, send, read once, end |
| flowmgr loop (`flowmgr/main.cpp`, `freeflow/async.hpp`, `poll.hpp`) | poll set, handler map, handlers to remove | poll, dispatch, register, unregister, stop on a signal |
| flowmgr channels (`control.cpp`, `switch.cpp`) | one flowctl channel, one switch channel | accept, read, forward, reply, take down |
| flowmgr dispatch (`request.cpp`, `dataplane.cpp`, `port.cpp`) | none | forward, ignore or reject a command |
| flowpath management (`manage.c`, `proto.c`, `main.c`) | one connection, the request on the stack | read a request, look the data plane up, act, answer |
| data planes (`dataplane.c`, `pipeline.c`) | table of data planes; per data plane a name pointer, state bit, port table | create, delete, add/remove/list ports, start, stop |
| wire (`pipelines/wire/wire.c`) | two ends | add and remove an end, insert (ingress, route, egress) |
| ring (`util.c`) | head, tail, slots | init, push, pop, top, remove; single and batch |
| NADK and UDP devices (`port_nadk.c`, `port_udp.c`, `packet.c`, `tests/test-nadk.c`) | a receive and a transmit ring; who owns a packet's memory | receive, send, in batches; loop back |
| hash table (`hash.c`) | size, number of buckets, chains | insert, find, update, remove, grow |
| JSON (`src/freeflow/json.cpp`, `json.hpp`) | the text, the values read | parse, print, look up, construct |
| allocators (`src/freeflow/memory.cpp`) | blocks of memory, a position in the last | allocate, add a block |

flowmgr is one thread. It shares nothing with its peers but sockets: all concurrency
between the three programs is the order of connections, messages, ends of connection and
signals. Inside flowmgr the parts are coupled by pointers (a channel uses the other one
through the daemon) and by descriptor numbers, which the kernel reuses. flowpath handles
one request at a time. Its packet path is a loop over two devices; the driver below it may
take any part of a batch.

What is hard here, and what would make it right:

- *flowmgr*: clients and switches come, go, overlap and are replaced, and handlers are
  removed only after a round. Right means: the poll set, the handler map and the channels
  describe the same open descriptors; a reply reaches the flowctl that asked; nobody hangs;
  flowmgr ends, and gives up a server socket, only when told to.
- *ring*: indices wrap, one slot must stay free, batches cross the end of the array. Right
  means: it is a bounded queue with the results its callers read.
- *packet path*: batches are accepted in part, rings fill up, packet memory has different
  owners. Right means: in order, once, nothing lost, memory released once by its owner.
- *data planes*: the port table and the ends of the wire are changed by separate calls that
  may fail; names are pointers; creation may fail half way. Right means: the two agree, a
  failed call leaves nothing behind, names identify data planes.
- *hash table*: it grows by copying itself into a table that grows while it is filled, and
  takes over the chains but not the number of buckets. Right means: it is a map.
- *JSON*: commands are texts put together by one program and taken apart by another, read
  from a socket that may cut them. Right means: no character is lost or read twice, what is
  printed reads back, what flowctl writes is what flowmgr finds, the nodes fit their memory.
- *allocators*: the position in a block is computed before a block is added. Right means:
  what is handed out lies in its block and overlaps nothing.

## Modules

| Module | Role |
|---|---|
| `BoundedFifo` | abstract: a bounded first-in first-out queue |
| `Ring` | `util.c`, one operator per function; no variables |
| `RingQueue` | any sequence of calls on one ring; refines `BoundedFifo` |
| `RingLemmas` | what each function of `Ring` does to count and contents, for every size |
| `RingProofs` | theorems about `RingQueue` |
| `CommandService` | abstract: a command is executed at most once, its answer is its own |
| `Commands` | what flowctl can send and what flowmgr's tables do with it |
| `FlowMgr`, `MCFlowMgr` | flowmgr with its clients, switches and kernel; refines `CommandService` |
| `FlowMgrProofs` | theorems about `FlowMgr`, and its refinement of `CommandService` |
| `NadkPort` | the packet path between two devices; instantiates `Ring` |
| `NadkProofs` | theorems about `NadkPort`; uses `RingLemmas` |
| `WireService` | abstract: named wires that forward from end to end |
| `Dataplane` | `dataplane.c` and `wire.c`, one operator per function, and their state |
| `WireProgram`, `MCWire` | a program that links flowpath; refines `WireService` |
| `WireProofs` | theorems about `WireProgram`, and its refinement of `WireService` |
| `Management` | `manage.c`, the daemon on top of `Dataplane` |
| `ManagementProofs` | theorems about `Management` |
| `MultiMap` | abstract: a map in which a key may be inserted more than once |
| `HashTable` | `hash.c`; refines `MultiMap` |
| `HashTableProofs` | theorems about `HashTable`, and its refinement of `MultiMap` |
| `Json` | `json.hpp`, `json.cpp`: parsing, lookups, construction; no variables |
| `Allocators` | `memory.cpp`: the sequential allocator |
| `JsonDocument` | a program that reads values from a text; on top of `Json` and `Allocators` |
| `JsonPrinting`, `MCJson` | printing what was read, and the instance for TLC |
| `JsonProofs` | theorems about `Allocators` and `JsonDocument` |

Operators named `f_Something` and marked "Bug" are wrong forms of the definition `f` next
to them. No specification uses them; they are put in its place to see that the properties
notice (`PROJECT.json`, "mutants").

### Ring, RingQueue

A ring is a record of `head`, `tail` and the array; each function maps a ring to the ring
it leaves, the count it returns and the items it hands out. The loops of `util.c` are given
by their effect: `Slot(i, k)` is the k-th slot visited. The array starts with `Junk`, since
`fp_ring_new` does not clear it, and `fp_ring_init` leaves it as it is. `RingQueue` has one
action per function and keeps what the last call returned in `ret`, so that the refinement
of `BoundedFifo` compares results too, not only contents.

### FlowMgr

One process per action owner: `Mgr` is the thread of flowmgr, the clients and switches are
processes of their own. `poll`, each call of a handler, each removal of a handler and the
end of the round are separate actions, and the other processes and a signal act between any
two of them. A handler call is one action because flowmgr does not give up control in it;
what peers do meanwhile commutes with it, except that a peer may die before a send, which
is the case in which the peer dies before the handler starts.

The kernel is modelled as far as the code depends on it: the lowest free descriptor is
handed out, the backlog of a server socket, a byte stream in each direction whose data
outlives its sender, `recv` returning nothing at the end, and SIGPIPE for a send to a peer
that is gone. `ios` is the handler map, which keeps an entry that is already there; `ps` is
the poll set; `rm` the handlers to remove. `Fatal` collects the cases in which a handler
call ends the process. A process has one connection, so connections are named by their peer
and a message by the client whose command it is.

flowctl is `flowctl_connect`, `flowctl_send`, `flowctl_recv`. flowpath is `flowpath_open`,
`fp_mgr_incoming` and, for the end of the stream, `fp_mgr_incoming_closed`, in which the
request the stack still holds is handled again. A command is the pair of members that
decides where it goes, and `Outcome` is the two dispatch tables.

Nothing waits for flowmgr: a flowctl may connect before flowmgr has seen the end of the one
before, and a flowpath before its predecessor's channel is gone. `accept` comes before the
look at the channel, so whoever finds it taken is accepted, keeps a descriptor without a
handler (`Refused`), and makes the server handler ask for its own removal.

`Faults` says what else the environment may do; each fault is something that really
happens. They are separate because the code survives some and not others, and a run with all
of them would show the first failure only.

| Fault | What it allows |
|---|---|
| `kill_client` | a flowctl is killed before its answer |
| `no_switch` | a flowctl connects while flowmgr has no flowpath, or one that has left |
| `switch_exit`, `idle_restart` | a flowpath leaves at any time, or while flowmgr has no flowctl, connected or waiting |
| `large_command` | a message that fills flowmgr's buffer: the channel is removed |
| `accept_fails` | `accept` returns an error: the server is removed |
| `signal` | flowmgr is told to stop; the servers are deleted, a second time if they were removed |

### NadkPort

The loops of `tests/test-nadk.c`. `test` is the loop that runs, `turn` the device served,
`hand` the packet between receive and send, and `Target` the device that sends what another
received: the same one ("reflect", "loopback") or the other ("xreflect", "xloopback").
`rx` and `tx` are rings of module `Ring` with `2 * Budget` slots, as `fp_nadk_open` makes
them. `nadk_receive` and `nadk_send` are the driver: it hands over up to a budget of
frames, and takes any part of a batch. A packet is a frame and the owner of its memory;
`freed` holds the packets whose data segment was released. What a function forgets (a
packet a full ring does not take) simply is in no place any more. The loopbacks pass a
batch from driver to driver without rings; what is not taken is freed, which `dropped`
records. The dataplane test sends through a complete wire, which does what "xreflect" does
and is not a loop of its own here. The signal that ends a test is left out.

What a UDP device sends is addressed to its own socket (`fp_udp_open` binds and
`fp_udp_send` sends to the same address), so it comes back in its queue.

A UDP receive finds no datagram, or an empty one, at any time and then returns null, as the
code does on an error of `recvfrom`; the loop goes on with the other device.

Devices are open in the initial state: `fp_port_create` faults (`Management`), and the
tests build their ports by hand.

### Dataplane, WireProgram, Management

`dps` is the table of data planes. A data plane is a record of `name`, `up`, `table`,
`size` and `ends`. `table` is a set: the hash table is exact for ids below 53, the smallest
size it grows to (`HashTable`), and `DataplaneAssumption` requires such ids. `size` counts
insertions, as `hash.c` does, so it exceeds the number of ids when one is inserted again.
`up` starts with any value because `malloc` does not set it. A null port matches an empty
end, as in the pointer comparisons of `wire.c`. `crashed` is set where a null or garbage
pointer is followed.

`fp_dataplane_create` does what the code does in its order: it takes the first empty slot,
sets the name, and loads the pipeline; a data plane whose pipeline does not load is handed
to `fp_dataplane_delete` as it is, with the pointers to its tables that `malloc` left there
(`AsFound`). They are null, and releasing them does nothing, or `Garbage`.

`WireProgram` is a program that uses the library by its header, with names of its own and
ports it built; `Management` is the daemon, in which `dp->name` points into the receive
buffer of `fp_mgr_incoming` and so reads as the name of the request at hand (`Inbuf`), and
a port id in a delete request is the address of a string. Both EXTEND `Dataplane`.

`Management` has one variable of its own, `req`, the receive buffer with the last request:
what the name of a data plane points to changes with every request.

### MultiMap, HashTable

`HashTable` holds the number of buckets, the size and the chains of one table; the chains
are a function from the buckets that have one, because the array is longer than the table
says as soon as the copy grew while it was made. Growing is a recursive insertion, as in the
code: every entry of the old table is inserted into the new one, which grows on its own,
since the load factor is computed upside down and nearly every insertion finds the table
"loaded". The recursion is on the number of entries: `Copied[d]` makes the copies of up to
`d` entries, by insertions that grow by copies of fewer. `Visited` is what the loop of
`resize` meets, bucket by bucket and head first: the slots of the table in their order. Keys are ids below 53, and addresses that are asked for as if they were ids.
`found` in `MultiMap` is what the last call returned, so that the refinement compares
results as well as contents. A key may be inserted twice; which of its values a later call
meets is left open in `MultiMap`.

### Json, JsonDocument, JsonPrinting, Allocators

`Json` gives the parser as operators from a text and a position to a value, the position
where it stopped and the number of nodes it allocated. They are given what the parts of the
text are parsed as, a function from a kind of part (a value, the rest of an array, the rest
of an object) and a position, and `parse_value` is the one function that agrees with itself.
A parse that steps over the end of its text is an "overrun", whatever it would
read there. The characters are one of each class that the parser tells apart. Both lookups
and the construction of a command are operators too. Printing, which follows a value and no
text, is a recursive operator, in a module of its own that no proof uses.

`JsonDocument` is `freeflow/test/json-parse.cpp`: one value is parsed from a text, and its
nodes are allocated. The texts are all short ones, the commands that flowctl builds
(`make_object`), arrays (`make_array`), and longer ones cut anywhere, as a read from a socket
may do. Nodes come from `Allocators`, where `alloc` is the size, offset and number of blocks
of a sequential allocator and `objects` is what it handed out. All nodes have one size, since
a document asks for the largest. flowmgr parses one value too, but takes its nodes from a
`Buffer_allocator`, one block of 4096 bytes with an assertion at its end: of that one only
the number of nodes matters, which `NodesAtMostChars` bounds. `parse(std::string&)`, which
nothing calls and whose nodes point into the string that it replaces, is not modelled.

## Runs

### Passing

| Run | Shows | Bounds |
|---|---|---|
| `RingQueue` | indices stay inside the array, only stored items are handed out, a ring is a `BoundedFifo` | 4 slots, 2 items, batches to 4: every position of head and tail, batches that wrap, that fill the ring and that exceed it |
| `FlowMgrSteady` | the tables agree between two rounds; what flowmgr leaks is one connection for each server socket it gives up | 2 clients, 2 switches that come at any time, overlap or follow one another; killed clients, restarts of flowpath without a flowctl, large commands, `accept` failing, a signal |
| `FlowMgrServed` | flowmgr does not crash, and loses a server only for a connection it refused; a command is executed once and answered with its own result; a flowctl ends unless its command is ignored or it was refused, and gives the channel back unless its command is ignored | the same processes, restarts and large commands; nobody is killed |
| `FlowMgrFaulty` | only the last request under way has a flowctl that waits; a reply arrives once, and elsewhere than where it was asked for only if that flowctl has left; a command is executed again only by the flowpath that executed it, at the end of its connection | the same processes, every fault |
| `NadkTwo` | over rings frames leave in order and each is in one place; a loopback sends in order and frees the rest; all frames leave but an incomplete last batch | all four loops, budget 2, 4 frames a side: rings that wrap and fill, batches taken in part |
| `NadkMixed` | a frame is put on a wire once by a device, whatever the driver refuses | NADK and UDP, budget 2, 3 frames |
| `Wire` | data planes are well formed, the ends of a wire are in its port table, names are unique, wires do not mix and forward from end to end | 2 slots, 3 names, 3 ports, 3 insertions in all: a full table of data planes and reused slots, a complete wire that refuses a third port, two wires |
| `Daemon` | a request answered with an error changed no data plane: a slot that was taken is given back; there is never more than one data plane | 2 slots, 3 names, a pipeline that loads, one that is missing and one without a constructor |
| `HashTable` | ids below 53 behave as in a map, however the table and its copies grow; a bucket holds one key; the size counts the entries | 17 buckets, ids 20 and 52, the address 73, which shares a bucket with 20 when there are 53; up to 4 entries at a time and growth through several primes |
| `Json` | printing gives back what was read, values read back, commands are found as flowctl wrote them, both lookups agree, a parse that overruns is one of a text cut before a value or behind a backslash, nodes do not overlap and lie in their blocks as far as objects fill those | 12 characters, all texts up to 4 of them, 2 longer texts cut anywhere, commands of up to 2 members, blocks of 8 bytes, which two objects fill, and of 9, in which an object ends behind the block |

Bounds named in the modules: `MaxFd` (descriptors; enough for every process at once),
`MaxFrames` (arrivals per device), `MaxBatch` (largest batch), `MaxSize` (insertions into
the port tables of two data planes), `MaxEntries` (entries of a hash table; four take it
through growth inside growth), `MaxShort` (length of the texts that are tried in full) and
`MaxBlocks` (blocks of an allocator, more than any text of the run needs). Four characters
are enough for every construct to begin, be cut and be followed by any other; the longer
texts nest them.

`Wire` declares the names a symmetry, since the code only compares them; port ids are no
symmetry, since they are also used as bucket numbers. Two clients are what it takes to
overlap, replace or follow one another; the code tells "a client" from "none" and nothing
more, and the safety properties of `FlowMgrSteady` and `FlowMgrServed` are proved for any number. Two switches allow a restart. Each client runs one command, as the program does.
The commands are one that is forwarded, one that is rejected and one that is ignored; in
`FlowMgrFaulty` one that is forwarded and one that is ignored.

### Runs that end in a counterexample

Each checks one statement of the repository that the code does not keep; the line is quoted
under "findings" in `PROJECT.json`.

| Run | What happens |
|---|---|
| `FlowMgrReplacedClient` | a client is killed in mid-command, the next one gets the reply to its command: replies go to whoever is connected |
| `NadkCopied` | a packet is copied and its data released before the driver says whether it takes it; it does not, and the packet stays queued |

The passing runs and these belong together: a passing run says under which environment the
property holds, and `Faults` and `Driver` name what each environment leaves out.

### Further disagreements

The same definitions show these; no run is kept for them, because one step or two, as the
definition named has them, make them plain.

- A switch that exits closes the descriptor of the flowctl channel, whose handler stays
  registered under a number that the kernel gives away again; the comment speaks of taking
  the client down (`unregister_handler`; switch.cpp:110-120).
- A second flowctl keeps an open connection that nobody serves, where the comment says that it
  is shut down, and makes flowmgr remove the server socket, so that no flowctl can connect any
  more (`Control_server_on_input`, `Refused`; control.cpp:61-74).
- A command without a switch follows a null pointer, as the check for it is not used (`Fatal`;
  control.cpp:82-85, flowmgr/dataplane.cpp:39).
- A signal after a server was removed deletes that server a second time (`signal_handler`;
  main.cpp:107, 187-188).
- `list-dps` waits for ever, since flowmgr reads the command and sends nothing (`FlowctlEnds`;
  flowmgr/dataplane.cpp:61-96, flowctl/util.cpp:111).
- `ping` and taking a data plane up or down are rejected, and of the other commands most are
  read and never answered (`Outcome`; flowmgr/dataplane.cpp:61-96, request.cpp:62-67).
- A switch that is accepted while one is connected costs flowmgr the server socket of switches in the
  same way as a second flowctl (`Switch_server_on_input`; switch.cpp:54-65).
- At the end of its connection flowpath executes the last request again
  (`fp_mgr_incoming_closed`; manage.c:254-270).
- A full transmit ring drops packets with their memory, and an incomplete batch is never
  sent (`fp_nadk_send`; port_nadk.c:614-627).
- A UDP device releases the buffer of a packet that a NADK device received (`fp_udp_send`;
  port_udp.c:227, packet.h:22-24).
- The state bit of a data plane starts uninitialised, and stopping a data plane starts its
  pipeline again (`AsFound`, `fp_dataplane_stop`; dataplane.c:17-31, 222-224).
- A packet on a wire with one end follows a null pointer instead of being dropped
  (`wire_insert`; wire.c:32-33, 66-73, 172-173).
- The port table keeps a port that the wire refused, and one that was removed, as the pointer
  to the result is compared and not the result (`fp_dataplane_add_port`,
  `fp_dataplane_remove_port`; dataplane.c:146-155, 169-173).
- A pipeline that does not load has tables released that were never made
  (`fp_dataplane_delete`, `AsFound`; dataplane.c:89-99, 118-129).
- Listing ports reads buckets that are empty (`fp_dataplane_list_ports`; dataplane.c:182-184).
- In the daemon the first data plane answers to every name, so that a second one is refused
  as existing (`OneDataPlane`), and the daemon deletes it by whatever name, where flowctl's
  README speaks of a matching name (`Matches`; dataplane.c:49-52, 82, manage.c:96-98,
  flowctl/README.md:35-36); deleting a port that does not exist and
  listing the ports of a data plane that does not exist succeed (`fp_on_port_del`,
  `fp_on_port_list`; manage.c:170, 187-194); adding a port with a device ends the daemon
  (`fp_port_create`; port.h:56, port.c:15-26). Would the table of ports exist, every port
  would get id 1, since nothing enters an id into it (port.c:16-26, 42-48).
- The table of ports grows with nearly every insertion, because the load is buckets over
  entries (`Loaded`; hash.c:163-166, 263). Keys from 53 on may share a bucket, where an
  update changes the head whatever its key (`fp_chained_hash_table_update`; hash.c:277-283).
  Keys from 97 on may be lost: the table takes over chains made for more buckets than it
  records, and looks for key 100, which is in bucket 100, in bucket 3
  (`fp_chained_hash_table_resize`; hash.c:226-250).
- A key equals every name that it begins, where the comment speaks of the same sequence of
  characters (`Equal`; json.hpp:79-101).
- A text that ends where a value must follow, or behind a backslash, is read past its end
  (`parse_identifier`, `Quote`; json.cpp:362, 382-386). A text that is no JSON makes flowmgr
  follow a null pointer behind the handler of the exception (request.cpp:99-109).
- A message of more than 170 values exceeds the arena, which only an assertion guards
  (`NodesAtMostChars`; request.cpp:96-104).
- A value with a quote or a backslash is put into a command as it is, and the elements of an
  array get no quotes (`make_object`, `make_array`; json.cpp:479-505).
- The sequential allocator uses the position in one block for the next, which is right for
  objects of one size that fill a block up to its last header and overflows otherwise, as with three pages and objects of 24 bytes; the first object is not compared with the block; `allocated()` is short of a
  header (`Position`, `InsideBlock`; memory.cpp:40-60, 83-96).
- The range check of `fp_nadk_open` is never true (`p < 0 && p >= cnt`; port_nadk.c:406);
  `fp_nadk_init` leaves what it has set up when a later step fails, where its comment says
  that resources should be cleaned up on any exit (port_nadk.c:92-93).
- A second signal to `test-nadk` raises itself for ever: the flag that tells of a handler at
  work is never reset (tests/test-nadk.c:39-41).
- flowctl's README lists one-word commands (`add-dp`); the program takes two (`dp add`), and
  has no command for an application (flowctl/README.md:26-59, flowctl/main.cpp:144-160).

### Fairness

`FlowMgr`: weak fairness of flowmgr's thread as a whole (it is one loop; the scheduler runs
a process that can run), of a client's send and receive, and of flowpath's reading. Two kinds
of flowctl have no end to expect, and `FlowctlEnds` names them: one whose command flowmgr
ignores, and one that was refused with its descriptor left open. Nothing
requires a client to start, a process to die, a switch to appear or a signal to come.
`NadkPort`: weak fairness of the loop; frames need not arrive. The safety properties do not
use it. `RingQueue`, `WireProgram`, `Management`, `HashTable` and `JsonDocument` state no
fairness: their callers decide. That a program which goes on behind a value comes to the
end of its text is the action property `EachParseReads`: a value takes characters.

### Deadlock

Deadlock is checked for `RingQueue`, for `HashTable` and for the runs of `NadkPort`, whose
loop always goes on. It is not checked where the system may stop: `FlowMgr` (clients end, and
flowmgr sleeps in `poll`), `WireProgram` and `Management` (a crash ends the program, and a
caller may be done), and `Json` (a program is done when its text is read).

## Proofs

`RingProofs` assumes `RingAssumption` (`Num` is a positive number and `Junk` is no item) and
`BatchAssumption`. For every number of slots, set of items and batch size it proves

- `RingTypeCorrect`: the indices stay inside the array;
- `RingStoredItemsOnly`: only stored items are handed out. The inductive invariant is the
  type invariant with the slots between head and tail holding items, which is what a pop
  needs to hand out an item;
- `RingImplementsFifo`: `Spec` implements `BoundedFifo!Spec`. For each call a lemma says
  which count and contents the ring has afterwards, by the arithmetic of `Slot` and `Steps`
  (modulo `Num`, without the modulus); the step of the abstract queue follows.

`WireProofs` assumes `DataplaneAssumption`: the table has a slot and port ids are below 53,
as `Dataplane` says. `NullAssumption`, which the next proofs use too, says that the null
pointer is no port, slot or data plane. For every set of names, pipelines and ports and
every size of the table it proves

- `WireTypeCorrect`: data planes stay well formed, a wire has two ends that are ports or
  empty, and a packet goes from a port to a port;
- `WireEndsInTable`: the ends of every wire are in its port table. The invariant `IInv` is
  `TypeOK /\ EndsInTable`: the type is needed for the record updates, and the ends for the
  calls that move a port to an end. `WireEnds` says what adding and removing do to the ends,
  `SetKeepsInv` that a call which leaves one well-formed data plane keeps `IInv`; there is one
  lemma per call of the program.

For the refinement `NullAssumption` is needed too:

- `WireImplementsService`: the program gets what `WireService` promises. A name stands for
  the one data plane in the table that bears it, and what a name has is the set of ports on
  its ends. That is a function only if names are unique, and a packet has another end to go
  to only if no wire has a port twice, so the invariant `SInv` is `IInv` with `Unique`,
  `Named` (only the program's names occur) and `Distinct`. `Created`, `Destroyed` and
  `Replaced` say what a change of one slot does to names and ends, `Joins`, `Leaves` and
  `Crosses` what the wire's calls do to the ports of one data plane, and `FewerNames` that
  an empty slot leaves room for another name. The lemma of each call puts these together to
  a step of the service, or to none.

`HashTableProofs` assumes `HashAssumption`: ids lie below 53, the smallest prime of the list,
other keys asked for are no ids, and a new table has fewer than 53 buckets, as the 17 of
`dataplane.c`. For every set of values and any number of entries it proves

- `HashTypeCorrect`, `HashBucketOfOneKey` and `HashSizeCountsEntries`;
- `HashImplementsMap`: `Spec` implements `MultiMap!Spec`.

The invariant `HashInv` says that a table is `Good`: its chains are those of their own keys,
its size is the number of places in them, and a table that still has its first number of
buckets is empty. The last is why the ids need to be below 53 and not below 17: an empty
table is always "loaded", so it has grown to a prime before anything is in it, and from then
on the bucket of an id is the id. It is also why a table knows of all its chains, although it
takes them from a copy that may have more buckets.

That an insertion keeps this (`InsertRight`) needs to know what a copy is, and a copy is made
by insertions. The induction is on the number of entries: `CopiesRight(copy, d)` says that the
copies of up to `d` entries are good and hold each entry as often as the sequence they are
made from, for each set of entries (`Held`, `Among`). `MadeRight` shows it for `d` from
`d - 1`, and `CopiesAreRight` for all `d`: a least number for which it failed would contradict
this (`Least`). `CopiedIs` shows that the recursive function `Copied` exists and is what its
definition says, by gluing the functions up to each number. `Numbered` and `VisitedRight` say
that the loop of `resize` meets each entry of the table once.

A removal takes the head of a chain and an update replaces it (`PlaceIs`, since a chain has
one key), and a table is the table without a head with that entry put before it
(`HeadOfChain`): so one lemma on what an entry put before a chain adds (`PrependRight`)
serves for all three.

`ManagementProofs` assumes `DataplaneAssumption` as well and proves, for every table size,
names and pipelines,

- `MgmtFailureLeavesNoTrace`: a request that is answered with an error changed no data
  plane. The request that takes something before it fails is one for a data plane whose
  pipeline does not load. `FirstSlot` says that the slot it takes exists and was empty, and
  `TakenAndGivenBack` that deleting what is in it leaves the table as it was; the invariant
  `Slotted`, that the table is a function on the slots, is what makes the two the same
  table. For the other requests one lemma for each layer of calls says that a call reports
  success or leaves the data planes alone;
- `MgmtOneDataPlane`: the daemon has one data plane at most. The invariant `Single` adds that
  each goes by the name in the receive buffer, so that every request finds the one there is
  (`FindsIt`).

`NadkProofs` assumes `NadkAssumption`: there are two devices, the budget is a positive
number, `Null` is no packet, and UDP devices are used with "xreflect" only. It applies
`RingLemmas` to rings of `2 * Budget` slots, and proves for every budget, every number of
frames, each mix of devices and each behaviour of the driver

- `NadkTypeCorrect`. The invariant `Well` is `TypeOK` with the fact that what lies between
  head and tail of a ring is packets, which is what a device needs to send a packet it
  popped;
- `NadkForwardedInOrder`: between two NADK devices with a driver that takes something of
  every batch, what a device sent, followed by what is queued for it, is what arrived. The
  invariant `IInv` adds `Room`: between two packets a transmit ring holds less than a budget,
  so that it takes the next packet and a full batch goes out at once. Without it a packet
  could meet a full ring and be forgotten. The argument is that of a line: out, transmit
  ring, hand, receive ring and the driver's queue, one behind the other (`Joined`). A frame
  that arrives joins the end (`LineArrive`); receiving and sending move frames from one part
  to the next and leave the line as it is (`LineRecv`, `LineSend`), for every part of a
  batch that the driver hands over or takes;
- `NadkSentOnce`: if at most one device is a UDP socket, no device puts a frame on the wire
  twice, with a driver that refuses batches, without buffers for copies and with full rings
  too. The assumption is needed: a UDP device sends to its own address, so two of them would
  pass one frame to and fro for ever. The invariant `OInv` follows the track of a device,
  which is its line without the claim that nothing is missing: a track holds a frame once,
  and a frame on it arrived on that device or, if that is a UDP socket, is one that the
  socket sent itself. That is why a frame that is sent on a UDP socket, and comes back to
  its queue, is new there. `MovedHolds` says that frames that move along a line, and one
  that is lost at a full ring, leave a line that holds each frame once. `OInv` also says
  that a loopback has no packet in hand;
- `NadkSentOrFreed`: a loopback, with any driver, sends the frames in order, and each frame
  that arrived is sent, queued or freed, and only one of these. The invariant `LInv` adds
  that nothing is freed before it arrives: otherwise a new frame could count as freed.

TLC checked `OInv` and `LInv` on the instances of `NadkTwo` (with a driver that refuses
batches as well) and `NadkMixed` before they were proved.

`JsonProofs` assumes `AllocatorAssumption`: a block has room for two headers, an object and
more. Objects need not fill it: the sizes 4096 and 65536 of the tests are filled by objects of
24 bytes with headers of 8, other multiples of the page size are not. For every such size and
any number of objects it proves

- `AllocatorTypeCorrect` and `AllocatorObjectsDisjoint`;
- `AllocatorInsideBlock`: objects lie between the header of their block and a header's place
  before its end. The first object of a further block, whose position was computed for the
  block before, is the exception: it may end later, by less than an object, unless objects
  fill the blocks. That may be behind the block: it is for the blocks of 9 in `Json`, and
  for three pages.

The invariant says that objects lie on a grid, which begins behind the header and has steps
of an object (`OnGrid`), and that those of the last block lie below the offset, but for the
first of a further one: that one lies where the block before was left, which is where the
next call would not put one.

`DocumentAssumption` says no more than that the constants are texts: which texts, names and
characters, and how many and how long, is open. For all of them it proves

- `JsonUsesAllocator`: the nodes are an allocator's work, so that the theorems above hold of
  a program that reads;
- `JsonNodesAtMostChars` and `JsonEachParseReads`: the nodes that are allocated or due are no
  more than the characters that were read, and a value that is read takes characters off the
  text;
- `JsonLookupsAgree`: both lookups find the same unless a key is the beginning of the name;
- `JsonOverrunsOnlyIfCut`: a parse steps over the end of a text only where a value must
  follow and the text ends, or behind a backslash.

They rest on one fact about the parser, `ParseValueRight`: a parse that ends well moves
on by at least the nodes it took, one that fails took no more than what was left, and an
object is a sequence of pairs. It is shown for each function of the parser from what it
calls. What a part of the text is parsed as depends on parts of lower `Rank` only: those
that begin later, and the value that an array's rest begins with (`PartLocal`). So there is
a function that `parse_value` can choose (`ParsesExists`, by least counterexample, as the
library's induction takes an operator), and what holds of a part when it holds of those of
lower rank holds of all (`ParsesRight`). `Quote`, `After` and `FlattenSeq` are dealt with in
the same way. For the last theorem, `Squeezes` is `Squeezed` as a function of the position,
and `Behind` says that it drops what a parse took along: a parse that ends well at `j` has
taken a beginning off the squeezed text, and one that overruns has met its end, behind one
of the four characters if it was a pair or its beginning was read (`Aligned`, `Strict`,
`ParseValueAligned`, along `Rank` again). `DocumentInv` then counts: the nodes against the characters of `given` that
are no longer in `text`.

`FlowMgrProofs` assumes `FlowMgrAssumption` and `ProcessAssumption`: descriptors suffice for
every process at once, the processes are finitely many (the sum that says how many
descriptors suffice needs that), and names, peers and handlers are told apart. What it
proves holds for every number of clients and switches and every set of commands, and for
the environments that the theorem names by `Faults`:

| Theorem | Environments |
|---|---|
| `BaseInvariant` | all |
| `FlowMgrTypeCorrect`, `FlowMgrTablesAgree`, `FlowMgrOneLeakPerServer`, `FlowMgrOnlyLatestAwaited`, `FlowMgrReplyGoesOnce`, `FlowMgrExecutedAgainAtEnd` | `SteadyFaults`: no `no_switch`, no `switch_exit` |
| `FlowMgrStillListening` | `SteadyFaults`, and `accept` does not fail |
| `FlowMgrOwnReply` | `CalmFaults`: `idle_restart`, `large_command`, `accept_fails`, `signal` |
| `FlowMgrNotCrashed`, `FlowMgrImplementsService` | `ServiceFaults`: `idle_restart`, `large_command`, `accept_fails` |

In each of them clients and switches connect whenever they like: on top of each other, right
behind each other, and before flowmgr has noticed that the one before is gone. What the
theorems exclude makes the properties false of the code, or they are not known to hold: with a killed client the next one gets its reply (`FlowMgrReplacedClient`),
without a flowpath a command crashes flowmgr, a signal may delete a server twice, and a flowpath that leaves under a flowctl closes that
one's descriptor under its handler.

The invariants, each inductive with the ones before it:

- `Base` is types and bookkeeping. The kernel has one end and at most one descriptor for
  each connection, what waits at a server socket waits once and at its own socket, and the
  handler map is polled, keyed by descriptor and of the right kind. It is what makes
  `accept` find a descriptor (`EnoughDescriptors` counts those in use) and `ios.insert` add
  a handler. It holds in the middle of a round, after a crash, and when a switch that left
  has had the flowctl's descriptor closed under its handler: what is lost then is that a
  flowctl channel has a flowctl's descriptor, and `Base` does not claim that.
- `Steady` is that the tables agree in the middle of a round too (`TablesOK`), and why: while
  a flowctl is connected or waits there is a switch, and one that has left finds no flowctl
  (`NeededOK`), so that removing a switch channel closes nobody else's descriptor.
- `LeaksOK`: a server that refused a connection is to be removed and is not called again
  before it is, so one connection is all that is refused on a socket. `ListensOK` says the
  converse for servers that are gone.
- `TokensOK`: the request of a client, or the reply to it, is in one place. `LinesOK`: in
  what is under way between flowmgr and a switch, whoever asked for one that is not the last
  has left, and the client that asked last has flowmgr's channel, unless it left. This is
  what remains true when clients are killed and followed by others.
- `RunsOK` relates the executions to the request in a flowpath's buffer: what is still to be
  executed is in no buffer, and a second execution is the work of the flowpath that holds
  the request and lost its connection.
- `CalmOK`, where nobody is killed: the client whose request is with a switch is the one on
  the channel and waits, so that the reply finds it.
- `RunningOK`, flowmgr has not ended: no event finds a channel missing or its peer gone
  (`NotFatal`). `OnceOK`: while it runs, a flowpath whose connection is closed was never
  asked, so that each command is executed once.

For the refinement, `Stage` names the stage of `CommandService` in terms of one client's
replies, executions and state, `ProgressStage` shows that `Progress` is that, and
`ServiceNext` that each step moves one command by one stage or none: flowmgr's steps move
none, a flowctl's and the execution of a request move one.

Only model-checked: that values are printed as they were read and read back
(`PrintsWhatWasRead`, `ReadsBack`: printing is a recursive operator, which the prover cannot
use), and `CommandReadBack`, which says what the parser makes of a text and not only how far
it goes; the runs that end in a counterexample; and all liveness (`FlowctlEnds`,
`ControlChannelFreed`, `AllButLastBatchSent`), which the prover cannot do.

## Not modelled

- Allocation of port ids (`port.c`): it faults on its first use, which `Management` shows,
  and nothing else makes a port with it.
- Missing members of a command: flowctl always sends them. flowctl's argument checks, which
  decide no more than whether a command is sent, and the resolution of pipeline names, which
  asks the file system.
- Copying strings into the fixed-size argument fields of a request (`manage.c`, `proto.h`).
- Initialisation of the NADK framework and its threads, closing devices, dropping a packet,
  statistics, the single-packet variants that nothing calls, netmap and pcap devices: thin
  layers over libraries that are not here.
- The hash of strings in `hash.c`, and flow tables, which are allocated and never used.
- `flow.c`, `trie.c`, `types.c`, `device.cpp`, `traffic-gen`: stubs that nothing uses.
- `parse(std::string&)` (json.hpp:506-513), which nothing calls, and the position in the buffer
  of `Buffer_allocator`, for which only the number of nodes matters.
- `error.c`, `format.hpp`, `ip.hpp`, `capture.hpp`: wording, formatting and conversions.

## What remains

Tables with ids from 53 on, where `hash.c` is no map; the models exclude them.

Other clients of the control socket than flowctl: commands with missing members and several
commands in one message, as the composition of `JsonDocument` and `FlowMgr`. `CommandReadBack`
for every command, which needs the value that is parsed and not only its place, and names
and values without quotes and backslashes, as the parts of a command are not escaped.
