# A verification project for FaSS (one-fass)

FaSS is a daemon beside OpenNebula. It reorders the pending virtual machines by
fair share for OpenNebula's scheduler, and it removes (or suspends, powers off,
reboots) dynamic VMs that have waited or lived for too long. This directory
models the daemon in TLA+, checks it with TLC and proves its safety properties
with TLAPS. Paths and lines are those of the repository (`PriorityManager.cc` is
`src/pm/PriorityManager.cc`, and so on).

## The system

One process, no state on disk except a lock file and logs. Threads: the main
thread, one for each of the two managers, the server thread, and one for each
connection of a client.

| Component | State | Operations | Talks to |
|---|---|---|---|
| `Manager` (Manager.h) | mutex, condition variable, `stop_manager`, timer | timed wait, `finalize` | its own thread and the main thread |
| `Terminator` | the pool `vmpool`, users with their ttl, `max_wait`, `action` | `tm_loop` with `kill_running` per user; `kill_pending` | OpenNebula; the Priority Manager's thread calls `kill_pending`; the database |
| `PriorityManager` | its own pool, user list, static map `priorities`, string `queue` | `pm_loop`: `kill_pending`, `get_pending`, `historical_usage`, `do_prioritize`, `make_queue` | OpenNebula, Terminator, `AcctPool`, `BasicPlugin`; the RPC server reads `queue` |
| `VMPool`, `VMObject` | map from id to VM object | `flush`, `set_up`, selections by XPath, `make_queue` | OpenNebula |
| `AcctPool`, `BasicPlugin` | accounting entries per user, usage totals | usage per period, priority of a VM | OpenNebula |
| `XMLRPCClient` | a singleton with endpoint and timeout | `call`, `call_async` | OpenNebula |
| `RPCManager`, requests | socket, Abyss server and its thread, a response per request | serves the queue and the version, forwards the rest to OpenNebula | scheduler, PriorityManager, OpenNebula |
| `Fass` | pointers to all of these | `start`: start in order, wait for SIGTERM, stop in order | all |
| `fassd` | lock file | options, lock, fork, chdir, setsid, start, unlink | `Fass` |
| configurators | options, shares | read, defaults, errors | files |
| `InfluxDb` | the endpoint; the points are with the server | ping, create, write | HTTP, one connection per call |
| `ObjectXML` and the two pools | documents, copies of nodes, objects | parse, search, free | libxml2 |
| logger | file and level | format, write | files |

Correctness, per component: a stop is never missed and always ends the daemon
(Manager, Fass); the shared pool is used by one thread at a time and every lock
is given back (Terminator); only overdue dynamic VMs are touched, and all of
them in the end (Terminator); every pending VM is offered to the scheduler and
no gone one stays (PriorityManager, VMPool); a failed call is survived
(XMLRPCClient); usage is what the cloud's history says, and the queue follows it
(AcctPool, BasicPlugin); what a write reported is stored (InfluxDb); the client
is told what OpenNebula said, and a queue that was published (requests); one
daemon at a time, and a failed start does not block the next one (fassd);
nothing is freed twice or forgotten (ObjectXML).

The hard behaviours are the interleaving of two threads over one pool whose
refresh deletes objects, early returns in the middle of a critical section, four
possible outcomes of every call, decisions on a snapshot of a cloud that moves
on, the order of start and stop, and timers. `PROJECT.json` lists each under
`hazards` with its line.

## Modules

Five models, each with its properties, its instances for TLC and its proofs in
modules of their own. They meet at three places: `Fass` starts where a process of
`Startup` is at "managers", and `RPCServer` shares with `PriorityManager` the
string `queue`, which is all that passes between their threads (`begin_assign`
and `end_assign` are `make_queue` as the server threads see it). `FairShare` and
`XMLPools` are what one thread does inside a pass of `PriorityManager`: its numbers
and its memory.

| Module | Models | Correspondence |
|---|---|---|
| `XMLRPCClient` | what a call can come to | `ok`, `refused` (oned says false), `fault` (result left unset, no exception), `error` (exception; a change may or may not have happened) |
| **The daemon** | | |
| `OpenNebula` | the cloud, external | `vm[v]` is the state FaSS can select by; `late` and `expired` are the VMs whose age exceeds `max_wait`, whose lifetime exceeds the ttl. Time is the two actions that add a VM to these sets, so no clock is needed |
| `VMPool` | `set_up` and the selections | a pool is the set of keys of its map |
| `Manager` | waiting and `finalize` | `pc` labels are the places between which another thread can act; the mutex is held in `check` and `wait`. The call of `pthread_cond_timedwait` is two places, before and inside, since a signal is lost on the first |
| `Terminator` | `kill_pending` and `kill_running` | `todo[t]` is the part of the thread's copy of the map that its loop has still to visit, in order of id; the decision about a VM is made at its visit, from a selection made earlier |
| `PriorityManager` | the pass after `kill_pending` | `priorities` is the map as (priority, id) pairs with `insert` keeping the older entry; `queue` is what was last published. The plugin's values are chosen from `PrioMaps`: what they are is the subject of `FairShare` |
| `Fass` | the main thread and the whole daemon | one action per statement that another thread can notice |
| `Reaper` | abstract: what may be done to VMs | no threads, pools or polls |
| `FassProperties`, `FassInvariants`, `FassProofs`, `MCFass` | properties, the inductive invariant `IInv`, proofs, instances | |
| **The server** | | |
| `Request` | the handlers, one thread per connection | `copied[c]` is what the copy of the queue that `c` is making may come to: the text, the one that replaces it, and, if the copy overlaps the assignment, what `Races` names: a mixture of both (`"torn"`) or a crash. `said` and `window` are history: what oned said, and what has been on display since the request |
| `RPCServer` | `setup_socket_new`, the server thread, which may throw, connections up to `max_conn`, `finalize`, the end of the process | a failing system call is a disjunct of its action |
| `QueueFeed` | abstract: a safe register with one writer, which shows a mixture while it is written | |
| `RPCProperties`, `RPCProofs`, `MCRPC` | properties, proofs, instances | |
| **The start** | | |
| `Startup` | `fassd` and the first half of `Fass::start`, for several processes on one machine | `lock` is the file with its creator; every call or input that may be bad is a name in `Faults`; a process may hang (on a silent database, or while it stops: what `leak` shows of `Fass`), be killed and be launched again |
| `StartupProperties`, `StartupProofs`, `MCStartup` | | |
| **Fair share** | | |
| `InfluxDb` | one HTTP request at a time | the server (external) keeps one point per series and instant. A request that was executed may still be answered by nothing |
| `FairShare` | `AcctPool`, `BasicPlugin`, the map of the priorities, the writes of a pass and the initial shares | time in seconds, CPU in quarters of a core. A VM is the exponent of its id, a power of two: then priorities (2^-x / id) compare like x + exponent, in integers. The narrowing to float is `float`: `Cuts` are the exponents at which the next smaller float begins, and all priorities between two cuts are one key. The four sums of CPU and of memory are two arrays side by side, which run into each other when `n_periods` is above 3 (`strayed`) |
| `FairShareProperties`, `FairShareProofs`, `MCFairShare` | properties, proofs about one entry and the database, instances | |
| `AccountingProofs`, `QueueProofs` | proofs about the sums and about the order | |
| `FoldLemmas` | lemmas about sums, folds and sorting | for the two above; it mentions no part of the daemon |
| **Memory** | | |
| `XMLPools` | `ObjectXML`, `VMPool` and `AcctPool` as owners of memory | a block is a document with its context, a copy of a node, or an object; `new` and libxml2 give out the lowest free one, so that a stale pointer soon meets its successor |
| `XMLPoolsProperties`, `XMLPoolsProofs`, `MCXMLPools` | | |

Operators whose comment starts with MUTANT are plausible mistakes in the
operator below them. `PROJECT.json` pairs each with a property that would be
violated by it. They are used by no specification.

Steps taken as one: a poll and the filling of the pool in `Terminator` (nobody
else can look at the pool between them if the mutex is held; `XMLPools` takes
them apart); `finalize` of a manager, whose statements are under the mutex; the
end of a timed wait by ETIMEDOUT and the unlock after it; the call that is
forwarded and the choice of the response. A VM whose start time is 0
when the pool is loaded is left out of `todo`, since its visit changes nothing.
The cloud stops moving when the process ends.

## Runs

Constants of `Fass`: `VMs` and who owns them, `Static`, `Resched` (VMs that may be
flagged for rescheduling), `UserList` (users with a ttl), `Action`, `PollReplies` and
`KillReplies` (outcomes of reading and of acting calls), `PrioMaps`,
`PromptStart` (the Terminator exists before the first timer of the Priority
Manager expires), `MayStop` (a SIGTERM may arrive), `SecondJoin` (what joining
the server thread twice may do). Of the server: `Clients`, `Queues`, `Answers`
(outcomes of forwarded calls), `Races` (what else an overlapping copy may come
to; the run has all there is), `HasPasswd`, `MaxConn`, `PromptServer`. Of the start: `Instances`, `Options`,
`Faults`, `Kills`, `CarefulAdmin` (nobody deletes the lock file of a running
process). Of fair share: `Shares`, the VMs with owner, CPU and memory, `Start` and
`End` (of time), `Period`, `NPeriods`, `PluginDebug`, `Junk` (what an undefined
priority may be), `Cuts` and `Res` (where floats begin, and in which unit), `PollFails`,
`DbFails`, `Restarts`. Of the pools: `Blocks`,
`Items`, `Owner`, `Valid` (the items that are complete), `Uids`.

| Run | Instance | Shows |
|---|---|---|
| `faults` | one VM, two users, all outcomes, impatient timer, crashes, SIGTERM | `PoolExclusion`, `NoDanglingVM`, `NoLostWakeup`, `NoStalePriority`, `CleanExit`, `ImplementsReaper` survive every failure. The daemon may really hang here (run `leak`), so deadlock is not checked |
| `steady` | two VMs, one static, `action=suspend`, polls succeed | `NoDanglingVM` with several objects per copy, `NoLeakedLock`, and that a VM is switched off and not removed for its ttl, the static one never (`ImplementsReaper`) |
| `serves` | one VM, calls to remove it may be lost, SIGTERM at any moment | `PendingQueued`, `GoneUnqueued`, `OverdueReaped`, `StopCompletes` |
| `feed` | two clients, one connection at a time, two queues, all outcomes, torn copies and crashes, all failures of the start, SIGTERM even before the server is built | `ImplementsQueueFeed`: the client gets a queue that was published since its request, or a torn one if an assignment overlapped the request. `EchoesOned`: what oned said reaches the client. `ResourcesReleased` after each failure and stop. `Answered`: every client is served |
| `startup` | three processes, all faults, hangs at the start and at the stop, kills at any place | `OneDaemon`, `LockGivenBack`, and `LockNotOrphaned`: only a kill, a crash, a failed fork or a hang keeps the file |
| `fair_queue` | shares 1 and 2, two VMs, three seconds, several passes in a second | `StoredExact`: usage in the database against a count of seconds in the cloud's history. `QueueFair`: the order against the documented rule. `NobodyLeftOut`: only a priority that rounds to the same float drops a VM |
| `fair_samples` | a database that is down, breaks off or was never created, failed polls, restarts, a VM of an unknown user, `n_periods`=4 | `ReportedStored`, `PassEnds` |
| `xml_owned` | three items of two users in both pools, all answers, failures and exceptions, end and next start | `Owned`, `NothingLost` |
| `leak` | a poll may be refused | violates `StopCompletes` |
| `deployed` | no failures at all | violates `DeployedSpared` |
| `refusal` | one client, oned refuses | violates `RefusalTold` |
| `fair_total` | two users | violates `TotalIsSum` |

Each model has a run that checks its type invariant.

Why the bounds are enough. *The daemon:* one VM already takes part in every race
between the two loops, the main thread and the cloud, because each thread has its
own copy; two VMs add a copy that is partly visited while the pool changes and a
VM that must be spared. A VM id is used once, so a run ends when all VMs are gone,
and the loops go on from there. The run with two VMs leaves out SIGTERM, because
stopping touches no VM; VMs of unknown users are in the second user of `faults`
and in the theorems. *The server:* two clients with one connection make one wait
for the other, and a client asks again and again; copies that overlap one
assignment need one client at a time, and overlaps of several are covered by the
theorem. Two texts are the old and the new one. *The start:* three processes: one
that holds the lock, one that has died and is launched again, one that looks at
it meanwhile. *Fair share:* `End` and `Samples` bound time and the seconds with a
pass, `Records` the records of a VM. Three seconds with periods of one second let a
record start and stop before, inside and after each window. The CPU counts and `Cuts`
are chosen so that two VMs have equal priorities, different ones that round to one
float, different floats, and one beyond the last cut (a float that is 0). In
`fair_samples` the sums may run into each other, and no property of the run tells
whether they did. The lower end of the window (`time_start`) cuts no record of these
runs; `SecondsExact` and `UsageExact` cover it. The passes stop at
the bound in `fair_queue`, so deadlock is not checked there. *Memory:* eleven
blocks are more than can be in use at once.

Fairness. *`Fass`:* every thread takes a step if it can again and again. This is
strong fairness because the threads contend for a mutex; each
sleeps for its timer between two passes, so the other one gets it. A timer that
is armed again and again expires: the deadline is absolute and set before the
wait, so spurious wake-ups cannot postpone it. A call to act on a VM that is
repeated for ever succeeds in the end; without this `OverdueReaped` is false for
reasons outside of FaSS. The liveness runs take every poll to succeed: with a
single failed one `StopCompletes` is false (run `leak`). *`RPCServer`:* threads run on (weak
fairness), waiting connections are accepted in a fair order (strong: the limit
blocks them again and again), and a forwarded call ends because `finishAsync` has a
timeout; the server thread need not throw. *`Startup`:* a process runs on unless it hangs, and
OpenNebula answers in the end. *`FairShare`:*
a step of a pass ends, by an answer or by a broken connection: `query_db` has no
timeout, so a server that neither answers nor breaks off is excluded. Nothing is
assumed of users, clients, OpenNebula's scheduler, SIGTERM, or whoever launches and
kills processes.

## Proofs

For all values of the constants that meet the named assumptions of each module.

`FassProofs`: ids are naturals, `UserList` is a sequence of
naturals, the replies are among those of `XMLRPCClient`, priorities are naturals.

- `TypeCorrect`: `TypeOK`, thread by thread.
- `Inductive`: `IInv`. None of the safety properties is inductive. Exclusion
  needs `LockHeld` (who is inside holds the mutex); a copy of the pool
  is safe because of exclusion and because nothing is left to visit outside of
  the loops (`Visiting`); both need that a manager does not move before it is
  started (`NotStarted`). `NoLostWakeup` needs `Stopped`, which also excludes
  the place just before the wait, and that place holds the mutex `finalize` needs.
  The refinement needs `UserTaken` (the VMs to visit belong to a user with a ttl) and
  `AgesExist`.
- `PoolExclusive`, `NeverDangling`, `WakeupDelivered`, `PrioritiesCurrent`,
  `ExitsClean` follow from `IInv`.
- `LockNeverLeaks`: `NoLeakedLock` under the assumption that no poll makes
  `set_up` return -1. The run `leak` shows that the assumption is needed.
- `Refinement`: `Spec => ImplementsReaper`, step by step; all steps but the two
  visits stutter or are steps of the cloud.

`RPCProofs`, for any number of clients and connections.

- `TypeCorrect`; `SocketGivenBack`: `ResourcesReleased`, from what is held at each
  place of the start (`Held`).
- `FeedRefinement`: `Spec => ImplementsQueueFeed`. The invariant (`Followed`,
  `Routed`) says that what a copy may come to has been published since its request, or
  is torn and then an assignment has overlapped the request. It assumes nothing of
  the race at PriorityManager.h:70: C++ promises nothing about it, and both a mixture
  and a crash are outcomes.
- `AnswersEchoed`: `EchoesOned`. A forwarded call is followed from its answer
  over `log_result` to the reply (`Echoed`); a failure never gets that far,
  because `log_result` throws on it.

`StartupProofs`, for any number of processes and any faults, if nobody deletes
the lock file of a running daemon (`CarefulAdmin`).

- `TypeCorrect`; `Alone`: `OneDaemon`, since whoever is past the check created the
  file that exists (`Locked`); `GivenBack`: `LockGivenBack`, an action property from the
  same invariant.

`FairShareProofs`.

- `SecondsExact`: the seconds that an entry adds to a period are the number of
  seconds it ran in it, for any entry, also a running one or one that ends before it
  starts. `SecondsDecrease`: a shorter window never counts more, so the differences
  that `half_life` weighs are not negative.
- `Stored`: `ReportedStored`. A point that is replaced is replaced by one of the same
  series and instant, and an answer of success on its way stands for a point that is
  stored.

`FoldLemmas`. `eval_usage` sums over records, `calculate_initial_shares` over sections, and
the map is filled by a fold over ids: recursions over data, whose induction theorems in
the library no installed prover can instantiate, because they take an operator as a
parameter. Here a predicate is the set of the things it holds of, and an
induction is the argument that a minimal counterexample has a smaller one
(`Minimal`, `SetInduction`, `NatSetInduction`); the order in which a fold over a set
picks is the library's CHOOSE, so that a sum of natural numbers is first shown not
to depend on it (`SumAnyOrder`, `SumInsert`). `Sortable`: a finite set of numbers can be
listed in order.

`AccountingProofs`, for any history, users, weights and length of the periods. The
number of periods is at most 3: beyond it the arrays overrun, and what is stored is
neither exact nor zero.

- The invariant `Accounted` has three parts. `HistoryOK`: records of one VM do not
  overlap, and an open one belongs to a running VM; without it a second would be
  counted twice. `PassOK`: what a pass carries from the poll to the sums, the
  writes and the queue belongs to its own timestamp, although the cloud
  changes meanwhile. `Ledger`: the points in the database.
- A sum over records is a count of seconds (`SumExact`, from `SecondsExact` by induction
  over the records: `OneMore`), and what was counted up to an instant never changes
  (`PastStable`), since the cloud writes its history at the present only.
- `UsageExact`: `StoredExact`, if no poll fails and `n_periods` is at most 3.
  `WholeOrNothing`: with failed polls a sample is exact or all zeroes; it is never a
  part of the truth.

`QueueProofs`.

- `TypeCorrect`: `TypeOK`, by the invariant `Typed`, for all constants.
- `TotalIsFirst`: `evaluate_total_usage` returns the usage of the first section,
  whatever the sections are. This is the cause of what run `fair_total` shows, for
  every instance.
- `OrderFair`: `QueueFair`. It assumes `Served`: no poll fails, the plugin is the real one
  (`plugin_debug`), `n_periods` is 3, which is what it reads and what there is room for, and
  every VM has a section; each excludes priorities that are made of wrong or undefined
  sums. The instance of `fair_queue` meets it. Shares may be 0, and floats may lie
  anywhere. The argument: `update_prio` scales by the product
  of the shares, which each share divides (`CommonDivides`), so that in integers it
  compares like usage per share plus id (`Rank`, `RankMonotone`); a float is never earlier
  for a later exponent (`FloatMonotone`); the map has one entry for each float
  (`InsertAll`); `make_queue` lists it in order (`Queued`); and the sums are
  those of the timestamp (`UsedIs`, from `Accounted`).
- `LeftOutForTie`: `NobodyLeftOut`, with `Served` and shares above 0. A VM is dropped for
  one with an equal key; equal keys have the same cuts before them (`FloatCuts`), and
  on which side of a cut a VM is follows from the usage in the history (`RankTie`). Share 0
  is excluded because a key that is no number is equivalent to every other.

`XMLPoolsProofs`, for any items, owners and users and any number of blocks.

- `TypeCorrect`; `OwnedOnce`: `Owned` is inductive with the types alone. Three lemmas
  carry it: what is freed had no other owner, what is allocated had none, and the list
  of a user changes hands as a whole.
- `NeverLost`: `NothingLost`, if no uid has two sections and all accounting entries
  are complete. It needs that the key to insert is always free (`KeysFree`), because
  `map::insert` drops what it does not take.

Only model-checked: all liveness and everything under fairness (`PendingQueued`,
`GoneUnqueued`, `OverdueReaped`, `StopCompletes`, `Answered`, `LockNotOrphaned`,
`PassEnds`), which is out of the prover's reach. Every invariant, and every action
property that states no fairness, of a passing run is also a theorem.

## Disagreements found

Shown by a run:

- `leak`: `kill_running` and `kill_pending` return with the mutex locked when a poll
  fails (Terminator.cc:244, 305), and the daemon can no longer be stopped.
- `deployed`: a VM that is deployed between the poll and its visit is removed as
  pending (Terminator.cc:324).
- `refusal`: a call that OpenNebula refuses is answered with success
  (RequestOneProxy.cc:117 against :100).
- `fair_total`: the total usage is that of the first user
  (BasicPlugin.cc:50 against :112 and PriorityManager.cc:363).

Seen while modelling. The first ones are behaviours of the models, which no
property forbids; of the others the note says how far they are modelled:

- A VM flagged for rescheduling counts as pending and is removed for waiting too long
  although it runs (VMPool.h:62 against PriorityManager.cc:185).
- A fault leaves the result of a call unset, and the conversion throws where nobody
  catches: the daemon ends (XMLRPCClient.cc:77 against VMPool.h:57-59).
- The Priority Manager runs before the Terminator exists and may call it through a
  null pointer (Fass.cc:268 against Fass.h:95).
- When OpenNebula cannot be reached the proxy reads `values[1]` of an empty vector
  (RequestOneProxy.cc:138 against :134).
- `log_result` throws on every failure, so that the client gets a fault instead of the
  error (Request.cc:206 against Request.h:145).
- `finalize` terminates the server through a pointer that is unset if SIGTERM comes early
  (RPCManager.h:68 against Fass.cc:369).
- The queue is handed out as a reference and copied beside its assignment: a client
  may be given a text that was never published, or the daemon may crash
  (PriorityManager.h:69-70).
- `~Fass` runs beside handlers that are not joined (Fass.h:166), and beside the threads
  of the managers after a failed start (Fass.cc:355).
- A lock file survives a failed fork or a kill (fassd.cc:147 against :131), and a process
  that hangs keeps it: on a database that does not answer (`query_db` has no timeout),
  or at the stop, on the mutex of `leak`. `-i` runs a whole daemon without one
  (fassd.cc:118 against :54).
- A user without a property in shares.conf is reported to a logger that does not exist
  yet (SharesConfigurator.cc:80 against Fass.cc:72).
- With `n_periods` above 3 the sums are written past their end (AcctPool.cc:45 against
  FassConfigurator.cc:85 and AcctPool.cc:25): the pass crashes, or wrong sums are
  stored without a word.
- A failed poll is used like an empty answer: usage 0 is stored and the queue is
  emptied (PriorityManager.cc:292, :192).
- Of two VMs whose priorities round to one float one is dropped, also when they differ
  (PriorityManager.cc:391 against BasicPlugin.cc:132). Run `fair_queue` has both cases.
- A user's list of entries is lost if his uid is listed twice or an entry is incomplete
  (AcctPool.cc:138, :130 against AcctPool.h:75). `NeverLost` excludes both by assumption.
- Share 0 gives a priority that is no number, and the order of the map breaks
  (BasicPlugin.cc:131 against using-fass.md). The model has it (`NaN`) but the instances
  keep shares positive; `OrderFair` holds with share 0 as well.
- An empty `log_call_format` is read past its end (Request.cc:63). Not modelled.

## Not modelled

- The CPU and memory samples that `kill_running` sums up for the database
  (Terminator.cc:123-170): write-only numbers of no effect on the loops.
- The logger beyond its creation, the expansion of log formats, and all text: of
  XML, of the queue's VMs, of responses.
- Extraction by XPath, conversions of malformed numbers, the gid and the tags of points.
- The rounding of priorities is that of the last step, from double to float, for ids that
  are powers of two. The roundings inside the double before it are left out, as are
  other ids, among them those above 2^24 with `plugin_debug=0`. The instances have a few
  floats; real ones have 2^23 cuts from one power of two to the next, fewer where floats
  are denormal, and the last one at an exponent of about 189.9 (10^12 * 2^-189.9 is half
  of the smallest float). The theorems hold for any finite set of rational cuts; a real
  cut is as good as a rational one that no exponent of the instance separates from it.
- VM id 0, and times after 2038 (`time_start` is an int).
- `setup_socket`, which nobody calls, and `write_queue`, which does nothing.
- Destructors beyond what frees or closes, build, packaging and the service files.

What is left to do: the samples of a pass of the Terminator; ids other than powers of
two and the rounding of doubles in `FairShare`.
