# Specifications and proofs for kmscua

kmscua lets an agent see and drive a Linux desktop.  Two back ends do the
work: `cuad`, a daemon that captures the KMS scanout and injects input through
uinput, and `xcua`, which drives an X server (often a private Xvfb it starts
itself).  The `cua` crate puts the MCP tools on top of either.  This directory
holds TLA+ models of the parts whose difficulty is control: threads, processes,
locks, files that survive a crash, clocks and retries.

## Inventory

| part | source | state it keeps | operations | what is hard |
| --- | --- | --- | --- | --- |
| cuad request thread | `crates/cuad/src/server.rs` (`Daemon`), `main.rs` | the uinput devices and the pointer's range, the layout file, the command channel | one connection at a time: sync_pointer, then the request | answers that come after 30 s, a range that must follow what another thread finds, a crash between applying and saving |
| cuad capture thread | `server.rs` (`CaptureWorker`), `capture.rs` | open heads, their topology hashes, the layout in force, the recorder, `last_info` | nine commands, a tick | hotplugs at any moment, a frame size fixed for a recording, re-enumeration that fails half way |
| cuad recorder | `crates/cuad/src/recorder.rs`, `jetson/` | encoder child, frame counters, next tick | start, push, stop | pacing, stalls, an encoder that dies, the 15 s of stop |
| cuad input | `crates/cuad/src/input.rs`, `keymap.rs` | keys and buttons that are down | move, button, click, drag, scroll, key, combo, type, hold | what is pressed is released on every path |
| layout geometry | `crates/cuad/src/capture.rs` (`plan_layout`, `grab`, `downscale_to`, ...) | where each display is in the desktop | place displays, cut, make smaller, move the cursor | each of four conversions rounds by itself; unmatched and mirrored monitors |
| protocol | `crates/proto/src/lib.rs` | none | frames, `Client::call` | a 20 s client before a serial server |
| Xvfb lifecycle | `crates/xcua/src/xvfb.rs` | a state directory (env, pid, users, lock files), the Xvfb and window manager processes | up, down, stop, reuse, release | several processes, deaths anywhere, pids that are reused |
| lock file | `xvfb.rs` (`lock_excl`) | one file holding a pid | acquire, break, release | two processes break the same lock |
| X back end | `crates/xcua/src/backend.rs`, `input.rs` | two connections, the `restarted` mark, held keys | calls, reconnect, shutdown | calls that race a reconnect |
| stills recorder | `crates/xcua/src/record.rs` | a directory of stills, `.active` lock | start, tick, stop, prune | flock and unlink, pruning what another opens |
| detached recorder | `crates/xcua/src/recd.rs` | `record.pid`, request and answer files | start, stop, mark, stamp | two processes and files only |
| MCP server | `crates/cua/src/mcp.rs`, `handedness.rs` | the view coordinates refer to, the focus, the mouse's handedness, the recording's timeline | tools, batches of them | calls at once, each with awaits between what it reads and what it does |
| xcua's verbs | `crates/xcua/src/cli.rs`, `view.rs` | `view.json`, the images, `input.lock` | screenshot, click, type, zoom, batch, ... | shells that run beside each other, a server that is replaced |

Components, hazards and the lines every definition stands for are listed in
`PROJECT.json`.

## How the parts interact

```
 MCP client -> cua mcp --socket, one request per connection--> cuad request thread
                                                                 | queue, reply channel, desktop_update
                                                               cuad capture thread -> displays, recorder -> encoder
 MCP client -> xcua mcp -+
 shell -> xcua up/down --+-- state directory (flock or lock.excl) -- Xvfb, its window manager
                         +-- X connections ---------------------------^
```

* Inside cuad two threads share nothing but a command queue, one reply channel
  per command and one slot.  The request thread owns the input devices, the
  capture thread the displays and the recorder.
* xcua's processes share only files: the notes about the Xvfb they use, under a
  lock of the state directory, and X servers, which they tell apart by a nonce
  left in a property of the root window.
* xcua's verbs are processes of their own too: what the screenshot of one means
  for the click of the next is in `view.json`, and `input.lock` keeps two from
  sending events at once.  A recording of theirs is a detached process, told of
  by `record.pid`, `record.json` and a timeline they append to.
* The MCP server runs tool calls as tasks; the back end below it serves one
  request at a time, cuad's for several clients at once.
* Recordings made by several xcua processes share a directory; the lock of a
  file in each recording's own is what keeps them apart.

## Modules

| module | models | extended by |
| --- | --- | --- |
| `Cuad` | the request thread and the capture thread of cuad, the disk, hotplugs, late answers, crashes | `MCCuad`, `CuadProofs` |
| `Recorder` | the capture thread's loop around one recording: pacing, start, stop, the encoder | `MCRecorder`, `CaptureProofs` |
| `LockExcl` | `State::lock_excl` and the lock's drop, one file system call a step | `MCLockExcl`, `XvfbProofs` |
| `Xvfb` | `up`, `up --restart`, `up --display`, `down`, `status` and the mcps of one state directory | `MCXvfb`, `XvfbProofs` |
| `Stills` | the directories of recordings: start, pruning, the lock of `.active`, stills, the end | `MCStills`, `RecdProofs` |
| `XBackend` | requests of an `xcua mcp` to its X server: the input lock, what is down, reconnects, shutdown | `MCXBackend`, `XBackendProofs` |
| `Input` | requests of several clients to cuad: the backlog, the events of each request, patience | `MCInput`, `InputProofs` |
| `HeldKeys` | what both back ends promise of keys and buttons; `Input` and `XBackend` implement it | |
| `Mcp` | tool calls of an MCP client over either back end | `MCMcp`, `McpProofs` |
| `Verbs` | one-shot commands of xcua in several shells | `MCVerbs`, `VerbsProofs` |
| `Recd` | `record start`, `stop` and `mark`, and the detached recorder | `MCRecd`, `RecdProofs` |
| `Geometry` | displays in the desktop, pictures of parts of it, and what coordinates mean | `MCGeometry`, `CaptureProofs` |

`MC` modules only give instances of the constants; the `.cfg` files add the
bounds.  Operators such as `TakeUsesUp` or `StayUser`, defined just before the
operator they resemble, are plausible bugs of it: each property is checked to
be violated when one replaces the correct operator (`PROJECT.json`, "mutants").
What a run checks is often a named conjunction of the parts that belong together
(`ToldInv` of `Recd` is `StopTells`, `DiedIsTrue` and `StartTells`); the parts
are stated and explained above it, and the text below speaks of them.  The
inductive invariants of the proofs begin with the type invariant, in one of
their parts where there are several.

Three proof modules are about two components each, which are next to each other
in the code: `CaptureProofs` about `Recorder` and `Geometry` (what cuad's capture
thread does besides answering requests), `XvfbProofs` about `Xvfb` and the
`LockExcl` it may run under, `RecdProofs` about `Recd` and `Stills`.  The names
of `Geometry`, `LockExcl` and `Stills` that a specification usually has are
therefore longer: `GeometrySpec`, `LockTypeOK`, `stillsVars`.

### Cuad

| state | in the code |
| --- | --- |
| `topo` | what is plugged in; the kernel's |
| `heads`, `seen`, `monitors` | `Capturer.heads`, their topology hashes, the layout in force |
| `rec` | `CaptureWorker.recorder`: the desktop its frame size comes from |
| `queue`, `reply` | `capture_tx`, the one-shot channel of the last `ask`; a command whose asker gave up is not `live` |
| `job`, `wpc`, `listed` | the command the capture thread handles, and what its hotplug check looked at |
| `slot`, `ptr` | `desktop_update`, the ABS range of the pointer device |
| `rq`, `rpc`, `file` | the request being served, where `serve` is, the saved layout |

`Accept` is `handle` up to its first `ask`, with the `sync_pointer` before it;
`Relay`, `LayoutApplied`, `LayoutNotFollowed`, `StatusDisplays`, `StatusFails`
and `StatusAnswer` are the rest of `handle` by kind of request; `TimeOut` is the
30 s of `ask`.  `Take` and `TakeChanged` are the capture thread's `recv` and its
question whether the displays changed, which is answered once; `ListDisplays` is
the listing that follows and `Enumerate`/`EnumerateFails` the contexts opened for
what it found (44 ms a display in the code).  A plug can fall between any two of
the three, so that a listing shows other displays than those that were noticed.
`Serve*`/`Refuse*` are the handlers,
`AutoStop` a recording that ends in a tick.  Displays, layouts and rects are
constants; `Fits`, `Desktop` and `PrimaryOf` stand for `plan_layout`, `union`
and the choice of the primary.

Four history variables make the exceptions in the properties precise: `drift`
and `blind` record why the pointer left the desktop, or the contexts the
topology, and are emptied when they meet again; `acked` is the layout a client
had confirmed last, with whether it was saved, which the client is not told;
`bounds` counts the failures.

### Recorder

Time is counted in units, `Period` of them to a frame.  `Pass` lets one unit
pass, at any point at all, so that a grab, a write, a command or the scheduler
may take any time; `age` (since the start) is capped where `over_time` turns
true and `due` (`next_tick` minus now) where `advance_tick` resynchronizes, so
that the model is finite without a bound on time.  `Tick` and `OverTime` are
the two outcomes of a due deadline, `Grab` and `Written` the two halves of a
frame with `Advance` (`advance_tick`) between them, `Close`, `Reaped` and
`Killed` the stages of `stop`.  `patience` is what is left of its 15 s.

### LockExcl

`Create` is the `O_EXCL` open, `Name` the write of pid and start time, `Exists`,
`Read`, `FindStale` and `Break` the way of one who finds the file, `Retry` and
`GiveUp` its deadline, `Release` the drop, which removes the file by name.
`Die` ends a process anywhere; a process that let go of the lock may end
because its command is done.

### Xvfb

| state | in the code |
| --- | --- |
| `on`, `mood`, `spare` | the X servers and whether they answer: `"stopped"` by a signal, `"full"` at the client limit |
| `lock` | who holds the state directory (`flock`, let go by the kernel when the holder dies) |
| `env`, `pid`, `nonce`, `owner`, `users` | the files of that name |
| `pc`, `op`, `dsp`, `child` | each process: the step it is at, its command, its display, the Xvfb it started |
| `session` | the server an mcp's connections lead to |

`FindLive`, `FindSilent`, `FindGone`, `Attached` and `NotAttached` are the
outcomes of `check` and `attached`; what a probe may say of a display is
`MayBeLive`, `MayBeSilent` and `MayBeGone`, with every slow answer allowed.
`ReuseByUp`, `ReuseByMcp` and `Adopt` are `reuse`; `StopYes`, `StopNotOurs` and
`StopStillAnswering` the outcomes of `stop`; `ClearEnv` and `ClearRest` are
`clear`; `Spawn`, `WriteEnv`, `WritePid`, `WriteNonce`, `WriteOwner` and
`AddUser` the end of `up_with`; `RemoveUser`, `NotMine` and `Last` are
`release`; `Open`, `OpenFails` and `Reup` the back end that uses the display
after the lock is dropped.  `Kill` and `WriteFails` may come before any of
them; servers end, stop and start on their own.  `haveProc` says whether there
is a /proc to look pids up in: it never changes, and `Moods` and `MaxFaults`
depend on it so that one run checks both systems, each with its own bounds.

### Stills

| state | in the code |
| --- | --- |
| `dir`, `active`, `stills`, `tmps` | the directories `<name>.frames`, the file `.active` in each, whose stills and whose half-written ones are there |
| `flock` | who holds the lock on a file; files have an identity, as a removed one can still be locked |
| `pc`, `name`, `fd` | each recorder: the step it is at, the recording it starts or makes, the `.active` it has open |
| `look`, `old` | the directories `prune` has yet to look at or to tidy, and those it will remove |

`Begin` to `Rmdir` are `prune`, with `LookPast`, `LookFree` and `LookTakes` the
outcomes of `is_active` (which takes the lock it asks about until `LookDrops`);
`Mkdir` to `First` the rest of `Recorder::start`, `Open` and `Lock` being
`hold_active`; `Write`, `Rename`, `Lost` and `Stop` the recording thread,
`Unlink` and `Close` the end of `finish`.  Which directories are the older ones
is open, since a directory's age says nothing about its recorder.  Two history
variables: `spared` has who was recording when a pruning began, `stray` whether
somebody locked a file that was no `.active` any more or lost its own.

### XBackend

| state | in the code |
| --- | --- |
| `live`, `down` | the X server on the display, and what each server has down or bound |
| `inp`, `cap`, `identity`, `restarted` | the two connections, `identity` and `restarted` of `XBackend` |
| `tracked` | `down_keys`, `down_buttons` and `borrowed` of `Input`, which go with it when it is replaced |
| `lock`, `op`, `todo`, `made`, `before` | the input lock and the request that has it: a chord, a press that stays, or a release |
| `pc`, `kind`, `new`, `same` | each request: where it is in `call` and `reconnect`, its `Kind`, its new connections, `same` |
| `main` | the main thread: serving, `shutdown`, the runtime's shutdown, the end |

`AnswerRestarted` and `Enter` are the look at `restarted` (requests are told one
by one, so who is answered keeps no state), `TakeInput` to `Panics` are `input`
with the request run in it, `FailsAlive` and `FindsDead` are `dead`,
`OpenCapture` to `SetIdentity` the statements of `reconnect`, `Reconnected` the
`match` behind it, `Cancel`, `Shutdown` and `Exit` the end of `mcp`.  A request's
keys, buttons and spare keycodes are a chord: down one by one, up in reverse,
and it may fail after any of them.  A read changes nothing unless it fails or
panics, so one that succeeds is no step, and the second try of one is as good
as a new one.  A `lock` that is waited for is a guard.  The servers are
those of `Xvfb`, where one mcp's `session` is what is here `inp` and `cap`.

History variables: `asked` is what requests asked to hold, `lost` what a cut
connection left on a server that lives, `told` and `known` the servers the client
had been told of by the time a request was let through, `crossed` whether
another request replaced the connection between the look at `restarted` and the
request, or was about to tell.

### Input and HeldKeys

| state | in the code |
| --- | --- |
| `queue` | the connections of the socket, the served one first; a client that left is not `live` |
| `phase`, `todo`, `failed`, `mine` | where `serve` is, the emissions left of the request, its first error, what it pressed |
| `down` | what is down on the two uinput devices |
| `pending` | the capture thread's new desktop, for which `sync_pointer` makes a new pointer |
| `age`, `answer` | each client's time in `call`, and what it was told last |

A request is a script, made by an operator named as the function: `Click`,
`Drag`, `Combo`, `WithModifiers`, `TypeText`, ... are sequences of `Press`,
`Release`, `DueRelease` (which the error path makes up for) and `Wait`.  `Ask` is
a question to the capture thread, which may wait for its answer, and so a
picture, each of the two questions of `Status`, and the first of a layout; `Sync`
is the second `sync_pointer` of `status`, which `Follows` carries out.  `Emit` and
`EmitFails` carry out the rest of a script, `Reply` answers, `ReadTimesOut` is the
10 s a silent client gets, `TimesOut` the client's patience, `Crash` and `Restart`
the service.  Time counts in units of 10 s; `Pass` lets one pass when nothing is
due.  The pauses between events are shorter and take none; of the clicks of one
request, whose count has no limit, one stands for those within 10 s.  `Slow` are
the requests with a wait in them.

`HeldKeys` is the promise: keys and buttons that clients hold, and requests that
hold one, let go of one, or use some and may let go of those.  `Input` maps
`held` to what was down when the running request began, so that the request
takes effect when it is answered, and leaves out `stuck`, keys whose release
itself failed.  `XBackend` maps it to `asked`, which follows what requests asked
for and not what is down; that both agree is `DownIsAsked`.

### Mcp

| state | in the code |
| --- | --- |
| `pc`, `todo` of each call | where its task is, the primitives left of its tool |
| `view`, `focus`, `hand`, `rec` | the fields of `CuaServer` of that name |
| `queue`, `reply` | requests that wait for the back end, and what it answered |
| `taping`, `held`, `swapped` | the back end's recording, the buttons down, the desktop's setting |
| `manifest`, `taken` | whose timeline each manifest has, the one a `record_stop` took |

A tool is a sequence of primitives (`Click == <<"click", "mark">>`), and
`Batch` one of the same, so that an await between any two is a step boundary.
`LookAtView` is `to_scanout`, `LookAgain` the second conversion of a drag or a
rect, `BelieveHand`, `AskHand` and `HandFound` are `left_handed`, `Send` to
`Answer` a request with its late answer (`GivesUp`), `Shown` and `LookSetsView`
what a screenshot does to the view.  `Flip`, `OtherStarts`, `OtherStops` and
`EndsByItself` are the world.  History: `crossed` and `muddled` say that calls
which take images overlapped, `apart` why the two sides of a recording differ.

### Verbs

A command takes `input.lock` (if it sends events), connects, loads the view,
and makes its requests: `Grab`, `WriteImage` and `SaveView` are a screenshot,
`Read` and `Act` what coordinates are used for, `Stamp` the line in the timeline
and `Answer` what the shell is told.  Any of it may fail or be killed.  `view`
is `view.json`: a picture and the screen it was taken of.  `Load` compares only
the size and the display's name, as `View::load` does, so that a restarted
server of the same size keeps the old view.  History: `saw` is the picture each
shell was told of, `crossed` that a view was saved since.

### Recd

`pid`, `json` and `timeline` are the three files, `spc`, `rpc` and `tpc` the steps
of each start, recorder and stop. `LooksClear` to `NotePid` are `start` under the
lock, `SeesRecording`, `SeesExit` and `GivesUp` its wait; `LooksFor*` and `Claims`
the begin of the recorder, `ReadTimeline`, `FinalJson` and `Exits` its end;
`StopLooks`, `Signals`, `SeesItGone`, `StopTimesOut`, `ReadFinal` and `ReadLast`
are `stop`. `MarkLooks` and `StampLooks` are the questions of a note, `StampLine`
and `StampEnds` its two writes, the line and the newline, `StampFails` an open or
a write that fails (the answer is the same), and `StampAdrift` the end of one
whose file a start has unlinked. `timeline` is the notes that have a line to
themselves, `tail` what is on the last line, which has no newline yet, and `Alone`
what `read_timeline` makes of a line: a note, or nothing if there is more than one
on it. The histories `failed` and `shared` are the notes that this happened to,
and `strayed` records that a live recorder's pid file was removed or overwritten,
which most of what is promised rests on.

### Geometry

| state | in the code |
| --- | --- |
| `heads`, `monitors` | `Capturer.heads` (name and mode), `Capturer.monitors` |
| `placed`, `primary` | `info.desktop` of each head, `Capturer.primary` |
| `shot` | the `ScreenshotInfo` of the last screenshot: its region, size and scale |

The operators are the functions: `Pair`, `Fits`, `PrimaryOf`, `Size` and `Place`
are `plan_layout`, `Intersect`, `Union` and `Native` what `grab` cuts out,
`Downscaled`, `Overruns` and `Scale` the two stages of `downscale_to` and the
scale that is told, `CursorX` is `to_desktop` and `ToScanout` the clients'
conversion.  What TLC checks them against are not copies of them but statements
in exact arithmetic: seams that stay closed, scanout pixels that cover, aims
that fall inside.  Down is as across, but for `ToScanout`.  A head
whose context does not open is one that is not there; f64 and f32 are taken as
exact, which differs where a result is whole or a half: there a piece may be cut
a pixel larger, and a pixel rounded the other way.

## Runs

| run | bounds | states | shows |
| --- | --- | --- | --- |
| `cuad` | 3 topologies, 2 layouts, 3 hotplugs, 2 of 1 failure, 1 late answer and 1 crash | 4,433,095 states | type, the inductive invariant, and that the pointer follows the desktop, status is coherent, answers are one's own, reads are fresh but for named misses, a recording keeps its frame size, a confirmed layout that was saved is on the disk |
| `cuad_answers` | 1 hotplug, 1 failure, 1 crash, no late answer; fairness | 63,406 states | no request waits for ever |
| `recorder` | 2 units a frame, 11 units a recording, 2 of patience; fairness | 470,236 states | never ahead of the clock, never too long, at most four frames at once, results kept, recordings end |
| `lock_excl` | 3 processes, 2 deaths or failed writes; fairness | 146,215 states | exclusive until a foreign file is removed; a dead holder's named lock goes |
| `xvfb` | 2 mcps, a shell, 2 displays, 2 Xvfbs, 1 foreign server; with /proc 1 kill or failed write; without it none, and Xvfbs at their client limit | 2,827,392 states | with /proc: one Xvfb, never forgotten, not orphaned; with or without: stopped by its last user only |
| `stills` | 2 recorders, 2 names, 4 files, `prune` keeping 0 or 1 of the idle directories | 391,565 states | one recorder in a directory, its stills only, pruning spares what is recorded |
| `xbackend` | 2 requests at once, 2 servers, 1 cut connection, a button and a spare keycode | 869,030 states | between requests what was asked to stay down is down, input goes to a server the client knows, an exit leaves nothing down; implements `HeldKeys` |
| `input` | 2 clients, 3 connections, 9 requests, 1 failed event, killed client or crash, 1 new desktop; fairness | 1,082,188 states | implements `HeldKeys`; requests without a wait of their own and holds are answered in time; nothing of a client is pending once it is told "ok"; the backlog drains |
| `recd` | 2 starts, and 2 of a recorder by hand, a stop, two notes and kills; symmetry and a view | 2.22 million states | one recorder, notes kept and not mixed, true answers |
| `mcp` | 2 calls at once in 4 kinds of session, 2 recordings, 1 failed or late answer, 1 changed setting | 1,622,084 states | coordinates are those of the image meant, the setting is noticed in time, a button comes up, timelines and manifests are the recording's |
| `verbs` | 2 shells, 3 commands, 2 servers of 3 screens, 1 kill or failed write | 2,157,641 states | inputs take turns, coordinates are those of the picture told of last and of a screen like this one, the image is the view's |
| `geometry` | 4 sets of displays of 4 sizes, 48 layouts, 7 regions, 3 sizes of pictures | 4,450 states | displays that touch go on touching, no gaps, pictures of the size asked for, aims inside across and half a pixel below at most down |

Why the bounds are enough to be interesting:

* `Cuad`: three hotplugs are one that is noticed, one between that and the
  listing, and one after it, or one that undoes the second, which is the least for
  contexts that are stale and look fresh. Of a failure, a late answer and a crash
  any two can meet them, in any order (the theorems are for any number), and the
  three topologies have one that fits no layout, one that fits one and one that
  fits both (so that layouts are dropped and primaries move), and one without a
  display. Nothing else is bounded: any number of requests.
* `Recorder`: with two units a frame a tick can be on time, a unit late, a whole
  frame late, and beyond the two frames of `advance_tick`; eleven units are not
  a whole number of frames.  Any number of commands and recordings.
* `LockExcl`: two holders and a dead process need three.
* `Xvfb`: a second Xvfb is a restart, a race of two starters or a display number
  used again; two mcps and a shell are the least for which the last user, another
  one and an owner differ.  The number of commands is not bounded, only that of
  Xvfbs.  Processes, displays and servers are symmetric, and the run checks no
  liveness.  Without /proc there are no faults and no stopped Xvfb; slow answers
  and an end of the Xvfb remain.
* `Stills`: two recorders under one name or two, one of them pruning; four files
  are as many as can be open or in a directory at once.  The number of recordings
  is not bounded.  `prune` is called with 1 or 2 in place of `KEEP`, 5, so that
  it has directories to remove and to keep.
* `XBackend`: two requests are one that reconnects and one that is let through or
  reconnects meanwhile; the two servers are the one that ended and the new one
  (three, tried once, have 6,498,826 states and no violation); a cut of one
  connection is the only way to leave something down on a server that lives.  A
  button and a bound keycode are enough for a hold, a chord that meets it, and
  what `release_all` must not forget.  The number of requests is not bounded;
  requests and servers are symmetric, and the run checks no liveness.
* `Input`: one request is served, one waits, and the third is a retry or
  another client's; the text has a capital and a character without a key, which
  is refused as a request that is bad from the start.  A layout asks the capture
  thread three times, 10 s each, and a click goes on for 10 s, which is too long for
  a client that has waited 10 s for its turn: both outlast their client, which may
  be back before they end.  A picture and a state are parts of
  what a layout does, and what only moves the pointer is as a drag is at its
  beginning: these are left to the theorems.
* `Recd`: two starts race, and the two extra steps can be two notes that meet on a
  line, a note and a kill, a stop and a note, or a stop and a recorder run by hand;
  more of them at once are left to the theorems.  No step depends on three of
  the histories or on what a manifest has; the view `Told` keeps of them what a
  property reads, which is little once a live recorder's pid file is gone.
* `Mcp`: what calls share falls into pictures, buttons and recordings, which
  touch disjoint fields; each session has the tools that touch one kind, over a
  back end each, and doctor among the buttons.  Two calls at once are all that
  one can meet; their number is not bounded.  The second recording is one
  that a call on the first may still meet (three, tried once, have
  3,314,499 states and no violation).  `TTL` is two units and `Slow` one,
  so that a question may outlive half of the time its answer is believed.
* `Verbs`: a screenshot, a command of the other shell and one that uses the
  view are three; the second server may be of another size, another display, or
  like the first.
* `Geometry`: 4:3 modes from 16x12 to 64x48, shown as 12x9 to 24x18, give
  sizes that round up, down and not at all; one monitor is off its mode's aspect
  by less than the 2 % that are accepted, one is rotated and one empty; names
  match, match by elimination, or do not.  Regions begin before the desktop, end
  beyond it, and are thinner than a square of the first stage; one of 56x39 is
  that whose last row is aimed below it.  Layouts follow
  each other and displays change under a layout in any order.

### Fairness

* `cuad_answers`: the capture thread goes on with a command it has, and the
  request thread with an answer it has; both are OS threads that block on
  nothing else in the model.  Answers come within the 30 s, or they would be
  trivially answered; no client, hotplug or end of a recording is assumed.
* `recorder`: time passes, the thread goes on, an encoder reads or exits, and a
  deadline that comes again and again is not preempted by a command each time
  (strong fairness of `Tick` and `OverTime`): commands are received first, but
  the request thread has only one out at a time and reads the next from a
  socket.
* `lock_excl`: each process runs until it dies.  A dead holder's lock goes only
  if somebody comes, and weak fairness of a process' steps includes its next
  command: xcua is called again and again.
* `input`: the daemon goes on while it has anything to do, time passes, and a
  client whose patience is over leaves: the daemon is one thread, whose reads and
  writes have timeouts of their own.
* `Xvfb`, `Stills`, `XBackend`, `Recd`, `Mcp` and `Verbs` are checked for safety
  only: `up` waits with a deadline for everything, `start` for nothing, and a
  request to an X server that does not answer may wait for ever.

## Proofs

All theorems hold for every value of the constants that meets the modules'
ASSUMEs, thus for any number of processes, displays, topologies and layouts,
every frame period and recording length.

| module | theorem | says |
| --- | --- | --- |
| `CuadProofs` | `TypeCorrect`, `Invariance` | `Spec => []TypeOK`, `Spec => []CuadInv` |
| | `PointerTracks`, `StatusAgrees`, `RecordingKeeps`, `AnswersAreOwn` | the properties of the `cuad` run of similar names |
| | `ConfirmedIsSaved`, `ReadsHold` | `AckedLayoutSaved`, `ReadsAreFresh` |
| `CaptureProofs`, of `Recorder` | `TypeCorrect`, `Invariance` | `Spec => []TypeOK`, `Spec => []RecorderInv` |
| | `VideoInTime`, `NoBurst`, `KeepsResult` | `VideoNotAhead`, `BurstBounded`, `ResultKept` |
| `CaptureProofs`, of `Geometry` | `Placed`, `Pieces`, `Told` | `PlacedInv`, `NoGap`, `ToldInv` |
| `XvfbProofs`, of `LockExcl` | `LockTypeCorrect`, `LockInvariance` | `LockSpec => []LockTypeOK`, `LockSpec => []LockInv` |
| | `ExclusiveFiles`, `ExclusiveWhileAllLive` | exclusion until a wrong removal, and while nobody ends |
| `XvfbProofs`, of `Xvfb` | `TypeCorrect`, `Invariance` | `Spec => []TypeOK`, `Spec => []XvfbInv` |
| | `LeavingIsSafe` | the action property `LastUserStops` |
| | `OneXvfbKnown`, `NoneOrphaned` | `OneKnownXvfb`, `NoOrphan`, if with /proc no Xvfb gets to its client limit |
| `RecdProofs`, of `Stills` | `StillsTypeCorrect`, `StillsInvariance` | `StillsSpec => []StillsTypeOK`, `StillsSpec => []StillsInv` |
| | `OneRecorderHolds`, `OwnStillsHold`, `PruneSparesAll` | `OneInEach`, `OwnStills`, `PruneSpares` |
| `VerbsProofs` | `Turns`, `CoordinatesHold` | `TurnInv` and with it `InTurn`; `ViewInv`, whose parts are `AimsAtSeen`, `AimsAtScreen`, `ImageIsView` and what they rest on |
| `XBackendProofs` | `Backend` | `BackendInv`, and with it `DownIsAsked` |
| | `InputGoesWhereKnown`, `ExitReleases` | `InputKnows`, `ExitClean` |
| | `HoldsKeys` | `XBackend` implements `HeldKeys`: the initial states and every step |
| `RecdProofs`, of `Recd` | `Recorders`, `OneRecorderRuns` | `RecdInv`, `OneRecorder` |
| | `NotesHold`, `TellsTrue` | `NotesInv`, `ToldInv`: what a manifest has, and what start and stop print |
| `InputProofs` | `Inputs`, `TypeCorrect`, `Told` | `InputInv`, and with it `TypeOK` and `ClientsTold` |
| | `HoldsKeys` | `Input` implements `HeldKeys`: the initial states and every step |
| `McpProofs` | `Server` | `McpInv`, the conjunction of the three below |
| | `Coordinates`, `Buttons`, `Timelines` | `ViewInv`, `HandInv`, `TapeInv` |

The arguments:

* **CuadInv.** That an answer is one's own is not inductive by itself; it needs
  `ChannelInv`: at most the command sent last is `live`, and it is in the queue
  or with the capture thread exactly while the request thread waits.  With it,
  an answer shows the desktop of the moment (`StatusInv`), as only a command can
  change it and none is on its way; while `status` waits for `Info` only `Info`s
  are, so that the desktop it showed stays.  `PointerTracksDesktop` then follows
  step by step: whatever changes the desktop puts the new one into the slot or,
  for a layout, into the answer.  `SavedInv`: while a SetLayout is served nothing
  is confirmed, and once `saved` the file is the one asked for, so the one place
  that writes the file cannot undo a confirmation.
  `FreshInv`: while `blind` is empty, a context that last saw another topology
  than its own saw one without an active display, or is the primary's between its
  answer and the end of the re-enumeration; what is in force when a command is
  carried out is then what was listed.  A listing that shows nothing active after
  the context saw something else is where this would break, and is a `blind` of
  its own.
* **RecorderInv.** `PaceInv` relates the frames written to the deadline:
  `frames * Period <= age + due` between frames; a frame adds one period on
  both sides, giving frames up only raises the right one, and time moves from
  `due` to `age`.  A grab starts at `due <= 0` only, hence `VideoNotAhead` and,
  as no grab starts over time, `LengthBounded`.  `BurstInv` counts the frames of
  one instant: the first leaves the deadline anywhere, the second, after a
  resynchronization at the latest, at most a period behind, and each further one
  moves it on by a period, so that the fifth has to wait.
* **LockInv.** Until somebody removes a file he had not found stale (`wrong`),
  the file is the one its creator made; who breaks a lock has read a dead name,
  so while nobody has died nobody breaks any.
* **XvfbInv.** The lock is held exactly by the one process within the locked
  part (`HolderInv`), so nobody else writes `users` or `owner`, and what the last
  user saw there (`LastInv`) still holds when it stops the Xvfb.  A user that is
  killed meanwhile only makes the set of live users smaller.
  `OneXvfb` and `NoOrphan` take more: what the five files say between any two of
  the writes that make them.  `FilesInv` has it for the pidfile (a live Xvfb that
  it names is on `env`'s display and `nonce` is its own or not there yet) and for
  each step of the process that holds the lock (whoever clears, spawns or looks
  at an attached display knows that no Xvfb runs; who has spawned one found
  `pid` and `nonce` gone and has the display of its child).  Then `check` of an
  Xvfb that runs never says that it is gone (`GoneIsGone`: with a /proc it is
  silent or it answers), which is where the client limit has to be excluded, and
  no second one is spawned.  `NotForgotten` is kept because only two steps write
  the pidfile, and of two processes one has the lock.  `OwnedInv` follows an
  unowned Xvfb to a user or to the process that will be one or stop it.
* **StillsInv.** Who is to hold a lock holds it, and the file open (`LockedInv`);
  until something strays, the file a recording locked is its directory's
  `.active` (`NamedInv`), so two recordings of one name would hold one lock.
  Nobody else then writes or clears its stills (`ClearedInv`, `OwnStills`).  A
  pruning that meets it finds its lock, so it is never on the list of one that
  began later (`SparedInv`).
* **TurnInv and ViewInv.** Who has yet to send events has the lock from its first
  step to its end (`LockInv`), and what is stamped is older than what is under
  way (`StampInv`), so the timeline has the order of the events.  Coordinates are
  a matter of three copies of a view: that on the disk, that a shell has loaded,
  and the picture it was told of (`SeenInv`); `ScreenInv` says of which screen
  each is as long as the server is the one of the connection, `ImageInv` what the
  image file may be in between the two writes of a screenshot.
* **BackendInv.** What is down on the server `inp` leads to is `tracked`, but for
  what was lost (`TrackInv`); what a request touches is what it was asked to
  (`RequestInv`), so whatever it fails at, the releases of its error path leave
  `asked`.  `ClientInv` is about reconnects: a server that a request takes for the
  one before is one the client knows of, and one that has come is told of before
  a request is let through, or `crossed` says which request overtook the other.
  The refinement maps a request to one step of `HeldKeys`, when it lets go of the
  lock; that all the steps before it stutter is `RequestInv`, and that the step
  changes only what it may follows from `Touched`.
* **RecdInv.** Who records is named by the pid file (`PidInv`), of the recorders
  that a start watches one at most is alive, that of the start with the lock or
  the pid file's (`WatchInv`), and a live one is struck from the file only by a
  kill, a hand-run recorder or a failed start (`CalmInv`).  `NotesInv` rests on
  `SawInv`, that what a note found running keeps the pid file as long as it lives,
  so the timeline the note goes to is not cleared; on `TailInv`, that the last
  line is open only while its note is between its two writes or after one that
  failed, so a note that is not `shared` gets a line of its own; and on
  `BeforeInv`, that what was answered before a start cleared the files is not
  written again.  `ToldInv` rests on who may still write record.json (`Writers`,
  `JsonInv`): while a stop looks on and no other recording begins, only the
  recorder it found (`TargetInv`).

* **InputInv.** What is down is what was `before` or what the request pressed
  (`mine`), but for `stuck`, and of `before` only that is up which the request
  frees (`DownInv`).  The refinement needs that nothing of `mine` is left when the
  request is answered, and this is a statement about what is left of its script:
  of every press the release follows at once or is one the error path makes up
  for (`ScriptInv`: `Closes`), so a step that fails leaves a rest that lets go of
  all.  Scripts are of any length (`type` writes one for every character), so that
  each function that makes one (`Click`, `Drag`, `Combo`, `WithModifiers`,
  `TypeText`, ...) has a lemma of what is closed in it.  A new pointer lets go of
  buttons only: whatever else a script lets go of the request frees (`PointerInv`),
  and the releases of the old pointer have its replacement right behind them
  (`Replacing`), be it at the start, in a layout or in the middle of a state.
  `QueueInv` (of a client's connections the last is live) and `TimeInv` (what a
  hold has waited so far and will wait yet; a request that is not `Slow` waits for
  nothing) give `ClientsTold`.
* **McpInv.** Each part stands on `InPlace` and `OneLive`: which primitive a call
  is at, and that the request it waits for is the only live one of its.
  `ViewInv`: while no two calls that take images are under way at once
  (`Crossed`), the view is the image of the one that took one (`ViewIsOwn`), else
  the one seen last (`ViewIsLast`), and what a conversion reads is that.
  `HandInv`: how old what is believed can be is a sum of the time since it was
  believed and the two questions that may lie within, followed through the lock
  of the handedness; a button that is down was pressed for the hand that was
  believed since.  `TapeInv`: which of the two, server or back end, knows first of
  a recording's begin and end depends on where the one call in `record_start` or
  `record_stop` is (`InStep`, `ToldOfTaping`, `Stopped`); `apart` and `mixed` are
  where they part for good.  The tools are a constant: assumed of them is that one
  that begins or ends recordings is a record tool of the code, and no other has a
  step that does.
* **Geometry.** The invariant is that the arrangement is the layout's or the
  default one (`Arranged`) and a picture its region made smaller (`Shrunk`); what
  the properties say of it is arithmetic, for any sizes.  `Rounded` is off by a
  half at most (`RoundedIs`), so three numbers rounded one by one, a position, a
  length and an end, differ by less than two from adding up (`Touches`), and the
  primary, which is not rounded, by what its aspect is off (`TouchesBelow`).  A
  piece's start is rounded down and its end up (`Piece`).  Of the two stages of
  making smaller, the first leaves a long side no shorter than asked for
  (`Squares`), the second makes it just that (`Rest2`); what the two roundings of
  the short side and the one of an aim add up to is `Stages` and `AimsDown`.

Two of these proofs changed what is checked:

* `AimsInside` had said that every row of a picture not taller than wide is aimed
  at something it shows.  A region of 56x39 shown in 16x12 has the scale 3.5, and
  11 of these rows are 38.5, which clients round to 39, the row below.  The bound
  is half a pixel of the picture and the last rounding, and the region is now in
  the run.
* In `Input` a press that failed took its key from `mine`, what the error path
  lets go of, even if the request had pressed it before, as a combo that names a
  key twice does.  In the code it is still to be let go of, and is now in `mine`
  until a release.

Model-checked only: the liveness properties (`RequestsAnswered`, `RecordingEnds`,
`NamedLockGoes`, `Drains`), which depend on fairness.  The prover has no ENABLED
and so no rule for WF and SF.  Induction over data it has in a form of its own:
the library's theorems take an operator, which no prover here instantiates, but
the well-foundedness of the finite subsets of a set (`WFMin`,
`FS_StrictSubsetOrderingWellFounded`) has none, and from it follow induction over
numbers for a set in place of a predicate (`SmallestOf` in `InputProofs`) and
that a finite set of numbers has a least (`LeastAt` in `CaptureProofs`).

## What the properties leave out

The models allow what the code does, and the properties except by name what does
not hold of it:

* **A stale desktop after SetLayout** (`drift` "race").  The handler of SetLayout
  checks for a hotplug first, which leaves the old layout's desktop in the slot,
  and the next `sync_pointer` applies it over the new one.
* **A hotplug that is never noticed** (`blind` "window").  A change between the
  listing of the displays and the priming of their contexts counts as known; and
  so does one that the primary's context saw, if the listing after it found other
  displays, none of them active, as the contexts are then kept.
* **A layout that is confirmed and not saved.**  A save that fails is only logged
  (server.rs:532-535), and the client gets the same state as its answer:
  `AckedLayoutSaved` speaks of the layouts that were `saved`.
* **xcua's Xvfb taken for the user's** (`leaked`).  A starter that dies between
  `env` and `xvfb.pid` leaves a display nobody will stop.
* **An mcp on an Xvfb it is no user of.**  The display is opened after the lock
  was dropped, and its number may be another Xvfb's by then; `LastUserStops`
  speaks of an mcp's own Xvfb.
* **A thin region ends the capture thread** (`ScreenshotPanics`).  The first stage
  of making a picture smaller averages squares; of a region thinner than a square
  (3840x8 at 320, a square of 12) the last one reads past the end, which panics.
  Every capture request is then answered with an error until cuad is started
  again; xcua catches the panic.
* **Down a narrow picture coordinates are off.**  The scale that is told is that of
  the widths.  A region of 200x2160 shown at 119x1280 has 1.681 across and 1.688
  down, so that the lowest pixels are off by 9; with squares averaged before,
  which cut off a remainder of the width, an aim can fall below the region.
  `AimsInside` says nothing of the height of pictures taller than wide, and of
  others only that an aim is at most half a picture pixel, and the last rounding,
  below the region (56x39 in 16x12: row 39), although proto lib.rs:280 says to
  multiply either coordinate.
* RecordStop of a recording that ended by itself answers "not recording"; its
  result stays in RecordStatus only (`ResultKept`).
* Reading the holder of lock.excl, judging it and removing the file are three
  steps.  If the holder lets go and ends after it was read, and another process
  takes the lock, the file removed is that one's, and two hold the lock, although
  xvfb.rs:16-17 says that concurrent `xcua up`s start one Xvfb between them:
  `ExclusiveTillWrong` ends there, and `ExclusiveAmongLive` says that it takes a
  death.
* A request that has passed the look at `restarted` takes whatever connection is
  there when it gets the input lock.  If another request reconnected to a new
  server in between, or has but has not set the mark yet, input meant for the
  old server is carried out on the new one, although backend.rs:20-22 says that
  nothing is sent.  `InputKnows` without `crossed` is violated by it.
* A button pressed by one request and clicked by the next is up afterwards
  (`asked` follows the code: what a chord lets go of is no longer held).
* A process that dies between creating lock.excl and naming itself leaves a
  file nobody breaks (`NamedLockGoes` is about a named one).
* An Xvfb at its client limit refuses probes and is taken for gone, so that a
  second one is started: `OneXvfb` and `NotForgotten` are checked and
  proved without the mood `"full"`.
* Without /proc one slow answer makes `down` forget the Xvfb it should stop, and
  a recorded display of the user's is forgotten after one slow answer.
* A frame the pacing gives up after a stall is neither written nor counted in
  `dropped`, so video time falls behind the wall clock for good
  (`VideoNotAhead` is one-sided), although recorder.rs:6-8 says they stay equal.
* Input: a text of some 830 characters, many clicks (the count has no limit),
  and a picture, a state or a layout that the capture thread is slow to answer (up
  to 30 s a question, and a layout has three) take longer than a client waits, and
  are carried out all the same: `InTime` is about holds, for which the client waits
  that much longer, and about requests that take less than 10 s.  A
  release that fails leaves its key down (`stuck`), and the failed releases of
  modifiers are not told.
* Recd: a note is written in two pieces, the line and its newline, so that two at
  once can come on one line, which `read_timeline` drops (recd.rs:116); and if
  the timeline does not open or a write fails this is only logged, and `mark`
  answers OK (recd.rs:295).  `NotesKept` is about the others (`shared`, `failed`).
* Recd: a `start` that fails removes `record.pid` by name, and the pid file of a
  recorder run by hand is overwritten by a start that looked before: two
  recorders.  `--foreground` clears neither `record.json` nor the timeline of the
  last recording.  `stop` may call a recorder dead that began after it looked; a
  mark is answered, and not written, if the recorder ends between its two looks; a
  start that is killed before it notes the pid leaves a recorder that finds
  itself alone.
* Mcp: an own recording that ends by itself keeps its `rec`: `record_stop` is an
  error on cuad and `rec` stays, marks are answered OK, and the next
  `record_start` overwrites it, so that no manifest of it is written.  If another
  client of cuad has started one meanwhile, `record_stop` stops that one and
  writes the old timeline into its manifest.  (`apart` and `mixed` are these.)  A
  drag and a zoom read the view twice, a drag from the cursor after an await;
  `doctor` asks for the handedness without the lock, so that what is believed
  can be two questions older than the 5 s.
* Verbs: input verbs take `input.lock` before they load the view, so that one that
  waited uses a newer view than there was when it was issued; a restarted server
  of the same size keeps the old view; two screenshots to one path at once may
  leave the image of one and the view of the other (`torn`).
* `.active` is removed by its name when a recording ends.  Who had opened it
  before and locks it after records beside the next one, which makes a new
  `.active`: `stray` is this case, and `OneInEach` and `OwnStills` end with it.
  A directory that `prune` found idle may also be recorded into by the time it is
  removed; and while `is_active` has the lock, a recording of that name that
  starts is refused though nobody records.

## Not modelled

* A capture thread that is gone (server.rs:447-451): `ask` then fails at once, and
  the request is answered with the error.  `Cuad` has no panic of that thread.
* Requests that begin after the main task has stopped serving and before the
  runtime's shutdown timeout (main.rs:647-650): `XBackend` lets none begin,
  and lets those that had begun go on.
* A screen of `Verbs` keeps its size as long as its server runs: a RandR resize
  between the load of the view and the request (view.rs:9-10) is not a step.
* Of the modelled parts: pixels and encodings, socket framing, `dropped` and the
  codec of a recording, the window manager and the sizes of an Xvfb, pids that
  are used again, `only_crtc`, contexts that do not open one by one, the pacing
  and the budgets of a stills recording, the manifests and timelines that go with
  its directory, file systems without `flock`, `wait-window`, `maximize` and
  `focused` of xcua, `get_focused` and `find_elements` of the MCP server,
  positions in `Input`, f32 in `Geometry`.
* Components without control of interest (keymaps, pixel conversion, command
  lines, contact sheets, bindings, packaging) are in `PROJECT.json` with the
  reason.

## Order of the work

The most concurrent parts came first: `Cuad`, `Recorder`, `LockExcl`, `Xvfb`,
`Stills`, `XBackend`; then `Recd`, `Mcp`, `Input` with `HeldKeys`, `Verbs` and
`Geometry`.  No further part has control of its own that is worth a module.
Every safety property that a run checks is a theorem too.  What would come next:

1. `Input` and `Cuad` in one specification: the pointer's range that `Cuad` keeps
   and the events that `Input` sends are two views of the same requests.
2. The liveness properties by hand, from lemmas about single steps, as a prover
   for fairness is out of reach.
3. `Geometry` with the rounding of f32 in place of exact numbers.
