---------------------------- MODULE BrowserLaunch ----------------------------
(***************************************************************************)
(* How a server that is up launches browsers (Session.create in            *)
(* sessions/session.py), several at once, for several profiles: the addon  *)
(* it downloads into a cache that every launch trusts and unpacks for      *)
(* itself (sessions/addons.py), the driver, and the process streams it     *)
(* swaps for a sink while Camoufox prints (sessions/quiet.py).             *)
(*                                                                         *)
(* One addon is configured.  Its archive is two blocks; a file is the set  *)
(* of the blocks that were written since it was last truncated, and is     *)
(* named by the launch whose open created it.  A download runs in a thread *)
(* that no cancellation reaches, and so does what Camoufox prints.         *)
(***************************************************************************)
EXTENDS BrowserUpdate, FiniteSets

CONSTANTS
    Launch,    \* each made once
    Home,      \* the server of each
    NoFile,
    Launching, \* bound: the configurations of the servers that launch
    HangsUp    \* bound: may a host hang up in the middle of an archive?

ASSUME LaunchConstants ==
    /\ Home \in [Launch -> Server] /\ NoFile \notin Launch
    /\ IsFiniteSet(Launch) /\ HangsUp \in BOOLEAN

VARIABLES
    launch,  \* of each launch: where it is, its temporary directory, how far its
             \* download is and in which file, whether its thread prints
    file,    \* the blocks of each file
    cached,  \* the file in the cache
    part,    \* the file at its ".part" name
    marred,  \* have two downloads overlapped, or was one hung up on?
    stdio    \* of each server: quiet_stdio's depth and what it saved, and where the
             \* streams lead

launchVars == <<launch, file, cached, part, marred, stdio>>
cache == <<file, cached, part, marred>>
vars == <<updateVars, launchVars>>

Block == 1..2
\* While a download's thread runs.
Downloading == {"open", "write", "unlink"}
New == [pc |-> "new", tmp |-> FALSE, file |-> NoFile, blocks |-> 0, cut |-> FALSE,
        prints |-> FALSE]

LaunchInit ==
    /\ launch = [l \in Launch |-> New]
    /\ file = [l \in Launch |-> {}] /\ cached = NoFile /\ part = NoFile /\ marred = FALSE
    /\ stdio = [s \in Server |-> [depth |-> 0, saved |-> "none", out |-> "real"]]

At(l, pc) == launch[l].pc = pc
Sets(l, r) == launch' = [launch EXCEPT ![l] = r]
Goes(l, pc) == Sets(l, [launch[l] EXCEPT !.pc = pc])
\* The thread ends; a call that was cancelled meanwhile does not go on.
Continues(l, pc) == Goes(l, IF launch[l].cut THEN "over" ELSE pc)

-----------------------------------------------------------------------------
\* prepare_addons.

Prepare(l) ==
    /\ At(l, "new") /\ Phase(Home[l], "up") /\ config[Home[l]] \in Launching
    /\ Sets(l, [New EXCEPT !.tmp = TRUE, !.pc = IF cached = NoFile THEN "open" ELSE "extract"])
    /\ UNCHANGED <<cache, stdio>>

\* Fault: the archive is downloaded under its own name.
Open_Directly(l) ==
    LET f == IF cached = NoFile THEN l ELSE cached IN
    /\ At(l, "open")
    /\ file' = [file EXCEPT ![f] = {}] /\ cached' = f /\ part' = f
    /\ Sets(l, [launch[l] EXCEPT !.pc = "write", !.file = f])
    /\ marred' = (marred \/ \E m \in Launch \ {l} : launch[m].pc \in Downloading)
    /\ UNCHANGED stdio

\* The host answers: the ".part" file is created, or truncated under its writer.
Open(l) ==
    LET f == IF part = NoFile THEN l ELSE part IN
    /\ At(l, "open")
    /\ file' = [file EXCEPT ![f] = {}] /\ part' = f
    /\ Sets(l, [launch[l] EXCEPT !.pc = "write", !.file = f])
    /\ marred' = (marred \/ \E m \in Launch \ {l} : launch[m].pc \in Downloading)
    /\ UNCHANGED <<cached, stdio>>

Write(l) ==
    LET n == launch[l].blocks + 1 IN
    /\ At(l, "write") /\ n \in Block
    /\ file' = [file EXCEPT ![launch[l].file] = @ \cup {n}]
    /\ Sets(l, [launch[l] EXCEPT !.blocks = n])
    /\ UNCHANGED <<cached, part, marred, stdio>>

\* replace, of whatever has the ".part" name now; an error if nothing has.  That a
\* host hangs up reads as the end of the archive.
Rename(l) ==
    /\ At(l, "write") /\ (launch[l].blocks = 2 \/ HangsUp)
    /\ marred' = (marred \/ launch[l].blocks # 2)
    /\ cached' = IF part = NoFile THEN cached ELSE part
    /\ part' = NoFile
    /\ Sets(l, [launch[l] EXCEPT !.pc = "unlink", !.blocks = IF part = NoFile THEN 0 ELSE 2])
    /\ UNCHANGED <<file, stdio>>

\* The host, the disk or the deadline fails it.
DownloadFails(l) ==
    /\ launch[l].pc \in {"open", "write"}
    /\ Sets(l, [launch[l] EXCEPT !.pc = "unlink", !.blocks = 0])
    /\ UNCHANGED <<cache, stdio>>

\* finally: the ".part" name is removed, and a failure is a warning.
Unlink(l) ==
    /\ At(l, "unlink")
    /\ part' = NoFile
    /\ Continues(l, IF launch[l].blocks = 2 THEN "extract" ELSE "prepared")
    /\ UNCHANGED <<file, cached, marred, stdio>>

\* Unpacked if it can be, else left out with a warning.
Extract(l) ==
    /\ At(l, "extract")
    /\ Continues(l, "prepared")
    /\ UNCHANGED <<cache, stdio>>

-----------------------------------------------------------------------------
\* quiet_stdio.

\* Fault: plain nesting, each entry saves the streams it finds.
Quiet_Nests(s) ==
    stdio' = [stdio EXCEPT ![s] = [depth |-> @.depth + 1, saved |-> @.out, out |-> "sink"]]

Quiet(s) ==
    LET r == stdio[s] IN
    stdio' = [stdio EXCEPT ![s] =
        [depth |-> r.depth + 1, saved |-> IF r.depth = 0 THEN r.out ELSE r.saved, out |-> "sink"]]

Loud(s) ==
    LET r == stdio[s] IN
    stdio' = [stdio EXCEPT ![s] =
        IF r.depth = 1 THEN [depth |-> 0, saved |-> "none", out |-> r.saved]
                       ELSE [r EXCEPT !.depth = r.depth - 1]]

-----------------------------------------------------------------------------
\* Session.create.

Over(l, tmp) ==
    Sets(l, [New EXCEPT !.pc = "over", !.tmp = tmp, !.cut = launch[l].cut,
                        !.prints = launch[l].prints])

\* The options make sense (build_launch_kwargs), and the driver is started.
DriverStarts(l) ==
    /\ At(l, "prepared")
    /\ Goes(l, "driver")
    /\ UNCHANGED <<cache, stdio>>

NewBrowser(l) ==
    /\ At(l, "driver")
    /\ Sets(l, [launch[l] EXCEPT !.pc = "launching", !.prints = TRUE]) /\ Quiet(Home[l])
    /\ UNCHANGED cache

\* The thread that prints ends, whether or not its launch still awaits it.
Printed(l) ==
    /\ launch[l].prints
    /\ Sets(l, [launch[l] EXCEPT !.prints = FALSE])
    /\ UNCHANGED <<cache, stdio>>

BrowserRuns(l) ==
    /\ At(l, "launching") /\ ~launch[l].prints
    /\ Goes(l, "opening") /\ Loud(Home[l])
    /\ UNCHANGED cache

\* An error, or a cancellation, which does not reach the thread that prints: the
\* driver is stopped, what is unpacked removed.
LaunchFails(l) ==
    /\ launch[l].pc \in {"prepared", "driver", "launching"}
    /\ Over(l, FALSE)
    /\ IF At(l, "launching") THEN Loud(Home[l]) ELSE UNCHANGED stdio
    /\ UNCHANGED cache

PageOpens(l) ==
    /\ At(l, "opening") /\ Goes(l, "session")
    /\ UNCHANGED <<cache, stdio>>

\* Session.close, of a session or of one whose first page failed to open.
Closes(l) ==
    /\ launch[l].pc \in {"opening", "session"}
    /\ Over(l, FALSE)
    /\ UNCHANGED <<cache, stdio>>

\* Before the first try and within the second nothing catches a cancellation.
Cancelled(l) ==
    /\ ~launch[l].cut
    /\ \/ launch[l].pc \in Downloading \cup {"extract"} /\ Sets(l, [launch[l] EXCEPT !.cut = TRUE])
       \/ At(l, "opening") /\ Sets(l, [launch[l] EXCEPT !.pc = "over", !.cut = TRUE])
    /\ UNCHANGED <<cache, stdio>>

LaunchStep(l) ==
    \/ Prepare(l) \/ Open(l) \/ Write(l) \/ Rename(l) \/ DownloadFails(l) \/ Unlink(l) \/ Extract(l)
    \/ DriverStarts(l) \/ NewBrowser(l) \/ Printed(l) \/ BrowserRuns(l) \/ LaunchFails(l)
    \/ PageOpens(l) \/ Closes(l) \/ Cancelled(l)

Init == UpdateInit /\ LaunchInit
Next ==
    \/ \E s \in Server : (ServerStep(s) \/ ChildStep(s)) /\ UNCHANGED launchVars
    \/ \E l \in Launch : LaunchStep(l) /\ UNCHANGED updateVars
Spec == Init /\ [][Next]_vars /\ UpdateFairness

-----------------------------------------------------------------------------
\* What Camoufox prints is silenced for as long as its launch is awaited, and no
\* server is left silent when none is, however launches overlap and end
\* (quiet.py:36).  Aloud prints only the thread of a launch that was cancelled.
SilencedWhileAwaited ==
    \A s \in Server :
        /\ \A l \in Launch : Home[l] = s /\ launch[l].prints /\ stdio[s].out = "real" => At(l, "over")
        /\ stdio[s].out = "sink" => \E l \in Launch : Home[l] = s /\ At(l, "launching")

\* An archive in the cache is whole as long as no two downloads of it overlapped and
\* no host hung up in its middle: one that is interrupted otherwise, by an error, a
\* timeout or a cancellation, leaves nothing (addons.py:28).
WholeUnlessMarred == cached # NoFile /\ ~marred => file[cached] = Block

\* What addons.py:30 says of the cache: no download that is over can leave "a
\* truncated archive that every later run would find in the cache and trust".
CacheIsWhole ==
    cached # NoFile /\ (\A l \in Launch : launch[l].pc \notin Downloading) => file[cached] = Block
=============================================================================
