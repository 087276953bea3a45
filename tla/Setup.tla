------------------------------- MODULE Setup --------------------------------
(***************************************************************************)
(* From a bare computer to mining: the setup wizard and the commands around *)
(* it (crates/cli/src/setup/, node.rs, config.rs, platform.rs and the first *)
(* half of commands/start.rs). The node software is downloaded by a child   *)
(* process, checked, unpacked and linked; the node is started or restarted; *)
(* an address is asked for and saved; the chain is waited for. The program  *)
(* may be killed between any two steps and run again: files, the node and a *)
(* download outlive it.                                                     *)
(*                                                                         *)
(* Not regtest, which needs neither an address nor a synced chain.         *)
(***************************************************************************)
EXTENDS Integers, Sequences

CONSTANTS Full,     \* pieces of the official archive
          Infos,    \* external: what getblockchaininfo says as the chain is fetched, in order
          Snapshot, \* external: the snapshot's height
          Loaded,   \* external: the place in Infos a loaded snapshot leads to
          MaxRuns   \* bound: times the program is run

ASSUME ArchiveAssumption == Full \in Nat \ {0} /\ MaxRuns \in Nat
ASSUME InfoAssumption ==
  /\ Infos \in Seq([blocks : Nat, headers : Nat, ibd : BOOLEAN])
  /\ Snapshot \in Nat /\ Loaded \in 1..Len(Infos)

VARIABLES
  run,    \* the running program: its place, its command, its settings
  file,   \* config.toml: whether a save was cut short, rpc_port, address
  knots,  \* ~/.bip110-miner/knots: the archive, <version>.unpacking, <version>, current
  curl,   \* downloads under way: the program's own, and one a killed run left
  node,   \* external: the node process, and its place in Infos
  other,  \* external: another program listens on the node's usual port
  runs    \* bound counter of runs

vars == <<run, file, knots, curl, node, other, runs>>

None == 0

-----------------------------------------------------------------------------
(* What the program reads of the world.                                    *)

Info     == Infos[node.stage]
Official == [i \in 1..Full |-> i]

\* is_running: a node that is still loading refuses every call.
Answers == node.st = "up" /\ node.port = run.port

\* port_in_use: our own node listens from the moment it starts.
PortInUse(port) ==
  \/ other /\ port = 1
  \/ node.st \in {"loading", "up"} /\ node.port = port

\* free_port_from: the first of the next twenty. At most two are ever in use here.
FreePort ==
  CHOOSE port \in run.port+1..run.port+20 :
    ~PortInUse(port) /\ \A lower \in run.port+1..port-1 : PortInUse(lower)

\* installed_version: an old release, the current one, or none that runs.
Installed ==
  CASE run.env /\ ~run.updated -> "old"
    [] knots.current = "old" -> "old"
    [] knots.current = "new" /\ knots.target = "official" -> "new"
    [] OTHER -> "none"

\* A mutant of CaughtUp: three blocks behind is caught up.
CaughtUpLoosely(info) == ~info.ibd /\ info.headers > 0 /\ info.headers <= info.blocks + 3

CaughtUp(info) == ~info.ibd /\ info.headers > 0 /\ info.headers <= info.blocks + 2

\* readiness::check, on the network asked for.
Check(info, peers, age) ==
  CASE info.ibd -> "initial download"
    [] info.headers - info.blocks > 2 -> "behind headers"
    [] peers = 0 -> "no peers"
    [] age > 3 -> "stale tip"
    [] OTHER -> "ok"

-----------------------------------------------------------------------------
(* Places. A step of the program goes on, or ends it: with an error, or     *)
(* because the user quit.                                                   *)

At(place) == run.at = place
Go(place) == run' = [run EXCEPT !.at = place]

Unsaved == [torn |-> FALSE, port |-> None, addr |-> "none"]
Idle    == [at |-> "off", command |-> "none", env |-> FALSE, updated |-> FALSE, ensuring |-> FALSE,
            port |-> 1, addr |-> "none", copy |-> Unsaved]
End     == run' = Idle

\* File::load and Settings::resolve: every command needs a file that parses.
Port(saved) == IF saved = None THEN 1 ELSE saved

\* main: start, start without a terminal, or setup; BIP110_KNOTS may name an
\* old release of the node.
Start(command, env) ==
  /\ At("off") /\ ~file.torn /\ runs < MaxRuns /\ runs' = runs + 1
  /\ run' = [at |-> CASE command = "start" -> "look"
                      [] command = "setup" -> "disk"
                      [] command = "plain" -> "listen",
             command |-> command, env |-> env, updated |-> FALSE, ensuring |-> FALSE,
             port |-> Port(file.port), addr |-> file.addr, copy |-> Unsaved]
  /\ UNCHANGED <<file, knots, curl, node, other>>

\* The program is killed, or drawing fails: what it started goes on without it.
Killed ==
  /\ ~At("off") /\ End
  /\ \/ curl.own = None /\ UNCHANGED curl
     \/ curl.own # None /\ curl.orphan = None /\ curl' = [own |-> None, orphan |-> curl.own]
  /\ UNCHANGED <<file, knots, node, other, runs>>

\* bip110-miner stop.
StopCommand ==
  /\ At("off") /\ ~file.torn /\ node.st = "up" /\ node.port = Port(file.port)
  /\ node' = [node EXCEPT !.st = "closing"]
  /\ UNCHANGED <<run, file, knots, curl, other, runs>>

-----------------------------------------------------------------------------
(* This computer, and the node's software.                                 *)

\* already_ready: nothing to ask, so the wizard does not show.
LookAround ==
  /\ At("look")
  /\ Go(IF Installed = "new" /\ Answers /\ ~node.old /\ run.addr # "none" /\ CaughtUp(Info)
        THEN "listen" ELSE "disk")
  /\ UNCHANGED <<file, knots, curl, node, other, runs>>

\* Too little room is asked about; the rest of the step only shows.
CheckDisk ==
  /\ At("disk") /\ (Go("software") \/ End)
  /\ UNCHANGED <<file, knots, curl, node, other, runs>>

CheckSoftware ==
  /\ At("software")
  /\ IF Installed = "new" THEN Go("node") ELSE Go("fetch") \/ End
  /\ UNCHANGED <<file, knots, curl, node, other, runs>>

\* fetch: a file of the right length is not fetched again; a longer one makes
\* the resuming curl fail.
Fetch ==
  /\ At("fetch")
  /\ LET have == Len(knots.archive)
     IN  \/ have = Full /\ Go("check") /\ UNCHANGED curl
         \/ have > Full /\ End /\ UNCHANGED curl
         \/ have < Full /\ Go("download") /\ curl' = [curl EXCEPT !.own = have + 1]
  /\ UNCHANGED <<file, knots, node, other, runs>>

\* External: a curl appends the next piece it was promised, the official one or
\* what a mirror has in its place, or it gives up.
CurlWrites(who) ==
  /\ curl[who] \in 1..Full
  /\ \E piece \in {curl[who], None} :
       knots' = [knots EXCEPT !.archive = Append(@, piece)]
  /\ curl' = [curl EXCEPT ![who] = @ + 1]
  /\ UNCHANGED <<run, file, node, other, runs>>

OrphanEnds ==
  /\ curl.orphan # None /\ curl' = [curl EXCEPT !.orphan = None]
  /\ UNCHANGED <<run, file, knots, node, other, runs>>

\* The transfer is over, well or badly, or q stops it: no child is left behind.
Downloaded ==
  /\ At("download") /\ curl' = [curl EXCEPT !.own = None]
  /\ \/ curl.own > Full /\ Len(knots.archive) = Full /\ Go("check")
     \/ End
  /\ UNCHANGED <<file, knots, node, other, runs>>

\* A mutant of CheckArchive: the right length is enough.
CheckLength ==
  /\ At("check") /\ Go("unpack")
  /\ UNCHANGED <<file, knots, curl, node, other, runs>>

\* A download that is not the release is deleted; whoever still writes to it
\* writes to a file without a name.
CheckArchive ==
  /\ At("check")
  /\ IF knots.archive = Official THEN Go("unpack") /\ UNCHANGED <<knots, curl>>
     ELSE /\ End /\ knots' = [knots EXCEPT !.archive = <<>>]
          /\ curl' = [curl EXCEPT !.orphan = None]
  /\ UNCHANGED <<file, node, other, runs>>

\* unpack: what an earlier run left beside the final place goes first.
BeginUnpack ==
  /\ At("unpack") /\ Go("unpacking") /\ knots' = [knots EXCEPT !.scratch = "part"]
  /\ UNCHANGED <<file, curl, node, other, runs>>

EndUnpack ==
  /\ At("unpacking")
  /\ \/ /\ Go("replace")
        /\ knots' = [knots EXCEPT !.scratch = IF SubSeq(knots.archive, 1, Full) = Official
                                              THEN "official" ELSE "altered"]
     \/ End /\ UNCHANGED knots
  /\ UNCHANGED <<file, curl, node, other, runs>>

RemoveTarget ==
  /\ At("replace") /\ Go("move") /\ knots' = [knots EXCEPT !.target = "none"]
  /\ UNCHANGED <<file, curl, node, other, runs>>

MoveIntoPlace ==
  /\ At("move") /\ Go("link") /\ knots' = [knots EXCEPT !.target = knots.scratch, !.scratch = "none"]
  /\ UNCHANGED <<file, curl, node, other, runs>>

\* The link is replaced in one rename, and what it names asked for its version.
Link ==
  /\ At("link") /\ knots' = [knots EXCEPT !.current = "new"]
  /\ run' = [run EXCEPT !.at = "node", !.updated = TRUE]
  /\ UNCHANGED <<file, curl, node, other, runs>>

-----------------------------------------------------------------------------
(* The node.                                                               *)

\* File::save truncates the file and writes it: cut short, it is empty, or stops
\* in the middle of a line.
CutShort == [torn : BOOLEAN, port : {None}, addr : {"none"}]

\* start_node: a port that answers nothing of ours is left to whoever has it.
LeavePort ==
  /\ At("node") /\ ~Answers /\ PortInUse(run.port)
  /\ run' = [run EXCEPT !.at = "save port", !.port = FreePort, !.copy = [file EXCEPT !.port = FreePort]]
  /\ file' \in CutShort
  /\ UNCHANGED <<knots, curl, node, other, runs>>

\* The new port is saved before the user is told, who may quit then.
SavePort ==
  /\ At("save port")
  /\ file' = run.copy
  /\ run' = [run EXCEPT !.at = "spawn", !.copy = Unsaved] \/ End
  /\ UNCHANGED <<knots, curl, node, other, runs>>

\* A mutant of StopOldNode: it is waited for without being asked.
StopOldNodeUnasked ==
  /\ At("node") /\ Answers /\ node.old /\ Go("restart")
  /\ UNCHANGED <<file, knots, curl, node, other, runs>>

StopOldNode ==
  /\ At("node") /\ Answers /\ node.old /\ Go("restart")
  /\ node' = [node EXCEPT !.st = "closing"]
  /\ UNCHANGED <<file, knots, curl, other, runs>>

UseNode ==
  /\ At("node")
  /\ \/ Answers /\ ~node.old /\ Go("address")
     \/ ~Answers /\ ~PortInUse(run.port) /\ Go("spawn")
  /\ UNCHANGED <<file, knots, curl, node, other, runs>>

Restart ==
  /\ At("restart") /\ ~Answers /\ Go("spawn")
  /\ UNCHANGED <<file, knots, curl, node, other, runs>>

\* node::start: the daemon refuses a data directory in use, or a port.
Spawn ==
  /\ At("spawn")
  /\ IF Installed = "new" /\ node.st = "down" /\ ~PortInUse(run.port)
     THEN /\ node' = [node EXCEPT !.st = "loading", !.old = FALSE, !.port = run.port]
          /\ Go("starting")
     ELSE End /\ UNCHANGED node
  /\ UNCHANGED <<file, knots, curl, other, runs>>

\* Until it answers, or for ten minutes.
AwaitNode ==
  /\ At("starting")
  /\ \/ Answers /\ Go(IF run.ensuring THEN "version" ELSE "address")
     \/ ~Answers /\ End
  /\ UNCHANGED <<file, knots, curl, node, other, runs>>

\* External: a node loads, and shuts down after it was asked, or by itself.
NodeLoads  == node.st = "loading" /\ node' = [node EXCEPT !.st = "up"] /\ UNCHANGED <<run, file, knots, curl, other, runs>>
NodeCloses == node.st = "closing" /\ node' = [node EXCEPT !.st = "down"] /\ UNCHANGED <<run, file, knots, curl, other, runs>>
NodeDies   == node.st = "up" /\ node' = [node EXCEPT !.st = "down"] /\ UNCHANGED <<run, file, knots, curl, other, runs>>

\* External: the chain is fetched.
NodeSyncs ==
  /\ node.st = "up" /\ node.stage < Len(Infos) /\ node' = [node EXCEPT !.stage = @ + 1]
  /\ UNCHANGED <<run, file, knots, curl, other, runs>>

-----------------------------------------------------------------------------
(* The address and the chain.                                              *)

\* A saved address the node calls valid is kept, unless `setup` came to change
\* it.
CheckAddress ==
  /\ At("address")
  /\ IF Answers /\ run.addr = "valid" /\ run.command # "setup" THEN Go("sync") ELSE Go("ask")
  /\ UNCHANGED <<file, knots, curl, node, other, runs>>

\* One is pasted or made; only a node that answers can check or make one. Going
\* back to this choice, or typing again what is not valid, changes nothing and is
\* left out.
AskAddress ==
  /\ At("ask") /\ (Go("paste") \/ Go("wallet") \/ End)
  /\ UNCHANGED <<file, knots, curl, node, other, runs>>

\* Given: the file is read again, and cut short by the save that begins.
Given ==
  /\ file' \in CutShort
  /\ run' = [run EXCEPT !.at = "save address", !.copy = file]

PasteAddress ==
  /\ At("paste")
  /\ \/ Answers /\ Given
     \/ End /\ UNCHANGED file
  /\ UNCHANGED <<knots, curl, node, other, runs>>

\* The wallet is made, asked for an address and backed up; a user who quits at
\* the notice has the wallet, and its address is not saved.
MakeWallet ==
  /\ At("wallet")
  /\ \/ Answers /\ Given
     \/ End /\ UNCHANGED file
  /\ UNCHANGED <<knots, curl, node, other, runs>>

SaveAddress ==
  /\ At("save address")
  /\ file' = [run.copy EXCEPT !.addr = "valid"]
  /\ run' = [run EXCEPT !.at = "sync", !.addr = "valid", !.copy = Unsaved]
  /\ UNCHANGED <<knots, curl, node, other, runs>>

Ready == IF run.command = "setup" THEN End ELSE Go("listen")

\* wait: the snapshot is offered early, once, and where there is room.
WaitForChain ==
  /\ At("sync")
  /\ \/ ~Answers /\ End
     \/ Answers /\ CaughtUp(Info) /\ Ready
     \/ Answers /\ ~CaughtUp(Info) /\ Go("follow")
     \/ Answers /\ ~CaughtUp(Info) /\ Info.blocks < Snapshot /\ ~node.snapshot /\ Go("quick start")
  /\ UNCHANGED <<file, knots, curl, node, other, runs>>

\* quick_start: the file is fetched as the archive is; the node must know the
\* snapshot's block, and loads or refuses the file, whether or not it is
\* waited for.
QuickStart ==
  /\ At("quick start")
  /\ \/ End /\ UNCHANGED node
     \/ /\ Answers /\ Info.headers >= Snapshot /\ (Go("follow") \/ End)
        /\ node' = [node EXCEPT !.snapshot = TRUE, !.stage = IF @ < Loaded THEN Loaded ELSE @]
     \/ /\ Answers /\ Info.headers >= Snapshot /\ Go("follow") /\ UNCHANGED node
  /\ UNCHANGED <<file, knots, curl, other, runs>>

Follow ==
  /\ At("follow")
  /\ \/ ~Answers /\ End
     \/ Answers /\ CaughtUp(Info) /\ Ready
  /\ UNCHANGED <<file, knots, curl, node, other, runs>>

-----------------------------------------------------------------------------
(* start::run after the wizard, or without one.                            *)

\* The mining port moves along if it is taken; an address is a must.
Listen ==
  /\ At("listen")
  /\ IF run.addr = "none" THEN End ELSE Go("ensure") \/ End
  /\ UNCHANGED <<file, knots, curl, node, other, runs>>

\* ensure_node: started if it does not answer.
EnsureNode ==
  /\ At("ensure")
  /\ run' = [run EXCEPT !.at = IF Answers THEN "version" ELSE "spawn", !.ensuring = TRUE]
  /\ UNCHANGED <<file, knots, curl, node, other, runs>>

\* A mutant of RefuseOldNode: what is installed is asked instead of what runs.
RefuseOldInstall ==
  /\ At("version") /\ (IF Installed = "old" THEN End ELSE Go("mining"))
  /\ UNCHANGED <<file, knots, curl, node, other, runs>>

\* A version nobody answers for is let pass.
RefuseOldNode ==
  /\ At("version") /\ (IF Answers /\ node.old THEN End ELSE Go("mining"))
  /\ UNCHANGED <<file, knots, curl, node, other, runs>>

StopMining ==
  /\ At("mining") /\ End
  /\ UNCHANGED <<file, knots, curl, node, other, runs>>

-----------------------------------------------------------------------------

\* Nothing installed or an old release; a node running, perhaps an old one, or
\* none; an address that was saved unchecked, a valid one, or none.
Init ==
  /\ run = Idle
  /\ file \in [torn : {FALSE}, port : {None}, addr : {"none", "unchecked", "valid"}]
  /\ knots \in [archive : {<<>>}, scratch : {"none"}, target : {"none"}, current : {"none", "old"}]
  /\ curl = [own |-> None, orphan |-> None]
  /\ node \in {[st |-> st, old |-> old, port |-> 1, stage |-> 1, snapshot |-> FALSE] :
               st \in {"down", "up"}, old \in BOOLEAN}
  /\ other \in BOOLEAN /\ (other => node.st = "down")
  /\ runs = 0

Program ==
  \/ LookAround \/ CheckDisk \/ CheckSoftware \/ Fetch \/ Downloaded \/ CheckArchive
  \/ BeginUnpack \/ EndUnpack \/ RemoveTarget \/ MoveIntoPlace \/ Link
  \/ LeavePort \/ SavePort \/ StopOldNode \/ UseNode \/ Restart \/ Spawn \/ AwaitNode
  \/ CheckAddress \/ AskAddress \/ PasteAddress \/ MakeWallet \/ SaveAddress
  \/ WaitForChain \/ QuickStart \/ Follow
  \/ Listen \/ EnsureNode \/ RefuseOldNode

Next ==
  \/ \E command \in {"start", "plain", "setup"}, env \in BOOLEAN : Start(command, env)
  \/ Program \/ Killed \/ StopCommand \/ StopMining
  \/ \E who \in {"own", "orphan"} : CurlWrites(who)
  \/ OrphanEnds \/ NodeLoads \/ NodeCloses \/ NodeDies \/ NodeSyncs

Spec == Init /\ [][Next]_vars

\* The program's steps are taken, the user among them: a question is answered.
\* A download ends, a node that was asked to shut down does, one that answers
\* gets on with the chain.
FairSpec ==
  Spec /\ WF_vars(Program) /\ WF_vars(NodeCloses) /\ WF_vars(NodeSyncs)

-----------------------------------------------------------------------------
(* Properties.                                                             *)

\* install.rs: "a half-finished unpack never looks like an install", and the
\* download is accepted only as the file that was signed: wherever the program
\* was killed, whatever a mirror sent, and with a download of a killed run still
\* writing, what stands in the final place is the official release.
InstalledIsOfficial == knots.target \in {"none", "official"}

\* start.rs: a node too old to mine with is refused, the one that runs and not
\* the one installed, in every order of updates, restarts and crashes.
NeverMinesOnAnOldNode == At("mining") => ~(Answers /\ node.old)

\* What the wizard takes for caught up, the pool takes for fit once there are
\* peers and a fresh tip, and the other way round.
ReadyMeansThePoolAgrees ==
  CaughtUp(Info) <=> Check(Info, 1, 0) = "ok" /\ Info.headers > 0

\* A run of the program reaches mining or ends: no wait is for something that
\* need not come.
EveryRunEnds == ~At("off") ~> At("off") \/ At("mining")

\* setup/mod.rs:180: "Something else answers on the node's port: another node,
\* most likely, with its own data and cookie."
PortMovesForOthersOnly == file.port # None => other
=============================================================================
