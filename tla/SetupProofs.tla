---------------------------- MODULE SetupProofs -----------------------------
(***************************************************************************)
(* Setup, for every archive, every chain and any number of runs: what is   *)
(* installed is the release, and an old node is never mined on.            *)
(***************************************************************************)
EXTENDS Setup, TLAPS

USE ArchiveAssumption DEF None

-----------------------------------------------------------------------------
(* The inductive invariant.                                                *)

Fields == {"at", "command", "env", "updated", "ensuring", "port", "addr", "copy"}
Parts  == {"none", "part", "official", "altered"}

Knots == [archive : Seq(Nat), scratch : Parts, target : Parts, current : {"none", "old", "new"}]

\* The shapes of what the two theorems read; ports are whatever was free.
TypeInv ==
  /\ run = [f \in Fields |-> run[f]]
  /\ knots \in Knots
  /\ curl \in [own : Nat, orphan : Nat]
  /\ node = [f \in {"st", "old", "port", "stage", "snapshot"} |-> node[f]]

\* The release is the first pieces of the archive: more may have been appended
\* by a download that outlived its program.
Begins(archive) == Len(archive) >= Full /\ \A i \in 1..Full : archive[i] = i

\* What is unpacked was checked, and what is moved into place was unpacked to
\* the end.
ArchiveInv ==
  /\ run.at \in {"unpack", "unpacking"} => Begins(knots.archive)
  /\ run.at \in {"replace", "move"} => knots.scratch = "official"

\* A node that is started is a new one; an old one that goes down stays down.
NodeInv == node.st = "loading" => ~node.old

IInv == TypeInv /\ ArchiveInv /\ NodeInv /\ InstalledIsOfficial /\ NeverMinesOnAnOldNode

-----------------------------------------------------------------------------
(* The archive.                                                            *)

LEMMA OfficialBegins ==
  Begins(Official)
BY DEF Official, Begins

LEMMA AppendingKeepsTheRelease ==
  ASSUME NEW s \in Seq(Nat), NEW piece \in Nat, Begins(s)
  PROVE  Begins(Append(s, piece))
<1>1. Len(Append(s, piece)) = Len(s) + 1
  OBVIOUS
<1>2. \A i \in 1..Len(s) : Append(s, piece)[i] = s[i]
  OBVIOUS
<1> QED
  BY <1>1, <1>2 DEF Begins

LEMMA UnpackedIsOfficial ==
  ASSUME NEW s \in Seq(Nat), Begins(s)
  PROVE  SubSeq(s, 1, Full) = Official
<1>1. SubSeq(s, 1, Full) = [i \in 1..Full |-> s[i]]
  BY DEF Begins
<1> QED
  BY <1>1 DEF Begins, Official

-----------------------------------------------------------------------------

THEOREM InitInv ==
  Init => IInv
<1> SUFFICES ASSUME Init PROVE IInv
  OBVIOUS
<1>1. TypeInv
  <2>1. run = [f \in Fields |-> run[f]]
    BY DEF Init, Idle, Fields
  <2>2. knots \in Knots /\ curl \in [own : Nat, orphan : Nat]
    <3>1. << >> \in Seq(Nat)
      OBVIOUS
    <3>2. /\ knots = [f \in {"archive", "scratch", "target", "current"} |-> knots[f]]
          /\ knots.archive = << >> /\ knots.scratch = "none" /\ knots.target = "none"
          /\ knots.current \in {"none", "old"}
      BY DEF Init
    <3>3. knots \in Knots
      BY <3>1, <3>2 DEF Knots, Parts
    <3> QED
      BY <3>3 DEF Init
  <2>3. node = [f \in {"st", "old", "port", "stage", "snapshot"} |-> node[f]]
    BY DEF Init
  <2> QED
    BY <2>1, <2>2, <2>3 DEF TypeInv
<1>2. ArchiveInv /\ NodeInv
  BY DEF Init, ArchiveInv, NodeInv, Idle
<1>3. InstalledIsOfficial /\ NeverMinesOnAnOldNode
  BY DEF Init, InstalledIsOfficial, NeverMinesOnAnOldNode, At, Idle
<1> QED
  BY <1>1, <1>2, <1>3 DEF IInv

-----------------------------------------------------------------------------
(* Steps of the program that only go elsewhere.                            *)

\* The places where an invariant says something.
Watched == {"unpack", "unpacking", "replace", "move", "mining"}

LEMMA GoTyped ==
  ASSUME TypeInv, NEW place, Go(place)
  PROVE  run'.at = place /\ run'.port = run.port /\ run' = [f \in Fields |-> run'[f]]
BY DEF TypeInv, Go, Fields

LEMMA EndTyped ==
  ASSUME End
  PROVE  run'.at = "off" /\ run' = [f \in Fields |-> run'[f]]
BY DEF End, Idle, Fields

LEMMA GoingElsewhere ==
  ASSUME IInv, run' = [f \in Fields |-> run'[f]], run'.at \notin Watched,
         UNCHANGED knots, UNCHANGED node, curl' \in [own : Nat, orphan : Nat]
  PROVE  IInv'
<1> USE DEF IInv
<1>1. TypeInv'
  BY DEF TypeInv
<1>2. ArchiveInv' /\ NodeInv'
  BY DEF ArchiveInv, NodeInv, Watched
<1>3. InstalledIsOfficial' /\ NeverMinesOnAnOldNode'
  BY DEF InstalledIsOfficial, NeverMinesOnAnOldNode, At, Watched
<1> QED
  BY <1>1, <1>2, <1>3

\* The same while the node changes, to anything but a loading old one.
LEMMA NodeMoves ==
  ASSUME IInv, run' = [f \in Fields |-> run'[f]], run'.at \notin Watched, UNCHANGED <<knots, curl>>,
         node' = [f \in {"st", "old", "port", "stage", "snapshot"} |-> node'[f]],
         node'.st = "loading" => ~node'.old
  PROVE  IInv'
<1> USE DEF IInv
<1>1. TypeInv'
  BY DEF TypeInv
<1>2. ArchiveInv' /\ NodeInv'
  BY DEF ArchiveInv, NodeInv, Watched
<1>3. InstalledIsOfficial' /\ NeverMinesOnAnOldNode'
  BY DEF InstalledIsOfficial, NeverMinesOnAnOldNode, At, Watched
<1> QED
  BY <1>1, <1>2, <1>3

\* A run begins, and goes through what it asks and looks at.
LEMMA AskingSteps ==
  ASSUME IInv,
         \/ \E command \in {"start", "plain", "setup"}, env \in BOOLEAN : Start(command, env)
         \/ LookAround \/ CheckDisk \/ CheckSoftware \/ CheckAddress \/ AskAddress
         \/ PasteAddress \/ MakeWallet \/ SaveAddress \/ WaitForChain \/ Follow
         \/ Listen \/ EnsureNode \/ StopMining
  PROVE  IInv'
<1> USE DEF IInv
<1>1. curl \in [own : Nat, orphan : Nat]
  BY DEF TypeInv
<1>2. ASSUME NEW command \in {"start", "plain", "setup"}, NEW env \in BOOLEAN, Start(command, env)
      PROVE  IInv'
  <2>1. run' = [f \in Fields |-> run'[f]] /\ run'.at \in {"look", "disk", "listen"}
    BY <1>2 DEF Start, Fields
  <2>2. UNCHANGED <<knots, curl, node>>
    BY <1>2 DEF Start
  <2> QED
    BY <1>1, <2>1, <2>2, GoingElsewhere DEF Watched
<1>3. ASSUME NEW P, P \notin Watched, Go(P), UNCHANGED <<knots, curl, node>>
      PROVE  IInv'
  BY <1>1, <1>3, GoTyped, GoingElsewhere
<1>4. ASSUME End, UNCHANGED <<knots, curl, node>>
      PROVE  IInv'
  BY <1>1, <1>4, EndTyped, GoingElsewhere DEF Watched
<1>5. CASE LookAround
  BY <1>3, <1>5 DEF LookAround, Watched
<1>6. CASE CheckDisk \/ CheckSoftware \/ AskAddress \/ CheckAddress
  BY <1>3, <1>4, <1>6 DEF CheckDisk, CheckSoftware, AskAddress, CheckAddress, Watched
<1>7. ASSUME Given, UNCHANGED <<knots, curl, node>>
      PROVE  IInv'
  <2>1. run' = [f \in Fields |-> run'[f]] /\ run'.at = "save address"
    BY <1>7 DEF Given, TypeInv, Fields
  <2> QED
    BY <1>1, <1>7, <2>1, GoingElsewhere DEF Watched
<1>8. CASE PasteAddress \/ MakeWallet
  BY <1>4, <1>7, <1>8 DEF PasteAddress, MakeWallet
<1>9. CASE SaveAddress
  <2>1. run' = [f \in Fields |-> run'[f]] /\ run'.at = "sync"
    BY <1>9 DEF SaveAddress, TypeInv, Fields
  <2> QED
    BY <1>1, <1>9, <2>1, GoingElsewhere DEF SaveAddress, Watched
<1>10. CASE WaitForChain \/ Follow
  BY <1>3, <1>4, <1>10 DEF WaitForChain, Follow, Ready, Watched
<1>11. CASE Listen \/ StopMining
  BY <1>3, <1>4, <1>11 DEF Listen, StopMining, Watched
<1>12. CASE EnsureNode
  <2>1. run' = [f \in Fields |-> run'[f]] /\ run'.at \in {"version", "spawn"}
    BY <1>12 DEF EnsureNode, TypeInv, Fields
  <2> QED
    BY <1>1, <1>12, <2>1, GoingElsewhere DEF EnsureNode, Watched
<1> QED
  BY <1>2, <1>5, <1>6, <1>8, <1>9, <1>10, <1>11, <1>12

-----------------------------------------------------------------------------
(* The software.                                                           *)

LEMMA FetchingSteps ==
  ASSUME IInv,
         \/ Fetch \/ Downloaded \/ OrphanEnds \/ Killed
         \/ \E who \in {"own", "orphan"} : CurlWrites(who)
  PROVE  IInv'
<1> USE DEF IInv
<1>1. CASE Fetch
  <2>1. curl' \in [own : Nat, orphan : Nat]
    BY <1>1 DEF Fetch, TypeInv, Knots
  <2>2. run' = [f \in Fields |-> run'[f]] /\ run'.at \in {"check", "off", "download"}
    BY <1>1, GoTyped, EndTyped DEF Fetch
  <2> QED
    BY <1>1, <2>1, <2>2, GoingElsewhere DEF Fetch, Watched
<1>2. CASE Downloaded
  <2>1. curl' \in [own : Nat, orphan : Nat]
    BY <1>2 DEF Downloaded, TypeInv
  <2>2. run' = [f \in Fields |-> run'[f]] /\ run'.at \in {"check", "off"}
    BY <1>2, GoTyped, EndTyped DEF Downloaded
  <2> QED
    BY <1>2, <2>1, <2>2, GoingElsewhere DEF Downloaded, Watched
<1>3. CASE Killed
  <2>1. curl' \in [own : Nat, orphan : Nat]
    BY <1>3 DEF Killed, TypeInv
  <2>2. run' = [f \in Fields |-> run'[f]] /\ run'.at = "off"
    BY <1>3, EndTyped DEF Killed
  <2> QED
    BY <1>3, <2>1, <2>2, GoingElsewhere DEF Killed, Watched
<1>4. CASE OrphanEnds
  <2>1. TypeInv'
    BY <1>4 DEF OrphanEnds, TypeInv
  <2> QED
    BY <1>4, <2>1 DEF OrphanEnds, ArchiveInv, NodeInv, InstalledIsOfficial, NeverMinesOnAnOldNode, At, Answers
<1>5. ASSUME NEW who \in {"own", "orphan"}, CurlWrites(who)
      PROVE  IInv'
  <2>1. curl[who] \in Nat /\ curl' \in [own : Nat, orphan : Nat]
    BY <1>5 DEF CurlWrites, TypeInv
  <2>2. PICK piece \in {curl[who], None} : knots' = [knots EXCEPT !.archive = Append(@, piece)]
    BY <1>5 DEF CurlWrites
  <2>3. piece \in Nat /\ knots.archive \in Seq(Nat)
    BY <2>1 DEF TypeInv, Knots
  <2>4. TypeInv'
    <3>1. Append(knots.archive, piece) \in Seq(Nat)
      BY <2>3
    <3>2. knots' \in Knots
      BY <2>2, <3>1 DEF TypeInv, Knots
    <3> QED
      BY <1>5, <2>1, <3>2 DEF CurlWrites, TypeInv
  <2>5. Begins(knots.archive) => Begins(knots'.archive)
    BY <2>2, <2>3, AppendingKeepsTheRelease DEF TypeInv, Knots
  <2>6. knots'.scratch = knots.scratch /\ knots'.target = knots.target
    BY <2>2 DEF TypeInv, Knots
  <2>7. UNCHANGED <<run, node>>
    BY <1>5 DEF CurlWrites
  <2> QED
    BY <2>4, <2>5, <2>6, <2>7
       DEF ArchiveInv, NodeInv, InstalledIsOfficial, NeverMinesOnAnOldNode, At, Answers
<1> QED
  BY <1>1, <1>2, <1>3, <1>4, <1>5

\* Check, unpack, replace, move, link: in this order, or not at all.
LEMMA InstallingSteps ==
  ASSUME IInv,
         \/ CheckArchive \/ BeginUnpack \/ EndUnpack \/ RemoveTarget \/ MoveIntoPlace \/ Link
  PROVE  IInv'
<1> USE DEF IInv
<1> SUFFICES TypeInv' /\ ArchiveInv' /\ InstalledIsOfficial' /\ run'.at # "mining" /\ UNCHANGED node
  BY DEF NodeInv, NeverMinesOnAnOldNode, At
<1>1. CASE CheckArchive
  <2>1. run' = [f \in Fields |-> run'[f]] /\ run'.at \in {"unpack", "off"}
    BY <1>1, GoTyped, EndTyped DEF CheckArchive
  <2>2. knots' \in Knots /\ curl' \in [own : Nat, orphan : Nat]
    <3>1. << >> \in Seq(Nat)
      OBVIOUS
    <3>2. knots' \in Knots
      <4>1. CASE UNCHANGED knots
        BY <4>1 DEF TypeInv
      <4>2. CASE knots' = [knots EXCEPT !.archive = << >>]
        BY <3>1, <4>2 DEF TypeInv, Knots
      <4> QED
        BY <1>1, <4>1, <4>2 DEF CheckArchive
    <3> QED
      BY <1>1, <3>2 DEF CheckArchive, TypeInv
  <2>3. run'.at = "unpack" => Begins(knots'.archive)
    BY <1>1, OfficialBegins, EndTyped DEF CheckArchive
  <2>4. knots'.target = knots.target
    BY <1>1 DEF CheckArchive, TypeInv, Knots
  <2> QED
    BY <1>1, <2>1, <2>2, <2>3, <2>4 DEF CheckArchive, TypeInv, ArchiveInv, InstalledIsOfficial
<1>2. CASE BeginUnpack
  <2>1. run' = [f \in Fields |-> run'[f]] /\ run'.at = "unpacking"
    BY <1>2, GoTyped DEF BeginUnpack
  <2> QED
    BY <1>2, <2>1 DEF BeginUnpack, At, TypeInv, Knots, Parts, ArchiveInv, InstalledIsOfficial
<1>3. CASE EndUnpack
  <2>1. SubSeq(knots.archive, 1, Full) = Official
    BY <1>3, UnpackedIsOfficial DEF EndUnpack, At, ArchiveInv, TypeInv, Knots
  <2>2. CASE Go("replace") /\ knots' = [knots EXCEPT !.scratch = "official"]
    <3>1. run' = [f \in Fields |-> run'[f]] /\ run'.at = "replace"
      BY <2>2, GoTyped
    <3> QED
      BY <1>3, <2>2, <3>1 DEF EndUnpack, TypeInv, Knots, Parts, ArchiveInv, InstalledIsOfficial
  <2>3. CASE End /\ UNCHANGED knots
    BY <1>3, <2>3, EndTyped DEF EndUnpack, TypeInv, ArchiveInv, InstalledIsOfficial
  <2> QED
    BY <1>3, <2>1, <2>2, <2>3 DEF EndUnpack
<1>4. CASE RemoveTarget
  <2>1. run' = [f \in Fields |-> run'[f]] /\ run'.at = "move"
    BY <1>4, GoTyped DEF RemoveTarget
  <2> QED
    BY <1>4, <2>1 DEF RemoveTarget, At, TypeInv, Knots, Parts, ArchiveInv, InstalledIsOfficial
<1>5. CASE MoveIntoPlace
  <2>1. run' = [f \in Fields |-> run'[f]] /\ run'.at = "link"
    BY <1>5, GoTyped DEF MoveIntoPlace
  <2> QED
    BY <1>5, <2>1 DEF MoveIntoPlace, At, TypeInv, Knots, Parts, ArchiveInv, InstalledIsOfficial
<1>6. CASE Link
  <2>1. run' = [f \in Fields |-> run'[f]] /\ run'.at = "node"
    BY <1>6 DEF Link, TypeInv, Fields
  <2> QED
    BY <1>6, <2>1 DEF Link, TypeInv, Knots, Parts, ArchiveInv, InstalledIsOfficial
<1> QED
  BY <1>1, <1>2, <1>3, <1>4, <1>5, <1>6

-----------------------------------------------------------------------------
(* The node.                                                               *)

LEMMA ControlSteps ==
  ASSUME IInv,
         \/ LeavePort \/ SavePort \/ StopOldNode \/ UseNode \/ Restart \/ Spawn \/ AwaitNode
         \/ QuickStart
  PROVE  IInv'
<1> USE DEF IInv
<1>1. curl \in [own : Nat, orphan : Nat]
  BY DEF TypeInv
<1>2. CASE LeavePort
  <2>1. run' = [f \in Fields |-> run'[f]] /\ run'.at = "save port"
    BY <1>2 DEF LeavePort, TypeInv, Fields
  <2> QED
    BY <1>1, <1>2, <2>1, GoingElsewhere DEF LeavePort, Watched
<1>3. CASE SavePort
  <2>1. run' = [f \in Fields |-> run'[f]] /\ run'.at \in {"spawn", "off"}
    BY <1>3, EndTyped DEF SavePort, TypeInv, Fields
  <2> QED
    BY <1>1, <1>3, <2>1, GoingElsewhere DEF SavePort, Watched
<1>4. CASE UseNode
  <2>1. run' = [f \in Fields |-> run'[f]] /\ run'.at \in {"spawn", "address"}
    BY <1>4, GoTyped DEF UseNode
  <2> QED
    BY <1>1, <1>4, <2>1, GoingElsewhere DEF UseNode, Watched
<1>5. CASE Restart
  <2>1. run' = [f \in Fields |-> run'[f]] /\ run'.at = "spawn"
    BY <1>5, GoTyped DEF Restart
  <2> QED
    BY <1>1, <1>5, <2>1, GoingElsewhere DEF Restart, Watched
<1>6. CASE AwaitNode
  <2>1. run' = [f \in Fields |-> run'[f]] /\ run'.at \in {"version", "address", "off"}
    BY <1>6, GoTyped, EndTyped DEF AwaitNode
  <2> QED
    BY <1>1, <1>6, <2>1, GoingElsewhere DEF AwaitNode, Watched
<1>7. CASE StopOldNode
  <2>1. run' = [f \in Fields |-> run'[f]] /\ run'.at = "restart"
    BY <1>7, GoTyped DEF StopOldNode
  <2>2. node' = [f \in {"st", "old", "port", "stage", "snapshot"} |-> node'[f]] /\ node'.st = "closing"
    BY <1>7 DEF StopOldNode, TypeInv
  <2> QED
    BY <1>7, <2>1, <2>2, NodeMoves DEF StopOldNode, Watched
<1>8. CASE Spawn
  <2>1. run' = [f \in Fields |-> run'[f]] /\ run'.at \in {"starting", "off"}
    BY <1>8, GoTyped, EndTyped DEF Spawn
  <2>2. node' = [f \in {"st", "old", "port", "stage", "snapshot"} |-> node'[f]]
    BY <1>8 DEF Spawn, TypeInv
  <2>3. node'.st = "loading" => ~node'.old
    BY <1>8 DEF Spawn, TypeInv, NodeInv
  <2> QED
    BY <1>8, <2>1, <2>2, <2>3, NodeMoves DEF Spawn, Watched
<1>9. CASE QuickStart
  <2>1. run' = [f \in Fields |-> run'[f]] /\ run'.at \in {"follow", "off"}
    BY <1>9, GoTyped, EndTyped DEF QuickStart
  <2>2. node' = [f \in {"st", "old", "port", "stage", "snapshot"} |-> node'[f]]
    BY <1>9 DEF QuickStart, TypeInv
  <2>3. node'.st = "loading" => ~node'.old
    BY <1>9 DEF QuickStart, TypeInv, NodeInv
  <2> QED
    BY <1>9, <2>1, <2>2, <2>3, NodeMoves DEF QuickStart, Watched
<1> QED
  BY <1>2, <1>3, <1>4, <1>5, <1>6, <1>7, <1>8, <1>9

\* The node moves by itself, or `stop` is typed: the program stays where it is.
LEMMA NodeSteps ==
  ASSUME IInv, StopCommand \/ NodeLoads \/ NodeCloses \/ NodeDies \/ NodeSyncs
  PROVE  IInv'
<1> USE DEF IInv
<1>1. UNCHANGED <<run, knots, curl>>
  BY DEF StopCommand, NodeLoads, NodeCloses, NodeDies, NodeSyncs
<1>2. node' = [f \in {"st", "old", "port", "stage", "snapshot"} |-> node'[f]]
  BY DEF StopCommand, NodeLoads, NodeCloses, NodeDies, NodeSyncs, TypeInv
<1>3. node'.old = node.old /\ node'.port = node.port /\ (node'.st = "loading" => node.st = "loading")
      /\ (node'.st = "up" => node.st = "up" \/ ~node.old)
  BY DEF StopCommand, NodeLoads, NodeCloses, NodeDies, NodeSyncs, TypeInv, NodeInv
<1>4. TypeInv' /\ ArchiveInv' /\ NodeInv' /\ InstalledIsOfficial'
  BY <1>1, <1>2, <1>3 DEF TypeInv, ArchiveInv, NodeInv, InstalledIsOfficial
<1>5. NeverMinesOnAnOldNode'
  BY <1>1, <1>3 DEF NeverMinesOnAnOldNode, At, Answers
<1> QED
  BY <1>4, <1>5

\* An old node that answers is refused, and one that does not answer cannot
\* begin to without being replaced.
LEMMA MiningBegins ==
  ASSUME IInv, RefuseOldNode
  PROVE  IInv'
<1> USE DEF IInv
<1>1. UNCHANGED <<knots, curl, node>>
  BY DEF RefuseOldNode
<1>2. CASE End
  BY <1>1, <1>2, EndTyped, GoingElsewhere DEF TypeInv, Watched
<1>3. CASE Go("mining") /\ ~(Answers /\ node.old)
  <2>1. run' = [f \in Fields |-> run'[f]] /\ run'.at = "mining" /\ run'.port = run.port
    BY <1>3, GoTyped
  <2>2. NeverMinesOnAnOldNode'
    BY <1>1, <1>3, <2>1 DEF NeverMinesOnAnOldNode, Answers
  <2> QED
    BY <1>1, <2>1, <2>2 DEF TypeInv, ArchiveInv, NodeInv, InstalledIsOfficial
<1> QED
  BY <1>2, <1>3 DEF RefuseOldNode

-----------------------------------------------------------------------------

THEOREM NextInv ==
  IInv /\ [Next]_vars => IInv'
<1> SUFFICES ASSUME IInv, [Next]_vars PROVE IInv'
  OBVIOUS
<1>1. CASE Next
  BY <1>1, AskingSteps, FetchingSteps, InstallingSteps, ControlSteps, NodeSteps, MiningBegins
     DEF Next, Program
<1>2. CASE UNCHANGED vars
  BY <1>2 DEF vars, IInv, TypeInv, ArchiveInv, NodeInv, InstalledIsOfficial, NeverMinesOnAnOldNode, At, Answers
<1> QED
  BY <1>1, <1>2

\* The inductive invariant holds of every state of every run of Setup.
THEOREM Invariant ==
  Spec => []IInv
BY InitInv, NextInv, PTL DEF Spec

\* For every archive, however often the program is killed and whatever a mirror
\* or a forgotten download appends: what stands in the final place is the
\* release, or nothing does.
THEOREM OnlyTheReleaseIsInstalled ==
  Spec => []InstalledIsOfficial
<1>1. IInv => InstalledIsOfficial
  BY DEF IInv
<1> QED
  BY <1>1, Invariant, PTL

\* For every chain and any number of runs: mining begins and goes on with no old
\* node answering.
THEOREM OldNodesAreNotMinedOn ==
  Spec => []NeverMinesOnAnOldNode
<1>1. IInv => NeverMinesOnAnOldNode
  BY DEF IInv
<1> QED
  BY <1>1, Invariant, PTL

-----------------------------------------------------------------------------
(* The wizard and the pool.                                                *)

\* What the node says of its chain is always one of the answers foreseen.
StageInv == node.stage \in 1..Len(Infos)

LEMMA InfosTyped ==
  /\ Len(Infos) \in Nat /\ 1 \in 1..Len(Infos) /\ Loaded \in 1..Len(Infos)
  /\ \A stage \in 1..Len(Infos) : Infos[stage] \in [blocks : Nat, headers : Nat, ibd : BOOLEAN]
<1> DEFINE R == [blocks : Nat, headers : Nat, ibd : BOOLEAN]
<1>1. Infos \in Seq(R) /\ Loaded \in 1..Len(Infos)
  BY InfoAssumption
<1> HIDE DEF R
<1>2. Len(Infos) \in Nat /\ \A stage \in 1..Len(Infos) : Infos[stage] \in R
  BY <1>1
<1>3. 1 \in 1..Len(Infos)
  BY <1>1, <1>2
<1> QED
  BY <1>1, <1>2, <1>3 DEF R

\* The two thresholds, written in two programs' halves, are the same one.
LEMMA ThresholdsAgree ==
  ASSUME NEW info \in [blocks : Nat, headers : Nat, ibd : BOOLEAN]
  PROVE  CaughtUp(info) <=> Check(info, 1, 0) = "ok" /\ info.headers > 0
<1>1. Check(info, 1, 0) = "ok" <=> ~info.ibd /\ ~(info.headers - info.blocks > 2)
  <2>1. CASE info.ibd
    BY <2>1 DEF Check
  <2>2. CASE ~info.ibd /\ info.headers - info.blocks > 2
    BY <2>2 DEF Check
  <2>3. CASE ~info.ibd /\ ~(info.headers - info.blocks > 2)
    BY <2>3 DEF Check
  <2> QED
    BY <2>1, <2>2, <2>3
<1>2. info.blocks \in Nat /\ info.headers \in Nat
  OBVIOUS
<1>3. info.headers - info.blocks > 2 <=> ~(info.headers <= info.blocks + 2)
  BY <1>2
<1> QED
  BY <1>1, <1>3 DEF CaughtUp

LEMMA StageStep ==
  ASSUME TypeInv, StageInv, [Next]_vars
  PROVE  StageInv'
<1>0. /\ node = [f \in {"st", "old", "port", "stage", "snapshot"} |-> node[f]]
      /\ node.stage \in 1..Len(Infos)
  BY DEF TypeInv, StageInv
<1>1. CASE QuickStart
  <2>1. UNCHANGED node \/ node' = [node EXCEPT !.snapshot = TRUE, !.stage = IF @ < Loaded THEN Loaded ELSE @]
    BY <1>1 DEF QuickStart
  <2>2. node'.stage \in {node.stage, Loaded}
    BY <1>0, <2>1
  <2> QED
    BY <1>0, <2>2, InfosTyped DEF StageInv
<1>2. CASE NodeSyncs
  <2>1. node.stage < Len(Infos) /\ node'.stage = node.stage + 1
    BY <1>0, <1>2 DEF NodeSyncs
  <2> QED
    BY <1>0, <2>1, InfosTyped DEF StageInv
<1>3. CASE Spawn \/ StopOldNode \/ StopCommand \/ NodeLoads \/ NodeCloses \/ NodeDies
  <2>1. node'.stage = node.stage
    BY <1>0, <1>3 DEF Spawn, StopOldNode, StopCommand, NodeLoads, NodeCloses, NodeDies
  <2> QED
    BY <1>0, <2>1 DEF StageInv
<1>4. CASE UNCHANGED node
  BY <1>0, <1>4 DEF StageInv
<1>5. ASSUME Program PROVE UNCHANGED node \/ QuickStart \/ Spawn \/ StopOldNode
  BY <1>5 DEF Program, LookAround, CheckDisk, CheckSoftware, Fetch, Downloaded, CheckArchive,
     BeginUnpack, EndUnpack, RemoveTarget, MoveIntoPlace, Link, LeavePort, SavePort, UseNode, Restart,
     AwaitNode, CheckAddress, AskAddress, PasteAddress, MakeWallet, SaveAddress, WaitForChain, Follow,
     Listen, EnsureNode, RefuseOldNode
<1>6. ASSUME \/ \E command \in {"start", "plain", "setup"}, env \in BOOLEAN : Start(command, env)
             \/ Killed \/ StopMining \/ OrphanEnds
             \/ \E who \in {"own", "orphan"} : CurlWrites(who)
      PROVE  UNCHANGED node
  BY <1>6 DEF Start, Killed, StopMining, OrphanEnds, CurlWrites
<1> QED
  BY <1>1, <1>2, <1>3, <1>4, <1>5, <1>6 DEF Next, vars

\* For every chain, fetched block by block or jumped into with a snapshot: the
\* wizard lets the user go on exactly where the pool, with peers and a fresh tip,
\* does not hold him up again.
THEOREM TheWizardAndThePoolAgree ==
  Spec => []ReadyMeansThePoolAgrees
<1>1. Init => StageInv
  BY InfosTyped DEF Init, StageInv
<1>2. IInv => TypeInv
  BY DEF IInv
<1>3. StageInv => ReadyMeansThePoolAgrees
  BY InfosTyped, ThresholdsAgree DEF StageInv, ReadyMeansThePoolAgrees, Info
<1> QED
  BY <1>1, <1>2, <1>3, StageStep, Invariant, PTL DEF Spec
=============================================================================
