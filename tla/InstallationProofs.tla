------------------------- MODULE InstallationProofs -------------------------
(***************************************************************************)
(* Theorems about the components around an installation, for any files,    *)
(* roots, forecasts, limits and bounds.  The components share no state, so *)
(* a step of the whole is a step of one of them or leaves it alone: each   *)
(* invariant is proved of its component and then of the whole.             *)
(***************************************************************************)
EXTENDS MCInstallation, ListFacts, FiniteSetTheorems, TLAPS

-----------------------------------------------------------------------------
(* Staged roots.                                                           *)

\* What may stand at a place once m roots have been moved: the local one comes
\* before the server's, and what is not yet moved is as it was or not there.
AllowedAt(m, x) ==
    IF (x = "local" /\ m >= 1) \/ (x = job.server /\ m = 2)
    THEN {"installed"} ELSE {was[x], "missing"}

InPlace ==
    /\ job.names = job.server
    /\ was \in [R!Places -> {"missing", "empty"}]
    /\ moved <= R!Last
    /\ stop = "stage" => moved = 0
    /\ stop = "move" => moved < R!Last
    /\ moved >= 1 => names = job.server
    /\ \A x \in R!Places : root[x] \in AllowedAt(moved, x)

RootsInv ==
    /\ R!TypeOK /\ R!NoStrayServer /\ R!AllOrNothing
    /\ stop \notin {"off", "killed"} => InPlace

LEMMA RootsInit == R!Init => RootsInv
BY ServerAssumption DEF R!Init, RootsInv, R!TypeOK, R!NoStrayServer, R!AllOrNothing,
   R!Idle, R!Places, R!Local

\* The place that is next, and the one before it.
LEMMA TargetsAre ==
    ASSUME RootsInv, stop \notin {"off", "killed"}
    PROVE  /\ moved \in 0..2 /\ R!Last \in {1, 2} /\ (R!Last = 2 <=> job.server \in Server)
           /\ moved = 0 => R!Place = "local"
           /\ moved = 1 /\ moved < R!Last => R!Place = job.server /\ R!Place \in Server
           /\ moved = 1 => R!Targets[moved] = "local"
           /\ moved = 2 => R!Targets[moved] = job.server /\ job.server \in Server
           /\ "local" \notin Server
<1>1. job.server \in Server \cup {Nothing} /\ moved \in 0..2 /\ moved <= R!Last
  BY DEF RootsInv, R!TypeOK, InPlace, AllowedAt
<1>2. CASE job.server = Nothing
  BY <1>1, <1>2, ServerAssumption DEF R!Last, R!Targets, R!Place, R!Local
<1>3. CASE job.server # Nothing
  BY <1>1, <1>3, ServerAssumption DEF R!Last, R!Targets, R!Place, R!Local
<1> QED BY <1>2, <1>3

\* A command begins where nothing is installed, so nothing is anywhere.
LEMMA RootsBegin ==
    ASSUME RootsInv, NEW s \in Server \cup {Nothing}, R!Setup(s) \/ R!Restore(s)
    PROVE  RootsInv'
<1>1. PICK k \in {"setup", "restore"} : R!Begin(k, s, s)
  BY ServerAssumption DEF R!Setup, R!Restore, R!Rewritten, R!TypeOK, RootsInv
<1>2. /\ job' = [kind |-> k, server |-> s, names |-> s]
      /\ was' = root /\ moved' = 0 /\ stop' = "stage" /\ UNCHANGED <<root, names, archive>>
      /\ root["local"] \in {"missing", "empty"}
  BY <1>1 DEF R!Begin, R!Local
<1>3. \A q \in Server : root[q] \notin {"installed", "remains"}
  BY <1>2 DEF RootsInv, R!NoStrayServer, R!Local
<1>4. was' \in [R!Places -> {"missing", "empty"}]
  BY <1>2, <1>3 DEF RootsInv, R!TypeOK, R!Places, R!Local
<1>5. InPlace'
  BY <1>2, <1>4 DEF InPlace, AllowedAt, R!Last
<1> QED BY <1>2, <1>5 DEF RootsInv, R!TypeOK, R!NoStrayServer, R!AllOrNothing

\* The steps that leave the roots as they are.
LEMMA RootsQuiet ==
    ASSUME RootsInv,
           \/ R!CreateTransfer \/ R!Staged \/ R!Finish \/ R!StagingFails \/ R!Failed \/ R!Die
           \/ UNCHANGED rootVars
    PROVE  RootsInv'
<1> USE DEF RootsInv, R!TypeOK, R!NoStrayServer, R!AllOrNothing
<1>1. CASE R!CreateTransfer
  BY <1>1 DEF R!CreateTransfer, R!Portable
<1>2. CASE R!Staged
  BY <1>2 DEF R!Staged, InPlace, AllowedAt, R!Last
<1>3. CASE R!Finish
  <2>1. stop = "remove" /\ moved = R!Last /\ InPlace
    BY <1>3 DEF R!Finish
  <2>2. names = job.server /\ root["local"] = "installed"
        /\ (job.server \in Server => root[job.server] = "installed")
    BY <2>1, TargetsAre DEF InPlace, AllowedAt, R!Places, R!Local
  <2> QED BY <1>3, <2>2 DEF R!Finish, R!End, R!Idle, R!Local
<1>4. CASE R!StagingFails \/ R!Failed
  <2>1. stop \in {"stage", "undo"} /\ moved = 0 /\ InPlace
    BY <1>4 DEF R!StagingFails, R!Failed, InPlace, AllowedAt
  <2>2. \A p \in R!Places : root[p] \in {was[p], "missing"}
    BY <2>1 DEF InPlace, AllowedAt, R!Places, R!Local
  <2>3. root["local"] # "installed"
    BY <2>1, <2>2 DEF InPlace, AllowedAt, R!Places, R!Local
  <2> QED BY <1>4, <2>2, <2>3 DEF R!StagingFails, R!Failed, R!End, R!Idle, R!Local
<1>5. CASE R!Die
  BY <1>5 DEF R!Die, R!Idle
<1>6. CASE UNCHANGED rootVars
  BY <1>6 DEF rootVars, InPlace, AllowedAt, R!Last
<1> QED BY <1>1, <1>2, <1>3, <1>4, <1>5, <1>6

\* A place is given what it should have by the number of roots moved.
LEMMA RootsStep ==
    ASSUME RootsInv, InPlace, stop' \in {"remove", "move", "undo"},
           UNCHANGED <<archive, job, was>>, moved' \in 0..2, moved' <= R!Last,
           stop' = "move" => moved' < R!Last,
           names' \in Server \cup {Nothing, "placeholder"},
           moved' >= 1 => names' = job.server,
           NEW x \in R!Places, NEW v \in {"missing", "empty", "installed"},
           root' = [root EXCEPT ![x] = v],
           \A s \in R!Places :
              root'[s] \in AllowedAt(moved', s)
    PROVE  RootsInv'
<1>1. /\ R!Last' = R!Last /\ Server \subseteq R!Places /\ "local" \in R!Places
      /\ "local" \notin Server /\ job.server \in Server \cup {Nothing}
      /\ was \in [R!Places -> {"missing", "empty"}]
  BY ServerAssumption DEF R!Last, R!Places, R!Local, RootsInv, R!TypeOK, InPlace, AllowedAt
<1>2. root' \in [R!Places -> {"missing", "empty", "installed", "remains"}]
  BY DEF RootsInv, R!TypeOK
<1>3. (\A s \in R!Places : root[s] \in AllowedAt(moved, s))'
  BY DEF AllowedAt
<1>4. InPlace'
  BY <1>1, <1>3 DEF InPlace, AllowedAt
<1>5. R!NoStrayServer'
  <2> SUFFICES ASSUME NEW s \in Server, root'[s] \in {"installed", "remains"}
               PROVE  root'["local"] = "installed" /\ names' = s
    BY DEF R!NoStrayServer, R!Local
  <2>1. s = job.server /\ moved' = 2
    <3>1. root'[s] \in AllowedAt(moved', s) /\ was[s] \in {"missing", "empty"} /\ s # "local"
      BY <1>1
    <3> QED BY <3>1 DEF AllowedAt
  <2>2. root'["local"] \in AllowedAt(moved', "local")
    BY <1>1
  <2> QED BY <2>1, <2>2 DEF AllowedAt
<1> QED BY <1>2, <1>4, <1>5 DEF RootsInv, R!TypeOK, R!AllOrNothing

\* The steps that replace a root or take it back.
LEMMA RootsReplace ==
    ASSUME RootsInv, R!RemoveTarget \/ R!MoveIntoPlace \/ R!MoveFails \/ R!Undo
    PROVE  RootsInv'
<1>1. InPlace /\ stop \in {"remove", "move", "undo"}
  BY DEF RootsInv, R!RemoveTarget, R!MoveIntoPlace, R!MoveFails, R!Undo
<1>2. UNCHANGED <<archive, job, was>>
  BY DEF R!RemoveTarget, R!MoveIntoPlace, R!MoveFails, R!Undo
<1>3. /\ moved \in 0..2 /\ R!Last \in {1, 2} /\ (R!Last = 2 <=> job.server \in Server)
      /\ "local" \notin Server /\ moved <= R!Last
      /\ names \in Server \cup {Nothing, "placeholder"}
      /\ job.server \in Server \cup {Nothing} /\ job.names = job.server
      /\ moved >= 1 => names = job.server
  BY <1>1, TargetsAre DEF RootsInv, R!TypeOK, InPlace, AllowedAt
<1>4. /\ \A p \in R!Places : p = "local" \/ p \in Server
      /\ Server \subseteq R!Places /\ "local" \in R!Places
      /\ root \in [R!Places -> {"missing", "empty", "installed", "remains"}]
      /\ was \in [R!Places -> {"missing", "empty"}]
  BY <1>1 DEF R!Places, R!Local, RootsInv, R!TypeOK, InPlace, AllowedAt
<1>5. \A s \in R!Places :
         root[s] \in AllowedAt(moved, s)
  BY <1>1 DEF InPlace, AllowedAt
<1>6. ASSUME moved < R!Last
      PROVE  /\ R!Place = IF moved = 0 THEN "local" ELSE job.server
             /\ R!Place \in R!Places /\ (moved # 0 => moved = 1 /\ job.server \in Server)
  BY <1>1, <1>3, <1>4, <1>6, TargetsAre
<1>7. CASE R!RemoveTarget
  <2>1. /\ stop = "remove" /\ stop' = "move" /\ moved < R!Last /\ moved' = moved /\ names' = names
        /\ root' = [root EXCEPT ![R!Place] = "missing"]
    BY <1>7 DEF R!RemoveTarget
  <2> DEFINE x == R!Place
  <2>2. x \in R!Places /\ x = IF moved = 0 THEN "local" ELSE job.server
    BY <1>6, <2>1
  <2>3. root' = [root EXCEPT ![x] = "missing"]
    BY <2>1
  <2> HIDE DEF x
  <2>4. \A s \in R!Places :
           root'[s] \in AllowedAt(moved', s)
    BY <1>3, <1>4, <1>5, <1>6, <2>1, <2>2, <2>3 DEF AllowedAt
  <2> QED BY <1>1, <1>2, <1>3, <2>1, <2>2, <2>3, <2>4, RootsStep
<1>8. CASE R!MoveIntoPlace
  <2>1. /\ stop = "move" /\ stop' = "remove" /\ moved < R!Last /\ moved' = moved + 1
        /\ root' = [root EXCEPT ![R!Place] = "installed"]
        /\ names' = IF R!Place = "local" THEN job.names ELSE names
    BY <1>1, <1>8 DEF R!MoveIntoPlace, R!Local, InPlace, AllowedAt
  <2> DEFINE x == R!Place
  <2>2. x \in R!Places /\ x = IF moved = 0 THEN "local" ELSE job.server
    BY <1>6, <2>1
  <2>3. root' = [root EXCEPT ![x] = "installed"] /\ names' = IF x = "local" THEN job.names ELSE names
    BY <2>1
  <2> HIDE DEF x
  <2>4. /\ moved' \in 0..2 /\ moved' >= 1 /\ moved' <= R!Last
        /\ names' = job.server /\ names' \in Server \cup {Nothing, "placeholder"}
    BY <1>3, <1>6, <2>1, <2>2, <2>3
  <2>5. \A s \in R!Places :
           root'[s] \in AllowedAt(moved', s)
    BY <1>3, <1>4, <1>5, <1>6, <2>1, <2>2, <2>3, <2>4 DEF AllowedAt
  <2> QED BY <1>1, <1>2, <1>3, <2>1, <2>2, <2>3, <2>4, <2>5, RootsStep
<1>9. CASE R!MoveFails
  <2>1. /\ stop \in {"remove", "move"} /\ stop' = "undo" /\ moved < R!Last /\ moved' = moved
        /\ names' = names
    BY <1>9 DEF R!MoveFails
  <2>2. PICK again \in {was[R!Place], "missing"} :
           root' = IF stop = "move" THEN [root EXCEPT ![R!Place] = again] ELSE root
    BY <1>9 DEF R!MoveFails
  <2> DEFINE x == R!Place
             v == IF stop = "move" THEN again ELSE root[x]
  <2>3. x \in R!Places /\ x = IF moved = 0 THEN "local" ELSE job.server
    BY <1>6, <2>1
  <2>4. root' = [root EXCEPT ![x] = v]
    BY <1>4, <2>2, <2>3
  <2>5. v \in {was[x], "missing"}
    <3>1. root[x] \in {was[x], "missing"}
      <4> HIDE DEF x
      <4>1. (x = "local" /\ moved = 0) \/ (x = job.server /\ moved = 1 /\ job.server \in Server)
        BY <1>6, <2>1, <2>3
      <4>2. root[x] \in AllowedAt(moved, x)
        BY <1>5, <2>3
      <4> QED BY <1>3, <4>1, <4>2 DEF AllowedAt
    <3> QED BY <2>2, <3>1
  <2> HIDE DEF x, v
  <2>6. \A s \in R!Places :
           root'[s] \in AllowedAt(moved', s)
    BY <1>3, <1>4, <1>5, <1>6, <2>1, <2>3, <2>4, <2>5 DEF AllowedAt
  <2>7. v \in {"missing", "empty", "installed"}
    BY <1>4, <2>3, <2>5
  <2> QED BY <1>1, <1>2, <1>3, <2>1, <2>3, <2>4, <2>6, <2>7, RootsStep
<1>10. CASE R!Undo
  <2>1. /\ stop = "undo" /\ stop' = stop /\ moved > 0 /\ moved' = moved - 1
        /\ root' = [root EXCEPT ![R!Targets[moved]] = was[R!Targets[moved]]]
        /\ names' = IF R!Targets[moved] = "local" THEN Nothing ELSE names
    BY <1>10 DEF R!Undo, R!Local
  <2> DEFINE x == R!Targets[moved]
             v == was[x]
  <2>2. x = (IF moved = 1 THEN "local" ELSE job.server) /\ x \in R!Places
        /\ (moved # 1 => moved = 2 /\ job.server \in Server)
    BY <1>1, <1>3, <1>4, <2>1, TargetsAre
  <2>3. root' = [root EXCEPT ![x] = v] /\ names' = IF x = "local" THEN Nothing ELSE names
    BY <2>1
  <2>4. v \in {"missing", "empty", "installed"} /\ v = was[x]
    BY <1>4, <2>2
  <2> HIDE DEF x, v
  <2>5. \A s \in R!Places :
           root'[s] \in AllowedAt(moved', s)
    BY <1>3, <1>4, <1>5, <2>1, <2>2, <2>3, <2>4 DEF AllowedAt
  <2>6. moved' \in 0..2 /\ moved' <= R!Last /\ (moved' >= 1 => names' = job.server)
        /\ names' \in Server \cup {Nothing, "placeholder"}
    BY <1>3, <2>1, <2>2, <2>3
  <2> QED BY <1>1, <1>2, <1>3, <2>1, <2>2, <2>3, <2>4, <2>5, <2>6, RootsStep
<1> QED BY <1>7, <1>8, <1>9, <1>10

\* A command that cannot undo leaves the place it was at, and those before it.
LEMMA RootsLeft ==
    ASSUME RootsInv, R!UndoFails PROVE RootsInv'
<1>1. InPlace /\ stop = "undo" /\ moved > 0
  BY DEF RootsInv, R!UndoFails
<1> DEFINE x == R!Targets[moved]
<1>2. PICK v \in {"installed", "remains", "missing", was[x]} :
         /\ root' = [root EXCEPT ![x] = v]
         /\ names' = IF x = "local" /\ v # "installed" THEN Nothing ELSE names
  BY DEF R!UndoFails, R!Local
<1>3. stop' = "killed" /\ job' = R!Idle /\ moved' = 0 /\ UNCHANGED <<archive, was>>
  BY DEF R!UndoFails
<1>4. /\ moved \in {1, 2} /\ (moved = 1 => x = "local")
      /\ (moved = 2 => x = job.server /\ job.server \in Server)
      /\ "local" \notin Server /\ names = job.server
  BY <1>1, TargetsAre DEF InPlace, AllowedAt
<1>5. /\ Server \subseteq R!Places /\ "local" \in R!Places /\ x \in R!Places
      /\ root \in [R!Places -> {"missing", "empty", "installed", "remains"}]
      /\ was \in [R!Places -> {"missing", "empty"}]
      /\ names \in Server \cup {Nothing, "placeholder"}
  BY <1>1, <1>4 DEF R!Places, R!Local, RootsInv, R!TypeOK, InPlace, AllowedAt
<1> HIDE DEF x
<1>6. R!TypeOK'
  BY <1>2, <1>3, <1>5 DEF RootsInv, R!TypeOK, R!Idle
<1>7. R!NoStrayServer'
  <2> SUFFICES ASSUME NEW s \in Server, root'[s] \in {"installed", "remains"}
               PROVE  root'["local"] = "installed" /\ names' = s
    BY DEF R!NoStrayServer, R!Local
  <2>1. moved = 2 /\ s = job.server
    BY <1>1, <1>2, <1>4, <1>5 DEF InPlace, AllowedAt
  <2> QED BY <1>1, <1>2, <1>4, <1>5, <2>1 DEF InPlace, AllowedAt
<1> QED BY <1>3, <1>6, <1>7 DEF RootsInv, R!AllOrNothing

LEMMA RootsNext == RootsInv /\ [R!Next]_rootVars => RootsInv'
BY RootsBegin, RootsQuiet, RootsReplace, RootsLeft DEF R!Next

-----------------------------------------------------------------------------
(* Delegated work.                                                         *)

\* Nothing is spent before the request was found to be within the policy, and
\* what is spent stays within the request but for one overrun.
SpentAsAsked ==
    /\ stage = "asked" => used.cost = 0 /\ \A k \in D!Kinds : used.count[k] = 0
    /\ stage = "working" => /\ ~D!Violates
                            /\ used.cost <= request.cost + Overrun
                            /\ \A k \in D!Kinds : used.count[k] <= request.limit[k]

ReviewedAsVerified ==
    /\ stage = "verifying" => ~D!Violates /\ result \subseteq Evidence
    /\ stage = "reviewing" /\ status = "completed" =>
          result # Nothing /\ verified = result /\ ~D!Violates
    /\ stage # "done" => receipt = Nothing

DelegationInv ==
    /\ D!TypeOK /\ D!SpendingBounded /\ D!AcceptedWasVerified
    /\ SpentAsAsked /\ ReviewedAsVerified

LEMMA DelegationInit == D!Init => DelegationInv
<1> SUFFICES ASSUME D!Init PROVE DelegationInv
  OBVIOUS
<1>1. /\ request \in D!Terms /\ policy \in D!Terms
      /\ stage = "asked" /\ status = "completed" /\ verified = {}
      /\ result = Nothing /\ receipt = Nothing
      /\ used = [count |-> [k \in D!Kinds |-> 0], cost |-> 0]
  BY DEF D!Init
<1>2. used \in D!Used /\ used.cost = 0 /\ \A k \in D!Kinds : used.count[k] = 0
  BY <1>1, BoundsAssumption DEF D!Used
<1>3. \A k \in D!Kinds : policy.limit[k] \in 0..MaxCalls
  BY <1>1 DEF D!Terms, D!Limits
<1>4. D!SpendingBounded
  BY <1>1, <1>2, <1>3, BoundsAssumption DEF D!SpendingBounded
<1> QED BY <1>1, <1>2, <1>4, NothingAssumption DEF DelegationInv, D!TypeOK,
           D!AcceptedWasVerified, SpentAsAsked, ReviewedAsVerified

LEMMA UsedRecord ==
    ASSUME NEW count \in [D!Kinds -> 0..MaxCalls], NEW spent \in Nat, NEW u,
           u = [count |-> count, cost |-> spent]
    PROVE  u.count = count /\ u.cost = spent /\ u \in D!Used
BY DEF D!Used

\* A use that still fits counts.
LEMMA DelegationUse ==
    ASSUME DelegationInv, NEW k \in D!Kinds, NEW charge \in Nat, NEW quote \in Nat,
           stage = "working", D!Left(k), charge = 0 \/ (charge <= quote + Overrun /\ D!Affordable(quote)),
           used' = [count |-> [used.count EXCEPT ![k] = @ + 1], cost |-> used.cost + charge],
           UNCHANGED <<request, policy, stage, result, verified, status, receipt>>
    PROVE  DelegationInv'
<1>1. /\ request \in D!Terms /\ policy \in D!Terms /\ used \in D!Used
      /\ request.cost \in 0..MaxCost /\ policy.cost \in 0..MaxCost
      /\ request.limit \in [D!Kinds -> 0..MaxCalls] /\ policy.limit \in [D!Kinds -> 0..MaxCalls]
      /\ used.count \in [D!Kinds -> 0..MaxCalls] /\ used.cost \in Nat
      /\ MaxCost \in Nat /\ MaxCalls \in Nat /\ Overrun \in Nat
  BY BoundsAssumption DEF DelegationInv, D!TypeOK, D!Terms, D!Limits, D!Used
<1> DEFINE count == [used.count EXCEPT ![k] = @ + 1]
<1>2. used' = [count |-> count, cost |-> used.cost + charge]
  OBVIOUS
<1>3. count[k] = used.count[k] + 1 /\ \A j \in D!Kinds : j # k => count[j] = used.count[j]
  BY <1>1
<1>4. used.count[k] < request.limit[k]
  BY DEF D!Left
<1>5. count \in [D!Kinds -> 0..MaxCalls]
  <2>1. used.count[k] + 1 \in 0..MaxCalls
    BY <1>1, <1>4
  <2> QED BY <1>1, <2>1
<1> HIDE DEF count
<1>6. ~D!Violates /\ used.cost <= request.cost + Overrun
      /\ \A j \in D!Kinds : used.count[j] <= request.limit[j]
  BY DEF DelegationInv, SpentAsAsked
<1>7. used.cost + charge <= request.cost + Overrun
  BY <1>1, <1>6 DEF D!Affordable
<1>8. \A j \in D!Kinds : count[j] <= request.limit[j]
  <2> TAKE j \in D!Kinds
  <2>1. request.limit[j] \in Nat /\ used.count[j] \in Nat
    BY <1>1
  <2> QED BY <1>3, <1>4, <1>6, <2>1
<1>9. request.cost <= policy.cost /\ \A j \in D!Kinds : request.limit[j] <= policy.limit[j]
  <2>1. request.cost <= policy.cost
    BY <1>1, <1>6 DEF D!Violates
  <2>2. ASSUME NEW j \in D!Kinds PROVE request.limit[j] <= policy.limit[j]
    <3>1. request.limit[j] \in Nat /\ policy.limit[j] \in Nat /\ ~(request.limit[j] > policy.limit[j])
      BY <1>1, <1>6 DEF D!Violates
    <3> QED BY <3>1
  <2> QED BY <2>1, <2>2
<1>10. \A j \in D!Kinds : count[j] <= policy.limit[j]
  <2> TAKE j \in D!Kinds
  <2>1. request.limit[j] \in Nat /\ policy.limit[j] \in Nat /\ count[j] \in Nat
    BY <1>1, <1>5
  <2> QED BY <1>8, <1>9, <2>1
<1>11. /\ used'.count = count /\ used'.cost = used.cost + charge /\ used' \in D!Used
       /\ used.cost + charge <= policy.cost + Overrun
  <2>1. used.cost + charge <= policy.cost + Overrun /\ used.cost + charge \in Nat
    BY <1>1, <1>7, <1>9
  <2> DEFINE spent == used.cost + charge
  <2>2. used' = [count |-> count, cost |-> spent] /\ spent \in Nat
    BY <1>2, <2>1
  <2> HIDE DEF spent
  <2>3. used'.count = count /\ used'.cost = spent /\ used' \in D!Used
    BY <1>5, <2>2, UsedRecord, Zenon
  <2> QED BY <2>1, <2>3 DEF spent
<1>12. D!SpendingBounded'
  BY <1>10, <1>11 DEF D!SpendingBounded
<1>13. D!TypeOK'
  BY <1>11 DEF DelegationInv, D!TypeOK
<1>14. D!Violates' <=> D!Violates
  BY DEF D!Violates
<1>15. SpentAsAsked'
  BY <1>6, <1>7, <1>8, <1>11, <1>14 DEF SpentAsAsked
<1> QED BY <1>12, <1>13, <1>14, <1>15 DEF DelegationInv, D!AcceptedWasVerified, ReviewedAsVerified

\* The steps that spend nothing.
LEMMA DelegationRest ==
    ASSUME DelegationInv,
           \/ D!Block \/ D!Begin \/ D!WorkerFails \/ D!Die
           \/ \E e \in SUBSET Evidence : D!Return(e) \/ D!Verify(e)
           \/ \E d \in {"accepted", "rejected", "limited", "blocked"}, e \in SUBSET Evidence :
                 D!Dispose(d, e)
           \/ UNCHANGED delegationVars
    PROVE  DelegationInv'
<1>0. UNCHANGED <<request, policy, used>>
  BY DEF D!Block, D!Begin, D!WorkerFails, D!Die, D!Return, D!Verify, D!Dispose, delegationVars
<1>1. /\ D!Violates' <=> D!Violates
      /\ used.cost \in Nat /\ request.cost \in Nat /\ policy.cost \in Nat
      /\ Overrun \in Nat
      /\ \A k \in D!Kinds : request.limit[k] \in Nat /\ policy.limit[k] \in Nat
  BY <1>0, BoundsAssumption DEF D!Violates, DelegationInv, D!TypeOK, D!Used, D!Terms, D!Limits
<1>2. D!SpendingBounded'
  <2>1. CASE stage = "asked"
    BY <1>0, <1>1, <2>1 DEF DelegationInv, SpentAsAsked, D!SpendingBounded
  <2>2. CASE stage # "asked"
    BY <1>0, <2>2 DEF DelegationInv, D!SpendingBounded
  <2> QED BY <2>1, <2>2
<1> USE <1>0, <1>1, <1>2 DEF DelegationInv, D!TypeOK, D!AcceptedWasVerified, SpentAsAsked,
         ReviewedAsVerified
<1>3. CASE D!Block
  BY <1>3, NothingAssumption DEF D!Block
<1>4. CASE D!Begin
  BY <1>4, NothingAssumption DEF D!Begin
<1>5. CASE D!WorkerFails
  BY <1>5, NothingAssumption DEF D!WorkerFails
<1>6. CASE D!Die
  BY <1>6, NothingAssumption DEF D!Die
<1>7. ASSUME NEW e \in SUBSET Evidence, D!Return(e) PROVE DelegationInv'
  BY <1>7, NothingAssumption DEF D!Return
<1>8. ASSUME NEW e \in SUBSET Evidence, D!Verify(e) PROVE DelegationInv'
  <2>1. e # Nothing
    BY NothingAssumption
  <2> QED BY <1>8, <2>1, NothingAssumption DEF D!Verify, D!StatusAfter
<1>9. ASSUME NEW d \in {"accepted", "rejected", "limited", "blocked"}, NEW e \in SUBSET Evidence,
             D!Dispose(d, e)
      PROVE DelegationInv'
  BY <1>9, NothingAssumption DEF D!Dispose, D!Admitted, D!Fallback
<1>10. CASE UNCHANGED delegationVars
  BY <1>10 DEF delegationVars
<1> QED BY <1>3, <1>4, <1>5, <1>6, <1>7, <1>8, <1>9, <1>10, Zenon

LEMMA DelegationNext == DelegationInv /\ [D!Next]_delegationVars => DelegationInv'
<1> SUFFICES ASSUME DelegationInv, [D!Next]_delegationVars PROVE DelegationInv'
  OBVIOUS
<1>0. "calls" \in D!Kinds /\ used \in D!Used
  BY DEF D!Kinds, DelegationInv, D!TypeOK
<1>1. ASSUME NEW q \in 0..MaxCost, NEW c \in Nat, c = 0 \/ c <= q + Overrun, D!CallModel(q, c)
      PROVE DelegationInv'
  <2>1. q \in Nat
    BY BoundsAssumption
  <2>2. /\ stage = "working" /\ D!Left("calls") /\ D!Affordable(q)
        /\ used' = [count |-> [used.count EXCEPT !["calls"] = @ + 1], cost |-> used.cost + c]
        /\ UNCHANGED <<request, policy, stage, result, verified, status, receipt>>
    BY <1>0, <1>1 DEF D!CallModel, D!Used
  <2> QED BY <1>0, <1>1, <2>1, <2>2, DelegationUse
<1>2. ASSUME NEW k \in D!Kinds, D!Use(k) PROVE DelegationInv'
  <2>1. /\ stage = "working" /\ D!Left(k)
        /\ used' = [used EXCEPT !.count[k] = @ + 1]
        /\ UNCHANGED <<request, policy, stage, result, verified, status, receipt>>
    BY <1>2 DEF D!Use
  <2>2. used' = [count |-> [used.count EXCEPT ![k] = @ + 1], cost |-> used.cost]
    BY <1>0, <2>1 DEF D!Used
  <2>4. used.cost = used.cost + 0
    BY <1>0 DEF D!Used
  <2>3. 0 \in Nat
    OBVIOUS
  <2> QED BY <2>1, <2>2, <2>3, <2>4, DelegationUse
<1>3. ASSUME D!ModelFails PROVE DelegationInv'
  BY <1>1, <1>3 DEF D!ModelFails
<1>4. ASSUME NEW q \in 0..MaxCost, NEW c \in 0..q + Overrun, D!CallModel(q, c) PROVE DelegationInv'
  <2>1. c \in Nat /\ c <= q + Overrun
    BY BoundsAssumption
  <2> QED BY <1>1, <1>4, <2>1
<1> QED BY <1>2, <1>3, <1>4, DelegationRest DEF D!Next

-----------------------------------------------------------------------------
(* Forecasts.                                                              *)

Entry == [says : Contents, supersedes : Forecasts \cup {Nothing}]
Revision == [id : Forecasts, proposed : Entry,
             status : {"proposed", "deferred", "rejected", "accepted"}]

\* The forecast e supersedes none, or one that was agreed to, by as.
Rests(as, e) == e.supersedes = Nothing \/ as[e.supersedes] # Nothing

\* What is active was agreed to, and what is revised was active; what was agreed
\* to is kept unless a proposal has been saved over it.
ForecastsInv ==
    /\ F!TypeOK
    /\ inuse # Nothing => settled[inuse] # Nothing
    /\ \A f \in Forecasts : forecasts[f] # Nothing => Rests(settled, forecasts[f])
    /\ \A p \in Proposals : proposals[p] # Nothing => Rests(settled, proposals[p].proposed)
    /\ \A f \in Forecasts : settled[f] # Nothing =>
          forecasts[f] # Nothing /\ (f \notin overwritten => forecasts[f] = settled[f])

LEMMA ForecastsInit == F!Init => ForecastsInv
BY DEF F!Init, ForecastsInv, F!TypeOK

LEMMA ForecastsTyped ==
    ASSUME ForecastsInv
    PROVE  /\ forecasts \in [Forecasts -> Entry \cup {Nothing}]
           /\ settled \in [Forecasts -> Entry \cup {Nothing}]
           /\ inuse \in Forecasts \cup {Nothing}
           /\ proposals \in [Proposals -> Revision \cup {Nothing}]
           /\ overwritten \in SUBSET Forecasts
           /\ Nothing \notin Entry /\ Nothing \notin Revision /\ Nothing \notin Forecasts
<1>1. F!Forecast = Entry
  BY DEF F!Forecast, Entry
<1>2. Nothing \notin Entry /\ Nothing \notin Revision /\ Nothing \notin Forecasts
  BY NothingAssumption DEF Entry, Revision
<1> QED BY <1>1, <1>2 DEF ForecastsInv, F!TypeOK, Revision

\* A forecast that rests on what was agreed to is saved, agreed to or proposed.
LEMMA ForecastsStep ==
    ASSUME ForecastsInv, NEW f \in Forecasts, NEW e \in Entry, Rests(settled, e),
           forecasts' = [forecasts EXCEPT ![f] = e],
           proposals' \in [Proposals -> Revision \cup {Nothing}],
           \A p \in Proposals : proposals'[p] # Nothing => Rests(settled, proposals'[p].proposed),
           \/ /\ inuse' = f /\ settled' = [settled EXCEPT ![f] = e]
              /\ overwritten' = overwritten \ {f}
           \/ /\ inuse' = inuse /\ settled' = settled
              /\ overwritten' = overwritten \cup {f}
    PROVE  ForecastsInv'
<1>1. /\ forecasts \in [Forecasts -> Entry \cup {Nothing}]
      /\ settled \in [Forecasts -> Entry \cup {Nothing}]
      /\ inuse \in Forecasts \cup {Nothing} /\ overwritten \in SUBSET Forecasts
      /\ Nothing \notin Entry /\ Nothing \notin Forecasts
  BY ForecastsTyped
<1>2. /\ forecasts' \in [Forecasts -> Entry \cup {Nothing}] /\ forecasts'[f] = e
      /\ \A g \in Forecasts : g # f => forecasts'[g] = forecasts[g]
  BY <1>1
<1>3. /\ settled' \in [Forecasts -> Entry \cup {Nothing}]
      /\ \A g \in Forecasts : g # f => settled'[g] = settled[g]
      /\ settled'[f] = e \/ settled'[f] = settled[f]
      /\ \A g \in Forecasts : settled[g] # Nothing => settled'[g] # Nothing
  BY <1>1
<1>4. F!TypeOK'
  <2>1. inuse' \in Forecasts \cup {Nothing} /\ overwritten' \in SUBSET Forecasts
    BY <1>1
  <2> QED BY <1>2, <1>3, <2>1 DEF F!TypeOK, F!Forecast, Entry, Revision
<1>5. ASSUME NEW d \in Entry, Rests(settled, d) PROVE Rests(settled', d)
  BY <1>3, <1>5 DEF Rests, Entry
<1>6. \A g \in Forecasts : forecasts'[g] # Nothing => Rests(settled', forecasts'[g])
  <2> SUFFICES ASSUME NEW g \in Forecasts, forecasts'[g] # Nothing
               PROVE  Rests(settled', forecasts'[g])
    OBVIOUS
  <2>1. forecasts'[g] \in Entry
    BY <1>2
  <2>2. Rests(settled, forecasts'[g])
    BY <1>2 DEF ForecastsInv
  <2> QED BY <1>5, <2>1, <2>2
<1>7. \A p \in Proposals : proposals'[p] # Nothing => Rests(settled', proposals'[p].proposed)
  <2> SUFFICES ASSUME NEW p \in Proposals, proposals'[p] # Nothing
               PROVE  Rests(settled', proposals'[p].proposed)
    OBVIOUS
  <2>1. proposals'[p].proposed \in Entry
    BY DEF Revision
  <2> QED BY <1>5, <2>1
<1>8. inuse' # Nothing => settled'[inuse'] # Nothing
  BY <1>1, <1>3 DEF ForecastsInv
<1>9. \A g \in Forecasts : settled'[g] # Nothing =>
          forecasts'[g] # Nothing /\ (g \notin overwritten' => forecasts'[g] = settled'[g])
  BY <1>1, <1>2, <1>3 DEF ForecastsInv
<1> QED BY <1>4, <1>6, <1>7, <1>8, <1>9 DEF ForecastsInv

LEMMA ForecastsNext == ForecastsInv /\ [F!Next]_forecastVars => ForecastsInv'
<1> SUFFICES ASSUME ForecastsInv, [F!Next]_forecastVars PROVE ForecastsInv'
  OBVIOUS
<1>0. /\ proposals \in [Proposals -> Revision \cup {Nothing}] /\ inuse \in Forecasts \cup {Nothing}
      /\ Nothing \notin Revision
      /\ \A p \in Proposals : proposals[p] # Nothing => Rests(settled, proposals[p].proposed)
  BY ForecastsTyped DEF ForecastsInv
<1>1. ASSUME NEW f \in Forecasts, NEW c \in Contents, F!CreateConfirmed(f, c)
      PROVE  ForecastsInv'
  <2> DEFINE new == [says |-> c, supersedes |-> Nothing]
  <2>1. new \in Entry /\ Rests(settled, new)
    BY DEF Entry, Rests
  <2>2. /\ forecasts' = [forecasts EXCEPT ![f] = new] /\ proposals' = proposals
        /\ inuse' = f /\ settled' = [settled EXCEPT ![f] = new]
        /\ overwritten' = overwritten \ {f}
    BY <1>1 DEF F!CreateConfirmed, F!Agree
  <2> HIDE DEF new
  <2> QED BY <1>0, <2>1, <2>2, ForecastsStep
<1>2. ASSUME NEW p \in Proposals, NEW f \in Forecasts, NEW c \in Contents,
             F!ProposeRevision(p, f, c)
      PROVE  ForecastsInv'
  <2> DEFINE new == [says |-> c, supersedes |-> inuse]
             asked == [id |-> f, proposed |-> new, status |-> "proposed"]
  <2>1. /\ inuse # Nothing /\ forecasts' = [forecasts EXCEPT ![f] = new]
        /\ proposals' = [proposals EXCEPT ![p] = asked]
        /\ inuse' = inuse /\ settled' = settled
        /\ overwritten' = overwritten \cup {f}
    BY <1>2 DEF F!ProposeRevision, F!ActiveAfterProposal
  <2>2. new \in Entry /\ Rests(settled, new)
    BY <1>0, <2>1 DEF Entry, Rests, ForecastsInv
  <2>3. asked \in Revision /\ asked.proposed = new
    BY <2>2 DEF Revision
  <2> HIDE DEF new, asked
  <2>4. /\ proposals' \in [Proposals -> Revision \cup {Nothing}]
        /\ \A q \in Proposals : proposals'[q] # Nothing => Rests(settled, proposals'[q].proposed)
    BY <1>0, <2>1, <2>2, <2>3
  <2> QED BY <2>1, <2>2, <2>4, ForecastsStep
<1>3. ASSUME NEW p \in Proposals, proposals[p] # Nothing,
             NEW st \in {"deferred", "rejected", "accepted"},
             proposals' = [proposals EXCEPT ![p].status = st]
      PROVE  /\ proposals[p].id \in Forecasts /\ proposals[p].proposed \in Entry
             /\ Rests(settled, proposals[p].proposed)
             /\ proposals' \in [Proposals -> Revision \cup {Nothing}]
             /\ \A q \in Proposals :
                   proposals'[q] # Nothing => Rests(settled, proposals'[q].proposed)
  <2> DEFINE answered == [proposals[p] EXCEPT !.status = st]
  <2>1. proposals[p] \in Revision
    BY <1>0, <1>3
  <2>2. /\ proposals[p].id \in Forecasts /\ proposals[p].proposed \in Entry
        /\ answered \in Revision /\ answered.proposed = proposals[p].proposed
    BY <2>1 DEF Revision
  <2>3. proposals' = [proposals EXCEPT ![p] = answered]
    BY <1>0, <1>3
  <2> HIDE DEF answered
  <2> QED BY <1>0, <1>3, <2>2, <2>3
<1>4. ASSUME NEW p \in Proposals, NEW st \in {"deferred", "rejected"}, F!SetStatus(p, st)
      PROVE ForecastsInv'
  <2>1. /\ proposals[p] # Nothing /\ proposals' = [proposals EXCEPT ![p].status = st]
        /\ forecasts' = forecasts /\ inuse' = inuse /\ settled' = settled
        /\ overwritten' = overwritten
    BY <1>4 DEF F!SetStatus
  <2>2. /\ proposals' \in [Proposals -> Revision \cup {Nothing}]
        /\ \A q \in Proposals : proposals'[q] # Nothing => Rests(settled, proposals'[q].proposed)
    BY <1>3, <2>1
  <2>3. F!TypeOK'
    BY <2>1, <2>2 DEF ForecastsInv, F!TypeOK, F!Forecast, Entry, Revision
  <2> QED BY <2>1, <2>2, <2>3 DEF ForecastsInv
<1>5. ASSUME NEW p \in Proposals, F!AcceptRevision(p) PROVE ForecastsInv'
  <2> DEFINE f == proposals[p].id
             e == proposals[p].proposed
  <2>1. /\ proposals[p] # Nothing /\ proposals' = [proposals EXCEPT ![p].status = "accepted"]
        /\ forecasts' = [forecasts EXCEPT ![f] = e]
        /\ inuse' = f /\ settled' = [settled EXCEPT ![f] = e]
        /\ overwritten' = overwritten \ {f}
    BY <1>5 DEF F!AcceptRevision, F!Accepted, F!Agree
  <2>2. /\ f \in Forecasts /\ e \in Entry /\ Rests(settled, e)
        /\ proposals' \in [Proposals -> Revision \cup {Nothing}]
        /\ \A q \in Proposals : proposals'[q] # Nothing => Rests(settled, proposals'[q].proposed)
    BY <1>3, <2>1
  <2> HIDE DEF f, e
  <2> QED BY <2>1, <2>2, ForecastsStep
<1>6. CASE UNCHANGED forecastVars
  BY <1>6 DEF forecastVars, ForecastsInv, F!TypeOK
<1> QED BY <1>1, <1>2, <1>4, <1>5, <1>6 DEF F!Next

\* What was agreed to is closed under what it supersedes, so that what the active
\* forecast rests on was agreed to.
LEMMA LineSettled == ForecastsInv => F!ActiveLineWasAgreed
<1> SUFFICES ASSUME ForecastsInv, inuse # Nothing, NEW f \in F!Line(inuse)
             PROVE  settled[f] # Nothing /\ (f \notin overwritten => forecasts[f] = settled[f])
  BY DEF F!ActiveLineWasAgreed
<1> DEFINE Kept == {g \in Forecasts : settled[g] # Nothing}
<1>1. Kept \in SUBSET {h \in Forecasts : forecasts[h] # Nothing}
  BY DEF ForecastsInv
<1>2. inuse \in Kept
  BY ForecastsTyped DEF ForecastsInv
<1>3. \A g \in Kept : forecasts[g].supersedes # Nothing => forecasts[g].supersedes \in Kept
  <2> TAKE g \in Kept
  <2> HAVE forecasts[g].supersedes # Nothing
  <2>1. forecasts[g] # Nothing /\ g \in Forecasts
    BY <1>1
  <2>2. forecasts[g].supersedes \in Forecasts
    BY <2>1, ForecastsTyped DEF Entry
  <2>3. Rests(settled, forecasts[g])
    BY <2>1 DEF ForecastsInv
  <2> QED BY <2>2, <2>3 DEF Rests
<1> HIDE DEF Kept
<1>4. f \in Kept
  BY <1>1, <1>2, <1>3 DEF F!Line
<1> QED BY <1>4 DEF Kept, ForecastsInv

-----------------------------------------------------------------------------
(* Setup migration.                                                        *)

\* A plan lists the record and whatever is not current, and will make it so.
Planned ==
    /\ InstanceFile \in DOMAIN plan
    /\ plan \in [DOMAIN plan -> M!Content]
    /\ \A f \in DOMAIN plan : plan[f].current
    /\ \A f \in M!Files : f \notin DOMAIN plan => live[f].current
    /\ phase = "plan" => \A f \in DOMAIN plan : plan[f].edit <= live[f].edit
    /\ phase \in {"plan", "backup"} => ~live[InstanceFile].current

\* What a rollback would put back is no older than the plan.
Captured ==
    /\ saved \in [DOMAIN plan -> M!Content]
    /\ ~saved[InstanceFile].current
    /\ \A f \in DOMAIN plan : plan[f].edit <= saved[f].edit

\* What a file that was not edited since its backup holds: what was captured, or
\* what its backup holds, or no more than what was captured.  A rollback may
\* have found it any of these.
BackedUp(f) == bak[f] # Nothing /\ bak[f].edit = live[f].edit
Behind ==
    \A f \in DOMAIN plan :
        f \notin missed =>
            CASE phase = "backup" /\ f \in left -> live[f].edit = saved[f].edit
              [] phase = "replace" /\ f \notin left -> live[f].edit <= saved[f].edit
              [] phase = "undo" -> live[f].edit <= saved[f].edit \/ BackedUp(f)
              [] OTHER -> BackedUp(f)

Replacing ==
    /\ InstanceFile \in left => ~live[InstanceFile].current
    /\ \A f \in DOMAIN plan : f \notin left => live[f].current

MigrationInv ==
    /\ M!TypeOK /\ M!RecordComesLast
    /\ phase \in {"off", "plan"} => left = {}
    /\ phase # "off" => Planned
    /\ phase \in {"backup", "replace", "undo"} => Captured /\ Behind
    /\ phase = "replace" => Replacing
    /\ phase = "undo" /\ ~planTorn => ~live[InstanceFile].current

LEMMA MigrationInit == M!Init => MigrationInv
<1> SUFFICES ASSUME M!Init PROVE MigrationInv
  OBVIOUS
<1>1. PICK old \in SUBSET Others :
          live = [f \in M!Files |-> [edit |-> 0, current |-> f \notin old \cup {InstanceFile}]]
  BY DEF M!Init
<1>2. live \in [M!Files -> M!Content] /\ InstanceFile \in M!Files /\ ~live[InstanceFile].current
  <2>1. InstanceFile \in M!Files /\ 0 \in 0..MaxEdits
    BY BoundsAssumption DEF M!Files
  <2>2. ASSUME NEW f \in M!Files PROVE live[f] \in M!Content
    <3>1. (f \notin old \cup {InstanceFile}) \in BOOLEAN
      OBVIOUS
    <3>2. live[f] = [edit |-> 0, current |-> f \notin old \cup {InstanceFile}]
      BY <1>1
    <3> DEFINE current == f \notin old \cup {InstanceFile}
    <3>3. live[f] = [edit |-> 0, current |-> current] /\ current \in BOOLEAN
      BY <3>1, <3>2
    <3> HIDE DEF current
    <3> QED BY <2>1, <3>3 DEF M!Content
  <2>3. live[InstanceFile].current = (InstanceFile \notin old \cup {InstanceFile})
    BY <1>1, <2>1
  <2>4. live = [f \in M!Files |-> live[f]]
    BY <1>1
  <2> QED BY <2>1, <2>2, <2>3, <2>4
<1> QED BY <1>2 DEF M!Init, MigrationInv, M!TypeOK, M!RecordComesLast, M!RecordNamesCurrentFiles, M!None

LEMMA MigrationTyped ==
    ASSUME MigrationInv
    PROVE  /\ live \in [M!Files -> M!Content] /\ bak \in [M!Files -> M!Content \cup {Nothing}]
           /\ \A f \in M!Files : live[f].edit \in Nat /\ live[f].current \in BOOLEAN
           /\ Nothing \notin M!Content
           /\ DOMAIN plan \subseteq M!Files /\ left \subseteq DOMAIN plan
           /\ InstanceFile \in M!Files /\ Others \subseteq M!Files /\ InstanceFile \notin Others
           /\ \A f \in M!Files : f = InstanceFile \/ f \in Others
<1>1. /\ live \in [M!Files -> M!Content] /\ bak \in [M!Files -> M!Content \cup {Nothing}]
      /\ DOMAIN plan \subseteq M!Files /\ left \subseteq DOMAIN plan
  BY DEF MigrationInv, M!TypeOK
<1>2. M!Content \subseteq [edit : Nat, current : BOOLEAN]
  BY BoundsAssumption DEF M!Content
<1> QED BY <1>1, <1>2, NothingAssumption, FileAssumption DEF M!Files

\* Nothing runs, and the files are as they were or as they were captured.
LEMMA MigrationStops ==
    ASSUME MigrationInv, M!Idle, live' \in [M!Files -> M!Content], M!RecordComesLast',
           UNCHANGED bak
    PROVE  MigrationInv'
<1>1. phase' = "off" /\ plan' = M!None /\ left' = {}
  BY DEF M!Idle
<1>2. M!TypeOK'
  BY <1>1 DEF MigrationInv, M!TypeOK, M!None
<1> QED BY <1>1, <1>2 DEF MigrationInv

\* The steps between the phases.
LEMMA MigrationPhases ==
    ASSUME MigrationInv, M!Plan \/ M!Stop \/ M!Confirm \/ M!Stage \/ M!Finish \/ M!EndRollback
    PROVE  MigrationInv'
<1>0. live' = live /\ bak' = bak /\ missed' = missed /\ M!RecordComesLast'
      /\ live' \in [M!Files -> M!Content]
  <2>1. M!Confirm => ~live[InstanceFile].current
    BY DEF M!Confirm, MigrationInv, Planned
  <2> QED BY <2>1 DEF M!Plan, M!Stop, M!Confirm, M!Stage, M!Finish, M!EndRollback, MigrationInv,
             M!RecordComesLast, M!RecordNamesCurrentFiles, M!TypeOK
<1>1. CASE M!Plan
  <2>1. /\ phase = "off" /\ phase' = "plan" /\ ~live[InstanceFile].current
        /\ plan' = [f \in {g \in M!Files : ~live[g].current} |-> M!Migrated(f)]
        /\ UNCHANGED <<live, bak, saved, left, missed>>
    BY <1>1 DEF M!Plan
  <2>2. DOMAIN plan' = {g \in M!Files : ~live[g].current}
    BY <2>1
  <2>3. \A f \in DOMAIN plan' :
            plan'[f] \in M!Content /\ plan'[f].current /\ plan'[f].edit = live[f].edit
    BY <2>1, <2>2, MigrationTyped DEF M!Migrated, M!Content
  <2>4. plan' \in [DOMAIN plan' -> M!Content]
    BY <2>1, <2>2, <2>3
  <2>5. left' = {} /\ M!TypeOK'
    <3>1. left' = {}
      BY <2>1 DEF MigrationInv
    <3>2. DOMAIN plan' \subseteq M!Files
      BY <2>2
    <3> QED BY <2>1, <3>1, <3>2, MigrationTyped DEF M!TypeOK
  <2>6. \A f \in DOMAIN plan' : plan'[f].edit <= live'[f].edit
    <3> TAKE f \in DOMAIN plan'
    <3>1. f \in M!Files
      BY <2>2
    <3>2. live[f].edit \in Nat /\ plan'[f].edit = live[f].edit /\ live'[f].edit = live[f].edit
      <4>1. plan'[f].edit = live[f].edit
        BY <2>3
      <4>2. live[f].edit \in Nat
        BY <3>1, MigrationTyped
      <4> QED BY <2>1, <4>1, <4>2, Zenon
    <3> QED BY <3>2
  <2>7. Planned'
    BY <2>1, <2>2, <2>3, <2>4, <2>6, MigrationTyped DEF Planned
  <2> QED BY <1>0, <2>1, <2>5, <2>7 DEF MigrationInv
<1>2. CASE M!Stop \/ M!Finish \/ M!EndRollback
  BY <1>0, <1>2, MigrationStops DEF M!Stop, M!Finish, M!EndRollback
<1>3. CASE M!Confirm
  <2>1. /\ phase = "plan" /\ phase' = "backup"
        /\ saved' = [f \in DOMAIN plan |-> live[f]] /\ left' = DOMAIN plan
        /\ UNCHANGED <<live, bak, plan, missed>> /\ Planned
    BY <1>3 DEF M!Confirm, MigrationInv
  <2>2. \A f \in DOMAIN plan : saved'[f] = live[f] /\ saved'[f] \in M!Content
    BY <2>1, MigrationTyped
  <2>3. Captured'
    BY <2>1, <2>2 DEF Captured, Planned
  <2>4. Behind'
    BY <2>1, <2>2 DEF Behind
  <2>5. Planned' /\ M!TypeOK'
    BY <2>1 DEF Planned, MigrationInv, M!TypeOK
  <2> QED BY <1>0, <2>1, <2>3, <2>4, <2>5 DEF MigrationInv
<1>4. CASE M!Stage
  <2>1. /\ phase = "backup" /\ phase' = "replace" /\ left = {} /\ left' = DOMAIN plan
        /\ UNCHANGED <<live, bak, plan, saved, missed>> /\ Planned /\ Captured /\ Behind
    BY <1>4 DEF M!Stage, MigrationInv
  <2>2. Behind'
    <3> SUFFICES ASSUME NEW f \in DOMAIN plan, f \notin missed PROVE BackedUp(f)'
      BY <2>1 DEF Behind
    <3>1. BackedUp(f)
      BY <2>1 DEF Behind
    <3> QED BY <2>1, <3>1 DEF BackedUp
  <2>3. Captured' /\ Planned' /\ Replacing' /\ M!TypeOK'
    BY <2>1 DEF Captured, Planned, Replacing, MigrationInv, M!TypeOK
  <2> QED BY <1>0, <2>1, <2>2, <2>3 DEF MigrationInv
<1> QED BY <1>1, <1>2, <1>3, <1>4

LEMMA MigrationBackup ==
    ASSUME MigrationInv, NEW f \in M!Files, M!Backup(f)
    PROVE  MigrationInv'
<1>1. /\ phase = "backup" /\ f \in left /\ f \in DOMAIN plan
      /\ bak' = [bak EXCEPT ![f] = live[f]] /\ left' = left \ {f} /\ missed' = missed \ {f}
      /\ UNCHANGED <<live, phase, plan, saved, planTorn>> /\ Planned /\ Captured /\ Behind
  BY MigrationTyped DEF M!Backup, M!Ready, MigrationInv
<1>2. /\ bak'[f] = live[f] /\ bak'[f] # Nothing /\ \A g \in M!Files : g # f => bak'[g] = bak[g]
      /\ bak' \in [M!Files -> M!Content \cup {Nothing}]
  BY <1>1, MigrationTyped
<1>3. Behind'
  <2> SUFFICES ASSUME NEW g \in DOMAIN plan, g \notin missed'
               PROVE  IF g \in left' THEN live[g].edit = saved[g].edit ELSE BackedUp(g)'
    BY <1>1 DEF Behind
  <2>1. CASE g = f
    BY <1>1, <1>2, <2>1 DEF BackedUp
  <2>2. CASE g # f
    <3>1. IF g \in left THEN live[g].edit = saved[g].edit ELSE BackedUp(g)
      BY <1>1, <2>2 DEF Behind
    <3>2. g \in M!Files
      BY MigrationTyped
    <3> QED BY <1>1, <1>2, <2>2, <3>1, <3>2 DEF BackedUp
  <2> QED BY <2>1, <2>2
<1>4. Planned' /\ Captured' /\ M!TypeOK' /\ M!RecordComesLast'
  BY <1>1, <1>2 DEF Planned, Captured, MigrationInv, M!TypeOK, M!RecordComesLast,
     M!RecordNamesCurrentFiles
<1> QED BY <1>1, <1>3, <1>4 DEF MigrationInv

LEMMA MigrationReplace ==
    ASSUME MigrationInv, NEW f \in M!Files, M!Replace(f)
    PROVE  MigrationInv'
<1>1. /\ phase = "replace" /\ f \in left /\ f \in DOMAIN plan
      /\ f = InstanceFile => left = {InstanceFile}
      /\ live' = [live EXCEPT ![f] = plan[f]] /\ left' = left \ {f}
      /\ UNCHANGED <<bak, phase, plan, saved, missed, planTorn>> /\ Planned /\ Captured /\ Behind /\ Replacing
  BY MigrationTyped DEF M!Replace, M!Ready, MigrationInv
<1>2. /\ live'[f] = plan[f] /\ plan[f].current /\ plan[f] \in M!Content
      /\ \A g \in M!Files : g # f => live'[g] = live[g]
      /\ live' \in [M!Files -> M!Content]
  BY <1>1, MigrationTyped DEF Planned
<1>3. Behind'
  <2> SUFFICES ASSUME NEW g \in DOMAIN plan, g \notin missed
               PROVE  IF g \in left' THEN BackedUp(g)' ELSE live'[g].edit <= saved[g].edit
    BY <1>1 DEF Behind
  <2>1. CASE g = f
    BY <1>1, <1>2, <2>1 DEF Captured
  <2>2. CASE g # f
    <3>1. IF g \in left THEN BackedUp(g) ELSE live[g].edit <= saved[g].edit
      BY <1>1, <2>2 DEF Behind
    <3>2. g \in M!Files
      BY MigrationTyped
    <3> QED BY <1>1, <1>2, <2>2, <3>1, <3>2 DEF BackedUp
  <2> QED BY <2>1, <2>2
<1>4. Replacing'
  BY <1>1, <1>2, MigrationTyped DEF Replacing
<1>5. M!RecordComesLast'
  <2>1. CASE f = InstanceFile
    <3>1. ASSUME NEW g \in Others PROVE live'[g].current
      <4>1. g # f /\ g \in M!Files /\ g \notin left
        BY <1>1, <2>1, MigrationTyped
      <4>2. live[g].current
        BY <1>1, <4>1 DEF Planned, Replacing
      <4> QED BY <1>2, <4>1, <4>2
    <3> QED BY <3>1 DEF M!RecordComesLast, M!RecordNamesCurrentFiles
  <2>2. CASE f # InstanceFile
    BY <1>1, <1>2, <2>2, MigrationTyped DEF MigrationInv, M!RecordComesLast,
       M!RecordNamesCurrentFiles
  <2> QED BY <2>1, <2>2
<1>6. Planned' /\ Captured' /\ M!TypeOK'
  BY <1>1, <1>2 DEF Planned, Captured, MigrationInv, M!TypeOK
<1> QED BY <1>1, <1>3, <1>4, <1>5, <1>6 DEF MigrationInv

\* A rollback begins with the record not replaced yet, or as a torn one.
LEMMA MigrationRollback == MigrationInv /\ M!Rollback => MigrationInv'
<1> SUFFICES ASSUME MigrationInv, M!Rollback PROVE MigrationInv'
  OBVIOUS
<1>1. /\ phase \in {"backup", "replace"} /\ phase' = "undo" /\ left' = DOMAIN plan
      /\ planTorn' = (phase = "replace" /\ InstanceFile \notin left)
      /\ UNCHANGED <<live, bak, plan, saved, missed>> /\ Planned /\ Captured /\ Behind
  BY DEF M!Rollback, MigrationInv
<1>2. ~planTorn' => ~live'[InstanceFile].current
  BY <1>1 DEF MigrationInv, Planned, Replacing
<1>3. Behind'
  <2> SUFFICES ASSUME NEW f \in DOMAIN plan, f \notin missed
               PROVE  live[f].edit <= saved[f].edit \/ BackedUp(f)
    BY <1>1 DEF Behind, BackedUp
  <2>1. \/ live[f].edit = saved[f].edit \/ live[f].edit <= saved[f].edit
        \/ BackedUp(f)
    BY <1>1 DEF Behind
  <2>2. live[f].edit \in Nat
    BY MigrationTyped
  <2> QED BY <2>1, <2>2
<1>4. Planned' /\ Captured' /\ M!TypeOK' /\ M!RecordComesLast'
  BY <1>1, <1>2 DEF Planned, Captured, MigrationInv, M!TypeOK, M!RecordComesLast,
     M!RecordNamesCurrentFiles
<1> QED BY <1>1, <1>2, <1>3, <1>4 DEF MigrationInv

\* The record is captured before its replacement, so what comes back is not current.
LEMMA MigrationRestore ==
    ASSUME MigrationInv, NEW f \in M!Files, NEW ok \in BOOLEAN, M!Restore(f, ok)
    PROVE  MigrationInv'
<1>1. /\ phase = "undo" /\ f \in DOMAIN plan
      /\ live' = IF ok THEN [live EXCEPT ![f] = saved[f]] ELSE live
      /\ left' = left \ {f}
      /\ UNCHANGED <<bak, phase, plan, saved, missed, planTorn>>
      /\ Planned /\ Captured /\ Behind
  BY MigrationTyped DEF M!Restore, M!Ready, MigrationInv
<1>2. /\ live'[f] = live[f] \/ live'[f] = saved[f]
      /\ \A g \in M!Files : g # f => live'[g] = live[g]
      /\ live' \in [M!Files -> M!Content] /\ saved[f] \in M!Content
  BY <1>1, MigrationTyped DEF Captured
<1>3. Behind'
  <2> SUFFICES ASSUME NEW g \in DOMAIN plan, g \notin missed
               PROVE  live'[g].edit <= saved[g].edit \/ BackedUp(g)'
    BY <1>1 DEF Behind
  <2>1. live[g].edit <= saved[g].edit \/ BackedUp(g)
    BY <1>1 DEF Behind
  <2>2. CASE live'[g] = live[g]
    BY <1>1, <2>1, <2>2 DEF BackedUp
  <2>3. CASE g = f /\ live'[f] = saved[f]
    <3>1. saved[f].edit \in Nat
      BY <1>2, BoundsAssumption DEF M!Content
    <3> QED BY <2>3, <3>1
  <2> QED BY <1>2, <2>2, <2>3, MigrationTyped
<1>4. ~planTorn' => ~live'[InstanceFile].current
  BY <1>1, <1>2, MigrationTyped DEF MigrationInv, Captured
<1>5. Planned' /\ Captured' /\ M!TypeOK' /\ M!RecordComesLast'
  <2>1. Planned'
    BY <1>1, <1>2 DEF Planned
  <2> QED BY <1>1, <1>2, <1>4, <2>1 DEF Captured, MigrationInv, M!TypeOK, M!RecordComesLast,
             M!RecordNamesCurrentFiles
<1> QED BY <1>1, <1>3, <1>4, <1>5 DEF MigrationInv

LEMMA MigrationEdit ==
    ASSUME MigrationInv, NEW f \in M!Files, M!Edit(f)
    PROVE  MigrationInv'
<1>1. /\ f \in Others /\ live[f].edit < MaxEdits
      /\ live' = [live EXCEPT ![f].edit = @ + 1]
      /\ missed' = IF phase \in {"backup", "replace", "undo"} THEN missed \cup {f} ELSE missed
      /\ UNCHANGED <<bak, phase, plan, saved, left, planTorn>>
  BY DEF M!Edit
<1>2. /\ live'[f].edit = live[f].edit + 1 /\ live'[f].current = live[f].current
      /\ live' \in [M!Files -> M!Content]
      /\ \A g \in M!Files : g # f => live'[g] = live[g]
  <2>1. live[f].edit \in 0..MaxEdits /\ live[f].current \in BOOLEAN
    BY MigrationTyped DEF M!Content
  <2>2. [live[f] EXCEPT !.edit = @ + 1] = [edit |-> live[f].edit + 1, current |-> live[f].current]
    BY MigrationTyped DEF M!Content
  <2>3. live[f].edit + 1 \in 0..MaxEdits
    BY <1>1, <2>1, BoundsAssumption
  <2> QED BY <1>1, <2>1, <2>2, <2>3, MigrationTyped DEF M!Content
<1>3. \A g \in M!Files : live'[g].current = live[g].current
  BY <1>2
<1>4. M!RecordComesLast' /\ M!TypeOK'
  BY <1>1, <1>2, <1>3, MigrationTyped DEF MigrationInv, M!RecordComesLast,
     M!RecordNamesCurrentFiles, M!TypeOK
<1>5. ASSUME phase # "off" PROVE Planned'
  <2>1. Planned /\ \A g \in DOMAIN plan : plan[g].edit \in Nat /\ g \in M!Files /\ live[g].edit \in Nat
    BY <1>5, MigrationTyped, BoundsAssumption DEF MigrationInv, Planned, M!Content
  <2>2. phase = "plan" => \A g \in DOMAIN plan : plan[g].edit <= live'[g].edit
    BY <1>2, <2>1 DEF Planned
  <2> QED BY <1>1, <1>3, <2>1, <2>2, MigrationTyped DEF Planned
<1>6. ASSUME phase \in {"backup", "replace", "undo"} PROVE Captured' /\ Behind'
  <2>1. Captured'
    BY <1>1, <1>6 DEF MigrationInv, Captured
  <2>2. Behind /\ missed' = missed \cup {f}
    BY <1>1, <1>6 DEF MigrationInv
  <2>3. \A g \in DOMAIN plan : g \notin missed' =>
            g \notin missed /\ live'[g] = live[g] /\ (BackedUp(g)' <=> BackedUp(g))
    BY <1>1, <1>2, <2>2, MigrationTyped DEF BackedUp
  <2>4. Behind'
    BY <1>1, <2>2, <2>3 DEF Behind
  <2> QED BY <2>1, <2>4
<1>7. /\ phase = "replace" => Replacing'
      /\ phase = "undo" /\ ~planTorn' => ~live'[InstanceFile].current
  BY <1>1, <1>3, MigrationTyped DEF MigrationInv, Replacing
<1> QED BY <1>1, <1>4, <1>5, <1>6, <1>7 DEF MigrationInv

LEMMA MigrationNext == MigrationInv /\ [M!Next]_migrationVars => MigrationInv'
<1> SUFFICES ASSUME MigrationInv, [M!Next]_migrationVars PROVE MigrationInv'
  OBVIOUS
<1>1. CASE UNCHANGED migrationVars
  BY <1>1 DEF migrationVars, MigrationInv, M!TypeOK, M!RecordComesLast,
     M!RecordNamesCurrentFiles, Planned, Captured, Behind,
     BackedUp, Replacing
<1> QED BY <1>1, MigrationPhases, MigrationBackup, MigrationReplace, MigrationRollback,
           MigrationRestore, MigrationEdit DEF M!Next

\* An edit that goes was backed up, or came after the backup.
EditIsKept ==
    \A f \in Others :
         live'[f].edit < live[f].edit =>
            f \in missed \/ (bak[f] # Nothing /\ bak[f].edit = live[f].edit)

LEMMA MigrationKeeps == MigrationInv /\ [M!Next]_migrationVars => EditIsKept
<1> SUFFICES ASSUME MigrationInv, [M!Next]_migrationVars, NEW f \in Others,
                    live'[f].edit < live[f].edit, f \notin missed
             PROVE  BackedUp(f)
  BY DEF EditIsKept, BackedUp
<1>0. f \in M!Files /\ live[f].edit \in Nat /\ ~(live[f].edit < live[f].edit)
  BY MigrationTyped
<1>1. CASE UNCHANGED live
  BY <1>0, <1>1
<1>2. ASSUME NEW g \in M!Files, M!Replace(g) PROVE BackedUp(f)
  <2>1. phase = "replace" /\ g \in left /\ g \in DOMAIN plan /\ live' = [live EXCEPT ![g] = plan[g]]
    BY <1>2, MigrationTyped DEF M!Replace, M!Ready
  <2>2. g = f
    BY <1>0, <2>1, MigrationTyped
  <2>3. Behind
    BY <2>1 DEF MigrationInv
  <2> QED BY <2>1, <2>2, <2>3 DEF Behind
<1>3. ASSUME NEW g \in M!Files, NEW ok \in BOOLEAN, M!Restore(g, ok) PROVE BackedUp(f)
  <2>1. /\ phase = "undo" /\ g \in DOMAIN plan
        /\ live' = IF ok THEN [live EXCEPT ![g] = saved[g]] ELSE live
        /\ Captured /\ Behind
    BY <1>3, MigrationTyped DEF M!Restore, M!Ready, MigrationInv
  <2>2. g = f /\ live'[f] = saved[f]
    BY <1>0, <2>1, MigrationTyped
  <2>3. saved[f].edit \in Nat
    BY <2>1, <2>2, BoundsAssumption DEF Captured, M!Content
  <2>4. live[f].edit <= saved[f].edit \/ BackedUp(f)
    BY <2>1, <2>2 DEF Behind
  <2> QED BY <1>0, <2>2, <2>3, <2>4
<1>4. ASSUME NEW g \in M!Files, M!Edit(g) PROVE FALSE
  <2>1. live' = [live EXCEPT ![g].edit = @ + 1]
    BY <1>4 DEF M!Edit
  <2>2. live'[f].edit = live[f].edit \/ live'[f].edit = live[f].edit + 1
    BY <1>0, <2>1, MigrationTyped DEF M!Content
  <2> QED BY <1>0, <2>2
<1>5. CASE \/ M!Plan \/ M!Stop \/ M!Confirm \/ M!Stage \/ M!Finish
           \/ M!Rollback \/ M!EndRollback
  BY <1>1, <1>5 DEF M!Plan, M!Stop, M!Confirm, M!Stage, M!Finish, M!Rollback, M!EndRollback
<1>6. ASSUME NEW g \in M!Files, M!Backup(g) PROVE BackedUp(f)
  BY <1>1, <1>6 DEF M!Backup
<1> QED BY <1>1, <1>2, <1>3, <1>4, <1>5, <1>6 DEF M!Next, migrationVars

-----------------------------------------------------------------------------
(* Changing the provider of an installation.                               *)

Changing == {"default", "telegram", "grant", "record", "reopen"}
Undoing == {"undo_record", "undo_credentials", "undo_telegram", "undo_grants"}

Capture == [default : Cloud \cup {Nothing}, key : [Cloud -> {"none", "unverified", "verified"}],
            telegram : Cloud \cup OnMachine \cup {Nothing},
            granted : [Cloud -> {"none", "full", "narrow"}], active : Cloud \cup OnMachine]

\* What a rollback puts back has its grant, the captured one and until then the
\* one there is, and so has what will be recorded.
Recoverable ==
    /\ captured \in Capture
    /\ \A p \in Cloud : captured.granted[p] # "none" => granted[p] # "none"
    /\ ~changeTorn =>
          (captured.active \in Cloud => captured.granted[captured.active] # "none")

\* Before the grants are put back, the record has been.
ChangeInv ==
    /\ I!TypeOK /\ I!ActiveHasGrant /\ changeTorn \in BOOLEAN
    /\ picked \in Cloud \cup OnMachine \cup {Nothing}
    /\ part \in Changing => picked \in Cloud \cup OnMachine
    /\ part \in Changing \cup Undoing => Recoverable
    /\ part \in {"record", "reopen"} => I!HasGrant(picked)
    /\ part \in Undoing \ {"undo_record"} /\ ~changeTorn => active = captured.active

LEMMA ChangeInit == I!Init => ChangeInv
<1> SUFFICES ASSUME I!Init PROVE ChangeInv
  OBVIOUS
<1>1. I!TypeOK
  BY DEF I!Init, I!TypeOK
<1>2. I!ActiveHasGrant
  BY DEF I!Init, I!ActiveHasGrant, I!HasGrant
<1> QED BY <1>1, <1>2 DEF I!Init, ChangeInv, Changing, Undoing

\* Grants that are there stay there.
GrantsStay == \A p \in Cloud : granted[p] # "none" => granted'[p] # "none"

LEMMA ChangeNext == ChangeInv /\ [I!Next]_changeVars => ChangeInv'
<1> SUFFICES ASSUME ChangeInv, [I!Next]_changeVars PROVE ChangeInv'
  OBVIOUS
<1>0. I!TypeOK /\ I!ActiveHasGrant
  BY DEF ChangeInv
<1>1. ASSUME I!TypeOK', GrantsStay, UNCHANGED <<active, captured, picked, changeTorn>>,
             \/ UNCHANGED part
             \/ part' \in {"off", "menu"}
             \/ part = "default" /\ part' = "telegram"
             \/ part = "telegram" /\ part' = "grant"
             \/ part = "grant" /\ part' = "record" /\ I!HasGrant(picked)'
             \/ part \in Changing /\ part' = "undo_record"
             \/ part = "undo_credentials" /\ part' = "undo_telegram"
             \/ part = "undo_telegram" /\ part' = "undo_grants"
      PROVE ChangeInv'
  <2>1. I!ActiveHasGrant'
    BY <1>1 DEF ChangeInv, I!ActiveHasGrant, I!HasGrant, GrantsStay
  <2>2. /\ part' \in Changing => part \in Changing
        /\ part' \in Changing \cup Undoing => part \in Changing \cup Undoing
        /\ part' \in Undoing \ {"undo_record"} => part \in Undoing \ {"undo_record"}
    BY <1>1 DEF Changing, Undoing
  <2>3. part' \in {"record", "reopen"} => I!HasGrant(picked)'
    BY <1>1 DEF ChangeInv, I!HasGrant, GrantsStay, Changing
  <2>4. Recoverable => Recoverable'
    BY <1>1 DEF Recoverable, GrantsStay
  <2> QED BY <1>1, <2>1, <2>2, <2>3, <2>4 DEF ChangeInv
<1>2. ASSUME NEW p \in Cloud, NEW scope \in {"full", "narrow"}, I!ChangeScope(p, scope)
      PROVE ChangeInv'
  <2>1. GrantsStay /\ I!TypeOK'
    BY <1>0, <1>2 DEF I!ChangeScope, I!TypeOK, GrantsStay
  <2> QED BY <1>1, <1>2, <2>1 DEF I!ChangeScope
<1>3. CASE I!Open
  BY <1>0, <1>1, <1>3 DEF I!Open, I!TypeOK, GrantsStay
<1>4. ASSUME I!Leave, I!TypeOK', I!ActiveHasGrant', UNCHANGED changeTorn PROVE ChangeInv'
  BY <1>4 DEF I!Leave, ChangeInv, Changing, Undoing
<1>5. CASE I!Stop
  BY <1>0, <1>4, <1>5 DEF I!Stop, I!Leave, I!TypeOK, I!ActiveHasGrant, I!HasGrant
<1>6. CASE I!VerifyAll \/ I!PairTelegram
  <2>1. I!TypeOK'
    BY <1>0, <1>6, ProviderAssumption DEF I!VerifyAll, I!PairTelegram, I!TypeOK, ChangeInv
  <2> QED BY <1>1, <1>6, <2>1 DEF I!VerifyAll, I!PairTelegram, GrantsStay
<1>7. ASSUME NEW p, granted' = I!Ensured(p)
      PROVE GrantsStay /\ granted' \in [Cloud -> {"none", "full", "narrow"}] /\ I!HasGrant(p)'
  BY <1>0, <1>7 DEF I!Ensured, I!TypeOK, GrantsStay, I!HasGrant
<1>8. CASE I!RepairGrant
  BY <1>0, <1>1, <1>7, <1>8 DEF I!RepairGrant, I!TypeOK
<1>9. ASSUME NEW p \in Cloud \cup OnMachine, NEW v \in BOOLEAN, I!Stored(p, v)
      PROVE key' \in [Cloud -> {"none", "unverified", "verified"}]
  BY <1>0, <1>9 DEF I!Stored, I!TypeOK
<1>10. ASSUME NEW p \in Cloud \cup OnMachine, I!SaveForLater(p) PROVE ChangeInv'
  BY <1>0, <1>9, <1>10 DEF I!SaveForLater, I!TypeOK, ChangeInv, I!ActiveHasGrant, I!HasGrant,
     Changing, Undoing
<1>11. ASSUME NEW p \in Cloud \cup OnMachine, I!Verify(p) PROVE ChangeInv'
  <2>1. /\ part' = "default" /\ picked' = p /\ UNCHANGED <<default, bot, granted, active, changeTorn>>
        /\ captured' = [default |-> default, key |-> key', telegram |-> bot,
                        granted |-> granted, active |-> active]
        /\ key' \in [Cloud -> {"none", "unverified", "verified"}]
    BY <1>9, <1>11 DEF I!Verify
  <2>2. captured' \in Capture /\ captured'.active = active /\ captured'.granted = granted
    BY <1>0, <2>1 DEF Capture, I!TypeOK
  <2>3. Recoverable'
    BY <1>0, <2>1, <2>2 DEF Recoverable, I!ActiveHasGrant, I!HasGrant
  <2> QED BY <1>0, <2>1, <2>3 DEF ChangeInv, I!TypeOK, I!ActiveHasGrant, I!HasGrant, Undoing
<1>12. CASE I!SaveDefault \/ I!UpdateTelegram
  <2>1. /\ part \in Changing /\ UNCHANGED <<key, granted, active, picked, captured, changeTorn>>
        /\ \/ part = "default" /\ part' = "telegram" /\ bot' = bot
              /\ default' = IF picked \in Cloud THEN picked ELSE Nothing
           \/ part = "telegram" /\ part' = "grant" /\ default' = default
              /\ bot' = IF bot = Nothing THEN Nothing ELSE picked
    BY <1>12 DEF I!SaveDefault, I!UpdateTelegram, I!Part, Changing
  <2>2. picked \in Cloud \cup OnMachine
    BY <2>1 DEF ChangeInv
  <2>3. I!TypeOK'
    BY <1>0, <2>1, <2>2 DEF I!TypeOK
  <2> QED BY <1>1, <2>1, <2>3 DEF GrantsStay
<1>13. CASE I!EnsureGrant
  <2>1. GrantsStay /\ granted' \in [Cloud -> {"none", "full", "narrow"}] /\ I!HasGrant(picked)'
    <3>1. granted' = I!Ensured(picked) /\ picked' = picked
      BY <1>13 DEF I!EnsureGrant, I!Part
    <3> QED BY <1>0, <3>1 DEF I!Ensured, I!TypeOK, GrantsStay, I!HasGrant
  <2> QED BY <1>0, <1>1, <1>13, <2>1 DEF I!EnsureGrant, I!Part, I!TypeOK
<1>14. CASE I!WriteRecord
  <2>1. /\ part = "record" /\ part' = "reopen" /\ active' = picked
        /\ UNCHANGED <<key, default, bot, granted, picked, captured, changeTorn>>
    BY <1>14 DEF I!WriteRecord, I!Part
  <2>2. picked \in Cloud \cup OnMachine /\ I!HasGrant(picked) /\ Recoverable
    BY <2>1 DEF ChangeInv, Changing
  <2>3. Recoverable' /\ I!TypeOK' /\ I!ActiveHasGrant' /\ I!HasGrant(picked)'
    BY <1>0, <2>1, <2>2 DEF Recoverable, I!TypeOK, I!ActiveHasGrant, I!HasGrant
  <2> QED BY <2>1, <2>2, <2>3 DEF ChangeInv, Undoing
<1>15. CASE I!Reopen
  BY <1>0, <1>15 DEF I!Reopen, ChangeInv, I!TypeOK, I!ActiveHasGrant, I!HasGrant, Changing, Undoing
<1>16. CASE I!Rollback
  <2>1. I!TypeOK'
    BY <1>0, <1>16 DEF I!Rollback, I!TypeOK
  <2> QED BY <1>1, <1>16, <2>1 DEF I!Rollback, Changing, GrantsStay
<1>18. ASSUME NEW ok \in BOOLEAN, I!RestoreRecord(ok) PROVE ChangeInv'
  <2>1. /\ part = "undo_record" /\ part' = "undo_credentials"
        /\ active' = IF ok THEN captured.active ELSE active
        /\ changeTorn' = (changeTorn \/ (~ok /\ active # captured.active))
        /\ UNCHANGED <<key, default, bot, granted, picked, captured>>
    BY <1>18 DEF I!RestoreRecord, I!Part
  <2>2. Recoverable
    BY <2>1 DEF ChangeInv, Undoing
  <2>3. Recoverable' /\ changeTorn' \in BOOLEAN /\ I!TypeOK'
    BY <1>0, <2>1, <2>2 DEF ChangeInv, Recoverable, Capture, I!TypeOK
  <2>4. ~changeTorn' => active' = captured'.active
    BY <2>1
  <2>5. I!ActiveHasGrant'
    BY <2>1, <2>2, <2>3, <2>4 DEF Recoverable, I!ActiveHasGrant, I!HasGrant
  <2> QED BY <2>1, <2>3, <2>4, <2>5 DEF ChangeInv, Changing
<1>19. ASSUME NEW ok \in BOOLEAN, I!RestoreCredentials(ok) \/ I!RestoreTelegram(ok)
       PROVE ChangeInv'
  <2>1. part \in Undoing
    BY <1>19 DEF I!RestoreCredentials, I!RestoreTelegram, I!Part, Undoing
  <2>2. captured \in Capture
    BY <2>1 DEF ChangeInv, Recoverable
  <2>3. I!TypeOK'
    BY <1>0, <1>19, <2>2 DEF I!RestoreCredentials, I!RestoreTelegram, I!Part, Capture, I!TypeOK
  <2> QED BY <1>1, <1>19, <2>3 DEF I!RestoreCredentials, I!RestoreTelegram, I!Part, GrantsStay
<1>20. ASSUME NEW ok \in BOOLEAN, I!RestoreGrants(ok) PROVE ChangeInv'
  <2>1. /\ part = "undo_grants" /\ granted' = IF ok THEN captured.granted ELSE granted
        /\ I!Leave /\ UNCHANGED <<key, default, bot, active, changeTorn>>
    BY <1>20 DEF I!RestoreGrants
  <2>2. Recoverable /\ (~changeTorn => active = captured.active)
    BY <2>1 DEF ChangeInv, Undoing
  <2>3. I!TypeOK'
    BY <1>0, <2>1, <2>2 DEF I!Leave, Recoverable, Capture, I!TypeOK
  <2>4. I!ActiveHasGrant'
    BY <1>0, <2>1, <2>2 DEF Recoverable, I!ActiveHasGrant, I!HasGrant
  <2> QED BY <1>4, <2>1, <2>3, <2>4
<1>17. CASE UNCHANGED changeVars
  <2>1. UNCHANGED <<key, default, bot, granted, active, part, picked, captured, changeTorn>>
    BY <1>17 DEF changeVars
  <2>2. Recoverable => Recoverable'
    BY <2>1 DEF Recoverable
  <2> QED BY <2>1, <2>2 DEF ChangeInv, I!TypeOK, I!ActiveHasGrant, I!HasGrant
<1> QED BY <1>2, <1>3, <1>5, <1>6, <1>8, <1>10, <1>11, <1>12, <1>13, <1>14, <1>15, <1>16, <1>17,
           <1>18, <1>19, <1>20 DEF I!Next

\* A scope that was narrowed is widened by the user or by a rollback.
ScopeStays ==
    \A p \in Cloud : granted[p] = "narrow" /\ granted'[p] = "full" =>
        I!RestoreGrants(TRUE) \/ I!ChangeScope(p, "full")

LEMMA ChangeKeeps == ChangeInv /\ [I!Next]_changeVars => ScopeStays
<1> SUFFICES ASSUME ChangeInv, [I!Next]_changeVars, NEW p \in Cloud,
                    granted[p] = "narrow", granted'[p] = "full", ~I!RestoreGrants(TRUE)
             PROVE  I!ChangeScope(p, "full")
  BY DEF ScopeStays
<1>0. granted \in [Cloud -> {"none", "full", "narrow"}]
  BY DEF ChangeInv, I!TypeOK
<1>1. granted' # granted
  OBVIOUS
<1>2. ASSUME NEW q, granted' = I!Ensured(q) PROVE FALSE
  BY <1>0, <1>2 DEF I!Ensured
<1>3. ASSUME NEW q \in Cloud, NEW scope \in {"full", "narrow"}, I!ChangeScope(q, scope)
      PROVE I!ChangeScope(p, "full")
  <2>1. granted' = [granted EXCEPT ![q] = scope]
    BY <1>3 DEF I!ChangeScope
  <2>2. q = p /\ scope = "full"
    BY <1>0, <2>1
  <2> QED BY <1>3, <2>2
<1>4. ASSUME NEW ok \in BOOLEAN, I!RestoreGrants(ok) PROVE FALSE
  <2>1. ok = FALSE
    BY <1>4
  <2> QED BY <1>1, <1>4, <2>1 DEF I!RestoreGrants
<1> QED BY <1>1, <1>2, <1>3, <1>4 DEF I!Next, I!Open, I!Stop, I!VerifyAll, I!PairTelegram, I!RepairGrant,
        I!SaveForLater, I!Verify, I!SaveDefault, I!UpdateTelegram, I!EnsureGrant, I!WriteRecord,
        I!Reopen, I!Rollback, I!RestoreRecord, I!RestoreCredentials, I!RestoreTelegram, changeVars

-----------------------------------------------------------------------------
(* Guided setup.                                                           *)

Providers == Cloud \cup OnMachine \cup {Nothing}
People == Public \cup Private \cup {Nothing}
Draft == [done : SUBSET G!Steps, provider : Providers, verified : BOOLEAN, persona : People]
Keys == [key : [Cloud -> {"none", "unverified", "verified"}], default : Cloud \cup {Nothing}]
Talk == [provider : Providers, persona : People]
Installed == [provider : Providers, persona : People, first : Talk, grant : BOOLEAN,
              recorded : BOOLEAN]

\* A step that is done has its answer.
Answered(d) ==
    /\ d \in Draft
    /\ G!Provider \in d.done => d.provider # Nothing
    /\ G!Persona \in d.done => d.persona # Nothing

\* The steps before the one at hand are done.
Wizard ==
    /\ draft # Nothing => Answered(draft)
    /\ Answered(mem)
    /\ at \in G!Steps => \A s \in G!Steps : s < at => s \in mem.done
    /\ accepted # Nothing => at \in G!Activating \cup G!Undoing /\ accepted.provider # Nothing /\ accepted.persona # Nothing
    /\ at = G!Roots /\ accepted # Nothing =>
          accepted = [provider |-> mem.provider, persona |-> mem.persona]

\* Nothing of an activation is there, or a rollback left it.
Untouched == ~setupTorn => installed = Nothing /\ creds.default = Nothing

\* What a rollback puts back has no default.
Recalled ==
    /\ before.creds \in Keys /\ before.telegram \in Providers
    /\ ~setupTorn => before.creds.default = Nothing

DefaultFor(p) == IF p \in Cloud THEN p ELSE Nothing

\* What the parts of the activation have done so far.
PartsDone ==
    /\ installed \in Installed
    /\ installed.provider = mem.provider
    /\ installed.persona = mem.persona
    /\ installed.first = [provider |-> mem.provider, persona |-> mem.persona]
    /\ installed.recorded
    /\ Recalled
    /\ at > G!Credentials => creds.default = DefaultFor(mem.provider)
    /\ at > G!Telegram => telegram \in {Nothing, mem.provider}
    /\ at > G!Reopen => G!Reopens

SetupInv ==
    /\ G!TypeOK /\ creds \in Keys /\ telegram \in Providers /\ setupTorn \in BOOLEAN
    /\ G!TalksToWhatWasChosen /\ G!ActivationIsWhole
    /\ Wizard
    /\ at \in G!Grant..G!Tidy => PartsDone
    /\ at \in {G!Grant, G!Credentials} /\ ~setupTorn => creds.default = Nothing
    /\ at \in {G!Roots, G!UndoTelegram} => Untouched
    /\ at \in G!Undoing => Recalled
    /\ at = G!UndoRoots => installed \in Installed
    /\ at = G!UndoCredentials /\ ~setupTorn => installed = Nothing

LEMMA SetupInit == G!Init => SetupInv
<1> SUFFICES ASSUME G!Init PROVE SetupInv
  OBVIOUS
<1>1. Answered(G!Blank)
  BY DEF Answered, G!Blank, Draft, Providers, People, G!Steps, G!Provider, G!First, G!Persona
<1>2. creds \in Keys /\ creds.default = Nothing
  BY DEF G!Init, Keys
<1>3. /\ at = 0 /\ accepted = Nothing /\ draft = Nothing /\ mem = G!Blank /\ installed = Nothing
      /\ telegram = Nothing /\ setupTorn = FALSE
  BY DEF G!Init, G!Off
<1>4. Wizard
  BY <1>1, <1>3 DEF Wizard, G!Steps, G!Provider, G!First, G!Roots
<1>5. G!TypeOK
  BY <1>2, <1>3 DEF G!TypeOK, Keys, G!Off
<1>6. G!TalksToWhatWasChosen /\ G!ActivationIsWhole /\ Untouched
  BY <1>2, <1>3 DEF G!TalksToWhatWasChosen, G!ActivationIsWhole, G!Activated, Untouched
<1>7. /\ at \notin G!Grant..G!Tidy /\ at \notin {G!Grant, G!Credentials} /\ at \notin G!Undoing
      /\ at # G!UndoRoots /\ at # G!UndoCredentials
  BY <1>3 DEF G!Grant, G!Tidy, G!Credentials, G!Undoing, G!UndoRoots, G!UndoCredentials,
     G!UndoTelegram
<1> QED BY <1>2, <1>3, <1>4, <1>5, <1>6, <1>7 DEF SetupInv, Providers

\* The wizard goes to a step that comes next among those not done.
LEMMA NextOpenIs ==
    ASSUME NEW i \in 1..7, NEW done \in SUBSET G!Steps
    PROVE  /\ G!NextOpen(i, done) \in i..7
           /\ \A s \in G!Steps : s >= i /\ s < G!NextOpen(i, done) => s \in done
<1> DEFINE open == {s \in G!Steps : s >= i /\ s \notin done}
<1>0. G!Steps = 1..6 /\ G!Roots = 7
  BY DEF G!Steps, G!Provider, G!First, G!Roots
<1>1. CASE open = {}
  BY <1>0, <1>1 DEF G!NextOpen
<1>2. CASE open # {}
  <2> DEFINE n == CHOOSE s \in open : \A t \in open : s <= t
  <2>1. open \subseteq Nat
    BY <1>0
  <2>2. \E s \in open : \A t \in open : s <= t
    <3> HIDE DEF open
    <3> QED BY <1>2, <2>1, Least
  <2>3. n \in open /\ \A t \in open : n <= t
    <3> HIDE DEF open
    <3> QED BY <2>2
  <2>4. G!NextOpen(i, done) = n
    BY <1>2 DEF G!NextOpen
  <2> HIDE DEF n
  <2>5. n \in i..7
    BY <1>0, <2>3
  <2>6. ASSUME NEW s \in G!Steps, s >= i, s < n PROVE s \in done
    BY <1>0, <2>3, <2>6
  <2> QED BY <2>4, <2>5, <2>6
<1> QED BY <1>1, <1>2

LEMMA SetupNumbers ==
    /\ G!Steps = 1..6 /\ G!Activating = 7..12
    /\ G!Provider = 1 /\ G!Connectors = 2 /\ G!Persona = 3 /\ G!Profile = 4 /\ G!Review = 5 /\ G!First = 6
    /\ G!Roots = 7 /\ G!Grant = 8 /\ G!Credentials = 9 /\ G!Telegram = 10 /\ G!Reopen = 11
    /\ G!Tidy = 12 /\ G!Off = 0 /\ G!Activated = 13 /\ G!Interrupted = 14
    /\ G!Undoing = 15..17 /\ G!UndoRoots = 15 /\ G!UndoCredentials = 16 /\ G!UndoTelegram = 17
BY DEF G!Steps, G!Activating, G!Provider, G!Connectors, G!Persona, G!Profile, G!Review, G!First,
   G!Roots, G!Grant, G!Credentials, G!Telegram, G!Reopen, G!Tidy, G!Off, G!Activated, G!Interrupted,
   G!Undoing, G!UndoRoots, G!UndoCredentials, G!UndoTelegram

\* A step of the wizard: what is asked is answered, nothing is accepted but at
\* its end, and the keys change but for the default.
LEMMA WizardStep ==
    ASSUME SetupInv, at' \in 0..7, Untouched', setupTorn' \in BOOLEAN,
           creds' \in Keys, telegram' \in Providers,
           draft' # Nothing => Answered(draft'), Answered(mem'),
           at' \in 1..6 => \A s \in 1..6 : s < at' => s \in mem'.done,
           \/ accepted' = Nothing
           \/ /\ at' = 7 /\ mem'.provider # Nothing /\ mem'.persona # Nothing
              /\ accepted' = [provider |-> mem'.provider, persona |-> mem'.persona]
    PROVE  SetupInv'
<1>2. Wizard'
  BY SetupNumbers DEF Wizard
<1>3. G!TypeOK'
  <2>1. draft' \in {Nothing} \cup [done : SUBSET G!Steps, provider : Cloud \cup OnMachine \cup {Nothing},
                      verified : BOOLEAN, persona : Public \cup Private \cup {Nothing}]
    BY DEF Answered, Draft, Providers, People
  <2>2. /\ creds'.key \in [Cloud -> {"none", "unverified", "verified"}]
        /\ creds'.default \in Cloud \cup {Nothing}
    BY DEF Keys
  <2>3. at' \in G!Steps \cup G!Activating \cup G!Undoing \cup {G!Off, G!Activated, G!Interrupted}
    BY SetupNumbers
  <2> QED BY <2>1, <2>2, <2>3 DEF G!TypeOK, Providers
<1>4. G!TalksToWhatWasChosen' /\ G!ActivationIsWhole'
  BY SetupNumbers DEF G!TalksToWhatWasChosen, G!ActivationIsWhole, Untouched
<1> QED BY <1>2, <1>3, <1>4, SetupNumbers DEF SetupInv

LEMMA SetupFacts ==
    ASSUME SetupInv
    PROVE  /\ creds \in Keys /\ telegram \in Providers
           /\ Answered(mem) /\ mem \in Draft /\ (draft # Nothing => Answered(draft))
           /\ at \in 0..6 => Untouched /\ accepted = Nothing
           /\ setupTorn \in BOOLEAN
           /\ at \in 1..6 => \A s \in 1..6 : s < at => s \in mem.done
           /\ Answered(G!Blank)
<1>1. Answered(G!Blank)
  BY DEF Answered, G!Blank, Draft, Providers, People, G!Steps, G!Provider, G!First, G!Persona
<1> QED BY <1>1, SetupNumbers DEF SetupInv, Wizard, G!ActivationIsWhole, Answered, Untouched

\* What is saved of an answered draft is answered.
LEMMA SavedAnswered ==
    ASSUME NEW m, Answered(m) PROVE Answered(G!SavedForm(m))
BY SetupNumbers DEF Answered, G!SavedForm, Draft, People

\* A draft with some steps taken back is answered.
LEMMA TakenBack ==
    ASSUME NEW m, Answered(m), NEW steps
    PROVE  LET d == [m EXCEPT !.done = @ \ steps]
           IN  Answered(d) /\ d.done = m.done \ steps /\ d.provider = m.provider
BY DEF Answered, Draft

\* An answered draft with a step done whose answer is there.
LEMMA StepTaken ==
    ASSUME NEW m, Answered(m), NEW step \in 1..6,
           step = 1 => m.provider # Nothing, step = 3 => m.persona # Nothing
    PROVE  LET d == [m EXCEPT !.done = @ \cup {step}]
           IN  /\ Answered(d) /\ d.done = m.done \cup {step}
               /\ d.provider = m.provider /\ d.persona = m.persona
BY SetupNumbers DEF Answered, Draft

\* What Complete does.
LEMMA CompleteIs ==
    ASSUME SetupInv, NEW step \in 1..6, NEW m, Answered(m),
           \A s \in 1..6 : s < step => s \in m.done,
           step = 1 => m.provider # Nothing, step = 3 => m.persona # Nothing,
           G!Complete(step, m)
    PROVE  /\ Answered(mem') /\ Answered(draft') /\ at' \in step + 1..7
           /\ at' \in 1..6 => \A s \in 1..6 : s < at' => s \in mem'.done
           /\ mem'.provider = m.provider /\ mem'.persona = m.persona
<1> DEFINE d == [m EXCEPT !.done = @ \cup {step}]
<1>1. mem' = d /\ draft' = G!SavedForm(d) /\ at' = G!NextOpen(step + 1, d.done)
  BY DEF G!Complete, G!SaveDraft
<1>2. Answered(d) /\ d.done = m.done \cup {step} /\ d.provider = m.provider /\ d.persona = m.persona
  BY StepTaken
<1> HIDE DEF d
<1>3. d.done \in SUBSET G!Steps /\ step + 1 \in 1..7
  BY <1>2 DEF Answered, Draft
<1>4. /\ at' \in step + 1..7
      /\ \A s \in 1..6 : s >= step + 1 /\ s < at' => s \in d.done
  BY <1>1, <1>3, NextOpenIs, SetupNumbers
<1>5. \A s \in 1..6 : s < at' => s \in d.done
  <2> TAKE s \in 1..6
  <2>1. s < step \/ s = step \/ s >= step + 1
    OBVIOUS
  <2> QED BY <1>2, <1>4, <2>1
<1> QED BY <1>1, <1>2, <1>4, <1>5, SavedAnswered


\* Where an action of the wizard leads.
LEMMA SetupWizard ==
    ASSUME SetupInv, at \in 0..6,
           \/ G!StartFresh \/ G!Resume \/ G!Exit \/ G!Back
           \/ \E b \in BOOLEAN : G!StartOver(b) \/ G!ChooseConnectors(b)
           \/ \E p \in Cloud \cup OnMachine : G!ChooseProvider(p) \/ G!SaveForLater(p)
           \/ G!LeaveAuthoring \/ G!BackFromAuthoring \/ G!AnswerProfile \/ G!AcceptReview
           \/ G!AcceptFirst
    PROVE  SetupInv'
<1>0. /\ creds \in Keys /\ telegram \in Providers
      /\ Answered(mem) /\ mem \in Draft /\ (draft # Nothing => Answered(draft))
      /\ Untouched /\ setupTorn \in BOOLEAN /\ accepted = Nothing
      /\ at \in 1..6 => \A s \in 1..6 : s < at => s \in mem.done
      /\ Answered(G!Blank)
  BY SetupFacts
<1>1. ASSUME NEW m, Answered(m), G!Begin(m), creds' \in Keys,
             creds'.default \in {Nothing, creds.default}, draft' # Nothing => Answered(draft')
      PROVE  SetupInv'
  <2>1. m.done \in SUBSET G!Steps
    BY <1>1 DEF Answered, Draft
  <2>2. at' \in 1..7 /\ \A s \in 1..6 : s >= 1 /\ s < at' => s \in m.done
    BY <1>1, <2>1, NextOpenIs, SetupNumbers DEF G!Begin
  <2>3. mem' = m /\ telegram' = telegram /\ accepted' = Nothing /\ setupTorn' = setupTorn
        /\ installed' = installed
    BY <1>0, <1>1 DEF G!Begin
  <2>4. Untouched'
    BY <1>0, <1>1, <2>3 DEF Untouched
  <2> QED BY <1>0, <1>1, <2>2, <2>3, <2>4, WizardStep
<1>2. CASE G!StartFresh
  BY <1>0, <1>1, <1>2 DEF G!StartFresh
<1>3. CASE G!Resume
  BY <1>0, <1>1, <1>3 DEF G!Resume
<1>4. ASSUME NEW b \in BOOLEAN, G!StartOver(b) PROVE SetupInv'
  <2>1. creds' \in Keys /\ creds'.default \in {Nothing, creds.default}
    BY <1>0, <1>4 DEF G!StartOver, Keys
  <2> QED BY <1>0, <1>1, <1>4, <2>1 DEF G!StartOver
<1>5. CASE G!Exit
  <2>1. draft' = G!SavedForm(mem) /\ at' = 0 /\ mem' = G!Blank /\ accepted' = Nothing
        /\ creds' = creds /\ telegram' = telegram /\ Untouched' /\ setupTorn' = setupTorn
    BY <1>0, <1>5, SetupNumbers DEF G!Exit, G!SaveDraft, G!Forget, Untouched
  <2>2. Answered(draft')
    BY <1>0, <2>1, SavedAnswered
  <2> QED BY <1>0, <2>1, <2>2, WizardStep
<1>6. CASE G!LeaveAuthoring
  <2>1. Untouched'
    BY <1>0, <1>6 DEF G!LeaveAuthoring, Untouched
  <2> QED BY <1>0, <1>6, <2>1, WizardStep, SetupNumbers DEF G!LeaveAuthoring
<1>7. CASE G!Back \/ G!BackFromAuthoring
  <2>1. /\ at \in 2..6 /\ at' = at - 1 /\ mem' = [mem EXCEPT !.done = @ \ {at - 1}]
        /\ draft' = draft /\ creds' = creds /\ telegram' = telegram
        /\ Untouched' /\ setupTorn' = setupTorn /\ accepted' = accepted
    BY <1>0, <1>7, SetupNumbers DEF G!Back, G!BackFromAuthoring, Untouched
  <2>2. Answered(mem') /\ mem'.done = mem.done \ {at - 1}
    BY <1>0, <2>1, TakenBack
  <2>3. \A s \in 1..6 : s < at' => s \in mem'.done
    BY <1>0, <2>1, <2>2
  <2> QED BY <1>0, <2>1, <2>2, <2>3, WizardStep
<1>8. ASSUME NEW p \in Cloud \cup OnMachine, G!ChooseProvider(p) \/ G!SaveForLater(p)
      PROVE  SetupInv'
  <2>0. G!ChooseProvider(p) \/ G!SaveForLater(p)
    BY <1>8
  <2>1. creds' \in Keys /\ creds'.default = creds.default
    <3>1. PICK v \in BOOLEAN : G!StoreVerified(p, v)
      BY Zenon, <2>0 DEF G!ChooseProvider, G!SaveForLater
    <3>2. CASE p \in Cloud
      <4> DEFINE known == IF v THEN "verified" ELSE "unverified"
      <4>1. creds' = [creds EXCEPT !.key[p] = known]
        BY <3>1, <3>2 DEF G!StoreVerified
      <4>2. known \in {"none", "unverified", "verified"}
        OBVIOUS
      <4> HIDE DEF known
      <4> QED BY <1>0, <3>2, <4>1, <4>2 DEF Keys
    <3>3. CASE p \notin Cloud
      BY <1>0, <3>1, <3>3 DEF G!StoreVerified
    <3> QED BY <3>2, <3>3
  <2>2. p # Nothing /\ p \in Providers
    BY ProviderAssumption DEF Providers
  <2>3. /\ at \in 1..6 /\ telegram' = telegram /\ Untouched' /\ accepted' = accepted
        /\ setupTorn' = setupTorn
    <3>1. /\ at \in {G!Provider, G!Review, G!First}
          /\ UNCHANGED <<telegram, installed, accepted, setupTorn>>
      BY Zenon, <2>0 DEF G!ChooseProvider, G!SaveForLater
    <3> QED BY <1>0, <2>1, <3>1, SetupNumbers DEF Untouched
  <2>4. CASE G!ChooseProvider(p)
    <3> DEFINE m == [mem EXCEPT !.provider = p, !.verified = TRUE]
    <3>1. Answered(m) /\ m.provider = p /\ m.done = mem.done
      BY <1>0, <2>2 DEF Answered, Draft
    <3>2. CASE at = 1
      <4>1. G!Complete(1, m)
        BY <2>4, <3>2, SetupNumbers DEF G!ChooseProvider
      <4> HIDE DEF m
      <4>2. /\ Answered(mem') /\ Answered(draft') /\ at' \in 2..7
            /\ at' \in 1..6 => \A s \in 1..6 : s < at' => s \in mem'.done
        BY <2>2, <3>1, <4>1, CompleteIs
      <4> QED BY <1>0, <2>1, <2>3, <4>2, WizardStep
    <3>3. CASE at # 1
      <4>1. mem' = m /\ draft' = draft /\ at' = at
        BY <2>4, <3>3, SetupNumbers DEF G!ChooseProvider
      <4> HIDE DEF m
      <4> QED BY <1>0, <2>1, <2>3, <3>1, <4>1, WizardStep
    <3> QED BY <3>2, <3>3
  <2>5. CASE G!SaveForLater(p)
    <3> DEFINE m == [mem EXCEPT !.provider = p, !.verified = FALSE]
    <3>1. Answered(m) /\ m.done = mem.done
      BY <1>0, <2>2 DEF Answered, Draft
    <3>2. mem' = m /\ draft' = draft /\ at' = at
      BY <2>5 DEF G!SaveForLater
    <3> HIDE DEF m
    <3> QED BY <1>0, <2>1, <2>3, <3>1, <3>2, WizardStep
  <2> QED BY <1>8, <2>4, <2>5
<1>9. ASSUME NEW step \in {2, 4, 5, 6}, at = step, G!Complete(step, mem), creds' = creds,
             telegram' \in Providers, installed' = installed, setupTorn' = setupTorn,
             \/ accepted' = accepted
             \/ step = 6 /\ accepted' = [provider |-> mem.provider, persona |-> mem.persona]
      PROVE  SetupInv'
  <2>1. \A s \in 1..6 : s < step => s \in mem.done
    BY <1>0, <1>9
  <2>2. /\ Answered(mem') /\ Answered(draft') /\ at' \in step + 1..7
        /\ at' \in 1..6 => \A s \in 1..6 : s < at' => s \in mem'.done
        /\ mem'.provider = mem.provider /\ mem'.persona = mem.persona
    BY <1>0, <1>9, <2>1, CompleteIs
  <2>3. step = 6 => mem.provider # Nothing /\ mem.persona # Nothing /\ at' = 7
    BY <1>0, <2>1, <2>2, SetupNumbers DEF Answered
  <2>6. Untouched'
    BY <1>0, <1>9 DEF Untouched
  <2>4. CASE accepted' = Nothing
    BY <1>0, <1>9, <2>2, <2>4, <2>6, WizardStep
  <2>5. CASE step = 6 /\ accepted' = [provider |-> mem.provider, persona |-> mem.persona]
    BY <1>0, <1>9, <2>2, <2>3, <2>5, <2>6, WizardStep
  <2> QED BY <1>0, <1>9, <2>4, <2>5
<1>10. ASSUME NEW paired \in BOOLEAN, G!ChooseConnectors(paired) PROVE SetupInv'
  <2>1. telegram' \in Providers
    BY <1>0, <1>10 DEF G!ChooseConnectors, Draft
  <2>2. /\ creds' = creds /\ installed' = installed /\ accepted' = accepted /\ at \in {2, 5}
        /\ setupTorn' = setupTorn /\ Untouched'
    BY <1>0, <1>10, SetupNumbers DEF G!ChooseConnectors, Untouched
  <2>3. CASE at = 2
    BY <1>9, <1>10, <2>1, <2>2, <2>3, SetupNumbers DEF G!ChooseConnectors
  <2>4. CASE at # 2
    <3>1. mem' = mem /\ draft' = draft /\ at' = at
      BY <1>10, <2>4, SetupNumbers DEF G!ChooseConnectors
    <3> QED BY <1>0, <2>1, <2>2, <3>1, WizardStep
  <2> QED BY <2>3, <2>4
<1>11. CASE G!AnswerProfile
  BY <1>0, <1>9, <1>11, SetupNumbers DEF G!AnswerProfile
<1>12. CASE G!AcceptReview
  BY <1>0, <1>9, <1>12, SetupNumbers DEF G!AcceptReview
<1>13. CASE G!AcceptFirst
  BY <1>0, <1>9, <1>13, SetupNumbers DEF G!AcceptFirst
<1> QED BY <1>2, <1>3, <1>4, <1>5, <1>6, <1>7, <1>8, <1>10, <1>11, <1>12, <1>13

\* A persona chosen.
LEMMA SetupPersona ==
    ASSUME SetupInv, NEW p \in Public \cup Private, G!ChoosePersona(p)
    PROVE  SetupInv'
<1> DEFINE m == [mem EXCEPT !.persona = p]
           d == [m EXCEPT !.done = @ \cup {3}]
<1>8. /\ at \in {3, 5, 6} /\ creds' = creds /\ telegram' = telegram /\ installed' = installed
      /\ accepted' = accepted /\ setupTorn' = setupTorn
  BY SetupNumbers DEF G!ChoosePersona
<1>0. /\ creds \in Keys /\ telegram \in Providers
      /\ Answered(mem) /\ mem \in Draft /\ (draft # Nothing => Answered(draft))
      /\ Untouched /\ setupTorn \in BOOLEAN /\ accepted = Nothing
      /\ at \in 1..6 => \A s \in 1..6 : s < at => s \in mem.done
  BY <1>8, SetupFacts
<1>1. /\ at \in {3, 5, 6} /\ creds' = creds /\ telegram' = telegram /\ Untouched'
      /\ accepted' = accepted /\ setupTorn' = setupTorn
  BY <1>0, <1>8 DEF Untouched
<1>2. p # Nothing /\ p \in People
  BY ProviderAssumption DEF People
<1>3. Answered(m) /\ m.done = mem.done /\ m.persona = p
  BY <1>0, <1>2 DEF Answered, Draft
<1>4. Answered(d) /\ d.done = mem.done \cup {3}
  <2> HIDE DEF m
  <2>1. 3 \in 1..6 /\ (3 = 1 => m.provider # Nothing) /\ m.persona # Nothing
    BY <1>2, <1>3
  <2>2. LET e == [m EXCEPT !.done = @ \cup {3}]
        IN  Answered(e) /\ e.done = m.done \cup {3}
    BY <1>3, <2>1, StepTaken
  <2> QED BY <1>3, <2>2
<1>5. CASE at = 3
  <2>1. mem' = d /\ at' = G!NextOpen(4, d.done)
        /\ draft' \in {d, [d EXCEPT !.persona = Nothing, !.done = @ \ {3, 5, 6}]}
    BY <1>5, SetupNumbers DEF G!ChoosePersona
  <2> HIDE DEF d
  <2>2. Answered([d EXCEPT !.persona = Nothing, !.done = @ \ {3, 5, 6}])
    BY <1>4, SetupNumbers DEF Answered, Draft, People
  <2>3. d.done \in SUBSET G!Steps
    BY <1>4 DEF Answered, Draft
  <2>4. at' \in 4..7 /\ \A s \in 1..6 : s >= 4 /\ s < at' => s \in d.done
    BY <2>1, <2>3, NextOpenIs, SetupNumbers
  <2>5. \A s \in 1..6 : s < at' => s \in d.done
    BY <1>0, <1>4, <1>5, <2>4
  <2> QED BY <1>0, <1>1, <1>4, <2>1, <2>2, <2>4, <2>5, WizardStep
<1>6. CASE at = 5
  <2>1. mem' = m /\ draft' = draft /\ at' = at
    BY <1>6, SetupNumbers DEF G!ChoosePersona
  <2> HIDE DEF m
  <2> QED BY <1>0, <1>1, <1>3, <2>1, WizardStep
<1>7. CASE at = 6
  <2>1. mem' = [m EXCEPT !.done = @ \ {6}] /\ draft' = draft /\ at' = at
    BY <1>7, SetupNumbers DEF G!ChoosePersona
  <2> HIDE DEF m
  <2>2. Answered(mem') /\ mem'.done = m.done \ {6}
    BY <1>3, <2>1, TakenBack
  <2>3. \A s \in 1..6 : s < at' => s \in mem'.done
    BY <1>0, <1>3, <1>7, <2>1, <2>2
  <2> QED BY <1>0, <1>1, <2>1, <2>2, <2>3, WizardStep
<1> QED BY <1>1, <1>5, <1>6, <1>7

\* A part of the activation that leads to the next.
LEMMA PartStep ==
    ASSUME SetupInv, at \in 7..11, at' = at + 1, mem' = mem,
           accepted' = accepted, draft' = draft, PartsDone', creds' \in Keys, telegram' \in Providers,
           setupTorn' = setupTorn, at' \in {8, 9} /\ ~setupTorn => creds'.default = Nothing
    PROVE  SetupInv'
<1>1. Wizard'
  BY SetupNumbers DEF SetupInv, Wizard
<1>2. G!TypeOK'
  BY SetupNumbers DEF SetupInv, G!TypeOK, Keys, Providers
<1>3. G!TalksToWhatWasChosen'
  BY DEF SetupInv, G!TalksToWhatWasChosen
<1>4. G!ActivationIsWhole'
  BY SetupNumbers DEF G!ActivationIsWhole
<1> QED BY <1>1, <1>2, <1>3, <1>4, SetupNumbers DEF SetupInv

\* The command ends outside the wizard.
LEMMA SetupEnds ==
    ASSUME SetupInv, at' \in {13, 14}, mem' = G!Blank, accepted' = Nothing, setupTorn' \in BOOLEAN,
           draft' # Nothing => Answered(draft'), creds' \in Keys, telegram' \in Providers,
           G!ActivationIsWhole'
    PROVE  SetupInv'
<1>1. Answered(mem')
  BY SetupFacts
<1>2. Wizard'
  BY <1>1, SetupNumbers DEF Wizard
<1>3. G!TypeOK'
  <2>1. draft' \in {Nothing} \cup [done : SUBSET G!Steps, provider : Cloud \cup OnMachine \cup {Nothing},
                      verified : BOOLEAN, persona : Public \cup Private \cup {Nothing}]
    BY DEF Answered, Draft, Providers, People
  <2> QED BY <2>1, SetupNumbers DEF G!TypeOK, Keys, Providers
<1>4. G!TalksToWhatWasChosen'
  BY DEF G!TalksToWhatWasChosen
<1> QED BY <1>2, <1>3, <1>4, SetupNumbers DEF SetupInv

LEMMA SetupActivation ==
    ASSUME SetupInv,
           \/ G!InstallRoots \/ G!EnsureGrant \/ G!SaveCredentials \/ G!UpdateTelegram
           \/ G!ProveReopen \/ G!RemoveDraft
    PROVE  SetupInv'
<1>0. /\ creds \in Keys /\ telegram \in Providers /\ Answered(mem) /\ mem \in Draft
      /\ draft # Nothing => Answered(draft)
      /\ Answered(G!Blank)
  BY SetupFacts
<1>1. CASE G!InstallRoots
  <2>1. /\ at = 7 /\ at' = 8 /\ mem' = mem /\ accepted' = accepted /\ accepted # Nothing
        /\ before' = [creds |-> creds, telegram |-> telegram]
        /\ installed' = [provider |-> mem.provider, persona |-> mem.persona,
                         first |-> accepted, grant |-> FALSE, recorded |-> TRUE]
        /\ draft' = draft /\ creds' = creds /\ telegram' = telegram /\ setupTorn' = setupTorn
    BY <1>1, SetupNumbers DEF G!InstallRoots, G!Part
  <2>2. /\ accepted = [provider |-> mem.provider, persona |-> mem.persona]
        /\ ~setupTorn => creds.default = Nothing
    BY <2>1, SetupNumbers DEF SetupInv, Wizard, Untouched
  <2>3. mem.provider \in Providers /\ mem.persona \in People
    BY <1>0 DEF Draft
  <2>4. PartsDone'
    BY <1>0, <2>1, <2>2, <2>3, SetupNumbers DEF PartsDone, Recalled, Installed, Talk
  <2> QED BY <1>0, <2>1, <2>2, <2>4, PartStep
<1>2. ASSUME at \in 8..12
      PROVE  /\ installed \in Installed /\ PartsDone
             /\ mem.provider \in Providers
    BY <1>0, <1>2, SetupNumbers DEF SetupInv, PartsDone, Draft
<1>3. CASE G!EnsureGrant
  <2>1. /\ at = 8 /\ at' = 9 /\ mem' = mem /\ accepted' = accepted /\ before' = before
        /\ installed' = [installed EXCEPT !.grant = mem.provider \in Cloud]
        /\ draft' = draft /\ creds' = creds /\ telegram' = telegram /\ setupTorn' = setupTorn
    BY <1>3, SetupNumbers DEF G!EnsureGrant, G!Part
  <2>2. ~setupTorn => creds.default = Nothing
    BY <2>1, SetupNumbers DEF SetupInv
  <2>3. /\ installed' \in Installed /\ installed'.provider = installed.provider
        /\ installed'.persona = installed.persona /\ installed'.first = installed.first
        /\ installed'.recorded = installed.recorded
    <3>1. installed \in Installed
      BY <1>2, <2>1
    <3>2. \A b \in BOOLEAN :
             LET i == [installed EXCEPT !.grant = b]
             IN  /\ i \in Installed /\ i.provider = installed.provider
                 /\ i.persona = installed.persona /\ i.first = installed.first
                 /\ i.recorded = installed.recorded
      BY <3>1 DEF Installed
    <3> DEFINE g == mem.provider \in Cloud
    <3>3. g \in BOOLEAN
      OBVIOUS
    <3>4. installed' = [installed EXCEPT !.grant = g]
      BY Zenon, <2>1
    <3> HIDE DEF g
    <3> QED BY <3>2, <3>3, <3>4
  <2>4. PartsDone'
    BY <1>2, <2>1, <2>3, SetupNumbers DEF PartsDone, Recalled
  <2> QED BY <1>0, <2>1, <2>2, <2>4, PartStep
<1>4. CASE G!SaveCredentials
  <2>1. /\ at = 9 /\ at' = 10 /\ mem' = mem /\ accepted' = accepted /\ before' = before
        /\ creds' = [creds EXCEPT !.default = DefaultFor(mem.provider)]
        /\ draft' = draft /\ installed' = installed /\ telegram' = telegram
        /\ setupTorn' = setupTorn
    BY <1>4, SetupNumbers DEF G!SaveCredentials, G!Part, DefaultFor
  <2>2. creds' \in Keys /\ creds'.default = DefaultFor(mem.provider)
    BY <1>0, <2>1 DEF Keys, DefaultFor
  <2>3. PartsDone'
    BY <1>2, <2>1, <2>2, SetupNumbers DEF PartsDone, Recalled
  <2> QED BY <1>0, <2>1, <2>2, <2>3, PartStep
<1>5. CASE G!UpdateTelegram
  <2>1. /\ at = 10 /\ at' = 11 /\ mem' = mem /\ accepted' = accepted /\ before' = before
        /\ telegram' = IF telegram = Nothing THEN Nothing ELSE mem.provider
        /\ draft' = draft /\ installed' = installed /\ creds' = creds /\ setupTorn' = setupTorn
    BY <1>5, SetupNumbers DEF G!UpdateTelegram, G!Part
  <2>2. telegram' \in {Nothing, mem.provider} /\ telegram' \in Providers
    BY <1>0, <1>2, <2>1
  <2>3. PartsDone'
    BY <1>2, <2>1, <2>2, SetupNumbers DEF PartsDone, Recalled
  <2> QED BY <1>0, <2>1, <2>2, <2>3, PartStep
<1>6. CASE G!ProveReopen
  <2>1. /\ at = 11 /\ at' = 12 /\ mem' = mem /\ accepted' = accepted /\ before' = before
        /\ draft' = draft /\ installed' = installed /\ creds' = creds /\ telegram' = telegram
        /\ setupTorn' = setupTorn
    BY <1>6, SetupNumbers DEF G!ProveReopen, G!Part
  <2>2. G!Reopens'
    BY <1>6, <2>1 DEF G!ProveReopen, G!Reopens
  <2>3. PartsDone'
    BY <1>2, <2>1, <2>2, SetupNumbers DEF PartsDone, Recalled
  <2> QED BY <1>0, <2>1, <2>3, PartStep
<1>7. CASE G!RemoveDraft
  <2>1. /\ at = 12 /\ at' = 13 /\ draft' = Nothing /\ mem' = G!Blank /\ accepted' = Nothing
        /\ creds' = creds /\ telegram' = telegram /\ installed' = installed
        /\ setupTorn' = setupTorn
    BY <1>7, SetupNumbers DEF G!RemoveDraft, G!Forget
  <2>2. PartsDone /\ G!Reopens
    BY <1>2, <2>1, SetupNumbers DEF PartsDone
  <2>3. G!Reopens'
    BY <2>1, <2>2 DEF G!Reopens
  <2>4. G!ActivationIsWhole'
    BY <2>1, <2>2, <2>3, SetupNumbers DEF G!ActivationIsWhole, PartsDone, DefaultFor
  <2>5. setupTorn' \in BOOLEAN
    BY <2>1 DEF SetupInv
  <2> QED BY <1>0, <2>1, <2>4, <2>5, SetupEnds
<1> QED BY <1>1, <1>3, <1>4, <1>5, <1>6, <1>7

\* A step of the rollback that leads to the next.
LEMMA UndoStep ==
    ASSUME SetupInv, at \in 8..17, at' \in 15..17, setupTorn' \in BOOLEAN, mem' = mem,
           accepted' = accepted, draft' = draft, telegram' = telegram, creds' \in Keys, Recalled',
           at' = 15 => installed' \in Installed,
           at' = 16 /\ ~setupTorn' => installed' = Nothing,
           at' = 17 => Untouched'
    PROVE  SetupInv'
<1>1. Wizard'
  BY SetupNumbers DEF SetupInv, Wizard
<1>2. G!TypeOK'
  BY SetupNumbers DEF SetupInv, G!TypeOK, Keys, Providers
<1>3. G!TalksToWhatWasChosen'
  BY DEF SetupInv, G!TalksToWhatWasChosen
<1>4. G!ActivationIsWhole'
  BY SetupNumbers DEF G!ActivationIsWhole
<1>5. telegram' \in Providers
  BY SetupFacts
<1> QED BY <1>1, <1>2, <1>3, <1>4, <1>5, SetupNumbers DEF SetupInv

LEMMA SetupUndone ==
    ASSUME SetupInv,
           \/ G!Rollback \/ G!RestoreRoots
           \/ \E ok \in BOOLEAN : G!RestoreCredentials(ok) \/ G!RestoreTelegram(ok)
    PROVE  SetupInv'
<1>0. /\ creds \in Keys /\ telegram \in Providers /\ Answered(G!Blank)
      /\ draft # Nothing => Answered(draft)
      /\ setupTorn \in BOOLEAN
  BY SetupFacts
<1>1. CASE G!Rollback
  <2>1. /\ at \in 8..11 /\ at' = 15 /\ mem' = mem /\ accepted' = accepted /\ before' = before
        /\ draft' = draft /\ installed' = installed /\ creds' = creds /\ telegram' = telegram
        /\ setupTorn' = setupTorn
    BY <1>1, SetupNumbers DEF G!Rollback, G!Part
  <2>2. Recalled /\ installed \in Installed
    BY <2>1, SetupNumbers DEF SetupInv, PartsDone
  <2>3. Recalled'
    BY <2>1, <2>2 DEF Recalled
  <2> QED BY <1>0, <2>1, <2>2, <2>3, UndoStep
<1>2. CASE G!RestoreRoots
  <2>1. /\ at = 15 /\ at' = 16 /\ mem' = mem /\ accepted' = accepted /\ before' = before
        /\ draft' = draft /\ creds' = creds /\ telegram' = telegram
        /\ setupTorn' = (setupTorn \/ installed' # Nothing)
    BY <1>2, SetupNumbers DEF G!RestoreRoots, G!Part
  <2>2. Recalled /\ (~setupTorn' => ~setupTorn) /\ setupTorn' \in BOOLEAN
    BY <1>0, <2>1, SetupNumbers DEF SetupInv
  <2>3. Recalled'
    BY <2>1, <2>2 DEF Recalled
  <2>4. ~setupTorn' => installed' = Nothing
    BY <2>1
  <2>5. at \in 8..17 /\ at' = 16 /\ at' \in 15..17 /\ creds' \in Keys
    BY <1>0, <2>1
  <2>6. mem' = mem /\ accepted' = accepted /\ draft' = draft /\ telegram' = telegram
    BY <2>1
  <2> HIDE <1>2, <2>1
  <2> QED BY <2>2, <2>3, <2>4, <2>5, <2>6, UndoStep
<1>3. ASSUME NEW ok \in BOOLEAN, G!RestoreCredentials(ok) PROVE SetupInv'
  <2>1. /\ at = 16 /\ at' = 17 /\ mem' = mem /\ accepted' = accepted /\ before' = before
        /\ draft' = draft /\ installed' = installed /\ telegram' = telegram
        /\ creds' = IF ok THEN before.creds ELSE creds
        /\ setupTorn' = (setupTorn \/ (~ok /\ creds # before.creds))
    BY <1>3, SetupNumbers DEF G!RestoreCredentials, G!Part
  <2>2. /\ Recalled /\ (~setupTorn => installed = Nothing)
        /\ (~setupTorn' => ~setupTorn) /\ setupTorn' \in BOOLEAN
    BY <1>0, <2>1, SetupNumbers DEF SetupInv
  <2>3. Recalled' /\ creds' \in Keys
    BY <1>0, <2>1, <2>2 DEF Recalled
  <2>4. ~setupTorn' => creds' = before.creds
    BY <2>1
  <2>5. Untouched'
    BY <2>1, <2>2, <2>4 DEF Untouched, Recalled
  <2> QED BY <1>0, <2>1, <2>2, <2>3, <2>5, UndoStep
<1>4. ASSUME NEW ok \in BOOLEAN, G!RestoreTelegram(ok) PROVE SetupInv'
  <2>1. /\ at = 17 /\ at' = (IF G!Recorded THEN 14 ELSE 0)
        /\ telegram' = IF ok THEN before.telegram ELSE telegram
        /\ mem' = G!Blank /\ accepted' = Nothing
        /\ draft' = draft /\ creds' = creds /\ installed' = installed /\ setupTorn' = setupTorn
    BY <1>4, SetupNumbers DEF G!RestoreTelegram, G!Forget
  <2>2. Untouched /\ telegram' \in Providers
    BY <1>0, <2>1, SetupNumbers DEF SetupInv, Recalled
  <2>3. CASE at' = 0
    <3>1. Untouched'
      BY <2>1, <2>2 DEF Untouched
    <3> QED BY <1>0, <2>1, <2>2, <2>3, <3>1, WizardStep
  <2>4. CASE at' = 14
    <3>1. G!ActivationIsWhole'
      BY <2>4, SetupNumbers DEF G!ActivationIsWhole
    <3> QED BY <1>0, <2>1, <2>2, <2>4, <3>1, SetupEnds
  <2> QED BY <2>1, <2>3, <2>4
<1> QED BY <1>1, <1>2, <1>3, <1>4

LEMMA SetupDies == SetupInv /\ G!Die => SetupInv'
<1> SUFFICES ASSUME SetupInv, G!Die PROVE SetupInv'
  OBVIOUS
<1>0. /\ creds \in Keys /\ telegram \in Providers /\ Answered(G!Blank)
      /\ draft # Nothing => Answered(draft)
      /\ at \in 0..6 => Untouched
      /\ setupTorn \in BOOLEAN
  BY SetupFacts
<1>1. /\ at \in 1..12 \cup 15..17 /\ at' = (IF G!Recorded THEN 14 ELSE 0)
      /\ mem' = G!Blank /\ accepted' = Nothing
      /\ draft' = draft /\ creds' = creds /\ telegram' = telegram /\ installed' = installed
      /\ setupTorn' = (setupTorn \/ at \in 15..17)
  BY SetupNumbers DEF G!Die, G!Forget
<1>2. Nothing \notin Installed
  BY NothingAssumption DEF Installed, Talk, Providers, People
<1>3. at \in 8..12 => G!Recorded
  BY <1>2, SetupNumbers DEF SetupInv, PartsDone, G!Recorded
<1>4. at' = 0 => Untouched'
  <2>1. at \in 1..7 => Untouched
    BY <1>0, SetupNumbers DEF SetupInv
  <2>2. at \in 1..7 \/ at \in 8..12 \/ at \in 15..17
    BY <1>1
  <2>3. CASE at \in 1..7
    BY <1>1, <2>1, <2>3 DEF Untouched
  <2>4. CASE at \in 8..12
    <3>1. at' = 14
      BY <1>1, <1>3, <2>4
    <3> QED BY <3>1
  <2>5. CASE at \in 15..17
    BY <1>1, <2>5 DEF Untouched
  <2> QED BY <2>2, <2>3, <2>4, <2>5
<1>5. CASE at' = 0
  <2>1. setupTorn' \in BOOLEAN
    BY <1>0, <1>1
  <2> QED BY <1>0, <1>1, <1>4, <1>5, <2>1, WizardStep
<1>6. CASE at' = 14
  <2>1. setupTorn' \in BOOLEAN
    BY <1>0, <1>1
  <2>2. G!ActivationIsWhole'
    BY <1>6, SetupNumbers DEF G!ActivationIsWhole
  <2> QED BY <1>0, <1>1, <1>6, <2>1, <2>2, SetupEnds
<1> QED BY <1>1, <1>5, <1>6

LEMMA SetupNext == SetupInv /\ [G!Next]_setupVars => SetupInv'
<1> SUFFICES ASSUME SetupInv, [G!Next]_setupVars PROVE SetupInv'
  OBVIOUS
<1>1. CASE UNCHANGED setupVars
  BY <1>1 DEF setupVars, SetupInv, G!TypeOK, G!TalksToWhatWasChosen, G!ActivationIsWhole, G!Reopens,
     Wizard, PartsDone, Recalled, Untouched
<1>2. CASE G!StartFresh \/ G!Resume \/ G!Exit \/ G!Back \/ G!LeaveAuthoring \/ G!BackFromAuthoring
           \/ G!AnswerProfile \/ G!AcceptReview \/ G!AcceptFirst
           \/ (\E b \in BOOLEAN : G!StartOver(b) \/ G!ChooseConnectors(b))
           \/ (\E p \in Cloud \cup OnMachine : G!ChooseProvider(p) \/ G!SaveForLater(p))
  <2>1. \/ at = G!Off \/ at \in G!Steps
        \/ at \in {G!Provider, G!Connectors, G!Persona, G!Profile, G!Review, G!First}
    BY Zenon, <1>2 DEF G!StartFresh, G!Resume, G!Exit, G!Back, G!LeaveAuthoring,
       G!BackFromAuthoring, G!AnswerProfile, G!AcceptReview, G!AcceptFirst, G!StartOver, G!Begin,
       G!ChooseConnectors, G!ChooseProvider, G!SaveForLater
  <2>2. at \in 0..6
    BY <2>1, SetupNumbers
  <2> QED BY <1>2, <2>2, SetupWizard
<1> QED BY <1>1, <1>2, SetupPersona, SetupActivation, SetupUndone, SetupDies DEF G!Next

-----------------------------------------------------------------------------
(* Connectors.                                                             *)

\* What was removed is in no result.
ConnectorInv ==
    /\ C!TypeOK
    /\ \A d \in Documents : stored.state[d] \in {"suppressed", "deleted"} => d \notin stored.results

LEMMA ConnectorInit == C!Init => ConnectorInv
BY DEF C!Init, ConnectorInv, C!TypeOK, C!NoFile, C!Copy

\* What stands of a document from one file to the next.
Standing(d, f, g) ==
    /\ f.state[d] \in {"suppressed", "deleted"} =>
          /\ g.state[d] \in {"suppressed", "deleted"}
          /\ d \notin g.results
          /\ g.text[d] \in {f.text[d], Empty}
    /\ d \in g.results \ f.results => f.status = "connected"

\* A change of one service leads from the file to a copy that stands for it.
LEMMA ConnectorChange ==
    ASSUME ConnectorInv, NEW s \in Services, NEW f \in C!Copy, C!Change(s, f),
           adapter' \subseteq Services, source' = source,
           \A d \in Documents : Standing(d, stored, f),
           \A d \in Documents : f.state[d] \in {"suppressed", "deleted"} => d \notin f.results
    PROVE  ConnectorInv' /\ \A d \in Documents : Standing(d, stored, stored')
<1>1. held' = [held EXCEPT ![s] = f] /\ stored' \in {f, stored}
  BY DEF C!Change
<1>2. C!TypeOK'
  BY <1>1 DEF ConnectorInv, C!TypeOK
<1>3. \A d \in Documents : Standing(d, stored, stored)
  BY DEF ConnectorInv, Standing
<1>4. CASE stored' = f
  BY <1>2, <1>4 DEF ConnectorInv
<1>5. CASE stored' = stored
  BY <1>2, <1>3, <1>5 DEF ConnectorInv
<1> QED BY <1>1, <1>4, <1>5

LEMMA ConnectorNext ==
    ASSUME ConnectorInv, [C!Next]_connectorVars
    PROVE  ConnectorInv' /\ \A d \in Documents : Standing(d, stored, stored')
<1>0. /\ stored \in C!Copy /\ held \in [Services -> C!Copy] /\ adapter \subseteq Services
      /\ source \in [Documents -> Texts \cup {Empty}]
      /\ \A d \in Documents : stored.state[d] \in {"suppressed", "deleted"} => d \notin stored.results
  BY DEF ConnectorInv, C!TypeOK
<1>00. /\ stored.state \in [Documents -> {"none", "active", "suppressed", "deleted"}]
       /\ stored.text \in [Documents -> Texts \cup {Empty}]
       /\ stored.results \subseteq Documents
  BY <1>0 DEF C!Copy
<1>1. ASSUME stored' = stored, C!TypeOK'
      PROVE  ConnectorInv' /\ \A d \in Documents : Standing(d, stored, stored')
  BY <1>0, <1>1 DEF ConnectorInv, Standing
<1>2. CASE C!SourceChanges \/ UNCHANGED connectorVars
  <2>1. stored' = stored /\ C!TypeOK'
    BY <1>0, <1>2 DEF C!SourceChanges, connectorVars, C!TypeOK
  <2> QED BY <1>1, <2>1
<1>3. ASSUME NEW s \in Services, C!Restart(s)
      PROVE  ConnectorInv' /\ \A d \in Documents : Standing(d, stored, stored')
  <2>1. stored' = stored /\ C!TypeOK'
    BY <1>0, <1>3 DEF C!Restart, C!TypeOK
  <2> QED BY <1>1, <2>1
<1>4. ASSUME NEW s \in Services, NEW f, C!Change(s, f), f \in C!Copy, adapter' \subseteq Services, source' = source,
             f.state = stored.state, f.text = stored.text, f.results = stored.results
      PROVE  ConnectorInv' /\ \A d \in Documents : Standing(d, stored, stored')
  <2>1. \A d \in Documents : Standing(d, stored, f)
    BY <1>0, <1>4 DEF Standing
  <2> QED BY <1>0, <1>4, <2>1, ConnectorChange
<1>5. ASSUME NEW s \in Services,
             \/ C!Connect(s) \/ C!SynchronizeFails(s)
             \/ \E st \in {"revoked", "disconnected"} : C!End(s, st)
      PROVE  ConnectorInv' /\ \A d \in Documents : Standing(d, stored, stored')
  <2>1. PICK f \in C!Copy : /\ C!Change(s, f)
                            /\ f.state = stored.state /\ f.text = stored.text /\ f.results = stored.results
    <3>1. CASE C!Connect(s)
      <4> DEFINE g == [stored EXCEPT !.status = "connected", !.health = "healthy"]
      <4>1. C!Change(s, g)
        BY <3>1 DEF C!Connect, C!Reloaded
      <4>2. g \in C!Copy /\ g.state = stored.state /\ g.text = stored.text /\ g.results = stored.results
        BY <1>0 DEF C!Copy
      <4> QED BY <4>1, <4>2
    <3>2. CASE C!SynchronizeFails(s)
      <4> DEFINE g == [stored EXCEPT !.health = "failed"]
      <4>1. C!Change(s, g)
        BY <3>2 DEF C!SynchronizeFails, C!Reloaded
      <4>2. g \in C!Copy /\ g.state = stored.state /\ g.text = stored.text /\ g.results = stored.results
        BY <1>0 DEF C!Copy
      <4> QED BY <4>1, <4>2
    <3>3. ASSUME NEW st \in {"revoked", "disconnected"}, C!End(s, st)
          PROVE  \E f \in C!Copy : /\ C!Change(s, f)
                            /\ f.state = stored.state /\ f.text = stored.text /\ f.results = stored.results
      <4> DEFINE g == [stored EXCEPT !.status = st, !.health = st]
      <4>1. C!Change(s, g)
        BY <3>3 DEF C!End, C!Reloaded
      <4>2. g \in C!Copy /\ g.state = stored.state /\ g.text = stored.text /\ g.results = stored.results
        BY <1>0 DEF C!Copy
      <4> QED BY <4>1, <4>2
    <3> QED BY <1>5, <3>1, <3>2, <3>3
  <2>2. adapter' \subseteq Services /\ source' = source
    BY <1>0, <1>5 DEF C!Connect, C!SynchronizeFails, C!End
  <2> QED BY <1>4, <2>1, <2>2
<1>6. ASSUME NEW s \in Services, C!Synchronize(s)
      PROVE  ConnectorInv' /\ \A d \in Documents : Standing(d, stored, stored')
  <2> DEFINE f == C!Synchronized(stored)
             I2 == C!Imported(stored)
  <2>1. /\ C!Change(s, f) /\ stored.status = "connected"
        /\ adapter' = adapter /\ source' = source
    BY <1>6 DEF C!Synchronize, C!Reloaded
  <2>2. /\ I2 \subseteq Documents
        /\ \A d \in I2 : stored.state[d] \in {"none", "active"} /\ source[d] \in Texts \cup {Empty}
    BY <1>0 DEF C!Imported
  <2>3. /\ f \in C!Copy
        /\ f.state = [d \in Documents |-> IF d \in I2 THEN "active" ELSE stored.state[d]]
        /\ f.text = [d \in Documents |-> IF d \in I2 THEN source[d] ELSE stored.text[d]]
        /\ f.results = {d \in stored.results : stored.state[d] \in {"none", "active"}} \cup I2
    <3> HIDE DEF I2
    <3>1. f = [stored EXCEPT !.health = "healthy",
                 !.state = [d \in Documents |-> IF d \in I2 THEN "active" ELSE stored.state[d]],
                 !.text = [d \in Documents |-> IF d \in I2 THEN source[d] ELSE stored.text[d]],
                 !.results = {d \in stored.results : stored.state[d] \in {"none", "active"}} \cup I2]
      BY Zenon DEF C!Synchronized, I2
    <3> HIDE DEF f
    <3>2. /\ [d \in Documents |-> IF d \in I2 THEN "active" ELSE stored.state[d]]
                \in [Documents -> {"none", "active", "suppressed", "deleted"}]
          /\ [d \in Documents |-> IF d \in I2 THEN source[d] ELSE stored.text[d]]
                \in [Documents -> Texts \cup {Empty}]
      BY <1>00, <2>2
    <3> QED BY <1>0, <1>00, <2>2, <3>1, <3>2 DEF C!Copy
  <2> HIDE DEF f, I2
  <2>4. \A d \in Documents : Standing(d, stored, f)
    BY <1>0, <2>1, <2>2, <2>3 DEF Standing
  <2>5. \A d \in Documents : f.state[d] \in {"suppressed", "deleted"} => d \notin f.results
    BY <1>0, <2>2, <2>3
  <2> QED BY <1>0, <2>1, <2>3, <2>4, <2>5, ConnectorChange
<1>7. ASSUME NEW s \in Services, NEW mode \in {"suppressed", "deleted"}, C!Remove(s, mode)
      PROVE  ConnectorInv' /\ \A d \in Documents : Standing(d, stored, stored')
  <2> DEFINE f == C!Removed(stored, mode)
             known == {d \in Documents : stored.state[d] # "none"}
  <2>1. C!Change(s, f) /\ adapter' = adapter /\ source' = source
    BY <1>7 DEF C!Remove, C!Reloaded
  <2>2. /\ f \in C!Copy
        /\ f.state = [d \in Documents |-> IF d \in known THEN mode ELSE "none"]
        /\ f.text = [d \in Documents |-> IF d \in known /\ mode = "deleted" THEN Empty ELSE stored.text[d]]
        /\ f.results = {}
    <3>1. f = [stored EXCEPT !.state = [d \in Documents |-> IF d \in known THEN mode ELSE "none"],
                 !.text = [d \in Documents |->
                              IF d \in known /\ mode = "deleted" THEN Empty ELSE stored.text[d]],
                 !.results = {}]
      BY Zenon DEF C!Removed
    <3> HIDE DEF f, known
    <3> QED BY <1>0, <1>00, <3>1 DEF C!Copy
  <2>3. \A d \in Documents : stored.state[d] \in {"suppressed", "deleted"} => d \in known
    OBVIOUS
  <2> HIDE DEF f, known
  <2>4. \A d \in Documents : Standing(d, stored, f)
    BY <1>0, <2>2, <2>3 DEF Standing
  <2> QED BY <1>0, <2>1, <2>2, <2>4, ConnectorChange
<1> QED BY <1>2, <1>3, <1>5, <1>6, <1>7 DEF C!Next

-----------------------------------------------------------------------------
(* Personas.                                                               *)

Version == [id : Ids, print : Fingerprints, before : Nat]
PersonaFile == [authored : SUBSET Ids, active : Presets \cup Ids \cup {Nothing},
                versions : Seq(Version), private : Nat, revision : 0..MaxRevision]

PersonaInv == P!TypeOK /\ file \in PersonaFile

LEMMA PersonaInit == P!Init => PersonaInv
<1> SUFFICES ASSUME P!Init PROVE PersonaInv
  OBVIOUS
<1>1. PICK p \in Presets : file = [authored |-> {}, active |-> p, versions |-> <<>>,
                                   private |-> 0, revision |-> 1]
  BY DEF P!Init
<1>2. DOMAIN copy = Callers
  BY DEF P!Init
<1> QED BY <1>1, <1>2, BoundsAssumption DEF PersonaInv, PersonaFile, P!TypeOK

\* The latest of some versions is one of them, or there is none.
LEMMA LatestIs ==
    ASSUME NEW n \in Nat, NEW ns, ns \subseteq 1..n
    PROVE  P!Latest(ns) \in 0..n
<1>1. CASE ns = {}
  BY <1>1 DEF P!Latest
<1>2. CASE ns # {}
  <2>1. \E m \in ns : \A k \in ns : k <= m
    <3>1. ns \subseteq 0..n
      OBVIOUS
    <3> QED BY <1>2, <3>1, Greatest
  <2> DEFINE latest == CHOOSE m \in ns : \A k \in ns : k <= m
  <2>2. latest \in ns
    BY <2>1
  <2>3. P!Latest(ns) = latest
    BY Zenon, <1>2 DEF P!Latest
  <2> HIDE DEF latest
  <2> QED BY <2>2, <2>3
<1> QED BY <1>1, <1>2

\* A file that undoes nothing of another.
Undoes(f, g) ==
    ~ /\ Len(g.versions) >= Len(f.versions)
      /\ \A n \in DOMAIN f.versions : g.versions[n] = f.versions[n]
      /\ g.revision >= f.revision
      /\ g.revision = f.revision => g.active = f.active /\ g.private = f.private

LEMMA PersonaWrite ==
    ASSUME PersonaInv, NEW c \in Callers, NEW f \in PersonaFile, P!Write(c, f),
           f.private \in 0..Len(f.versions)
    PROVE  PersonaInv' /\ file' = f
BY DEF PersonaInv, P!TypeOK, P!Write, PersonaFile, Version

LEMMA PersonaNext ==
    ASSUME PersonaInv, [P!Next]_personaVars
    PROVE  PersonaInv' /\ ~Undoes(file, file')
<1>0. /\ file \in PersonaFile /\ file.private \in 0..Len(file.versions)
      /\ file.versions \in Seq(Version) /\ file.revision \in 0..MaxRevision
      /\ Len(file.versions) \in Nat /\ DOMAIN file.versions = 1..Len(file.versions)
      /\ DOMAIN copy = Callers
  BY DEF PersonaInv, P!TypeOK, PersonaFile
<1>1. ASSUME file' = file, DOMAIN copy' = Callers
      PROVE  PersonaInv' /\ ~Undoes(file, file')
  BY <1>0, <1>1 DEF PersonaInv, P!TypeOK, Undoes
<1>2. CASE UNCHANGED personaVars
  BY <1>0, <1>1, <1>2 DEF personaVars
<1>3. ASSUME NEW c \in Callers, P!Load(c)
      PROVE  PersonaInv' /\ ~Undoes(file, file')
  BY <1>0, <1>1, <1>3 DEF P!Load
<1>4. ASSUME NEW c \in Callers, NEW authored \in SUBSET Ids,
             P!Write(c, [file EXCEPT !.authored = authored])
      PROVE  PersonaInv' /\ ~Undoes(file, file')
  <2> DEFINE f == [file EXCEPT !.authored = authored]
  <2>1. /\ f \in PersonaFile /\ f.versions = file.versions /\ f.private = file.private
        /\ f.active = file.active /\ f.revision = file.revision
    BY <1>0 DEF PersonaFile
  <2>2. P!Write(c, f)
    BY <1>4
  <2> HIDE DEF f
  <2>3. PersonaInv' /\ file' = f
    BY <1>0, <2>1, <2>2, PersonaWrite
  <2> QED BY <1>0, <2>1, <2>3 DEF Undoes
<1>5. ASSUME NEW c \in Callers, NEW i \in Ids, P!SaveAuthored(c, i) \/ P!RemoveAuthored(c, i)
      PROVE  PersonaInv' /\ ~Undoes(file, file')
  <2>1. /\ file.authored \cup {i} \in SUBSET Ids
        /\ file.authored \ {i} \in SUBSET Ids
    BY <1>0 DEF PersonaFile
  <2> QED BY <1>4, <1>5, <2>1 DEF P!SaveAuthored, P!RemoveAuthored, P!Refreshed
<1>6. ASSUME NEW c \in Callers, NEW a \in Presets \cup Ids \cup {Nothing},
             NEW versions \in Seq(Version), NEW p \in 0..Len(versions), P!SelectionStands(c),
             P!Selecting(c, a, versions, p),
             Len(versions) >= Len(file.versions),
             \A n \in DOMAIN file.versions : versions[n] = file.versions[n]
      PROVE  PersonaInv' /\ ~Undoes(file, file')
  <2> DEFINE f == [file EXCEPT !.active = a, !.versions = versions,
                               !.private = p, !.revision = file.revision + 1]
  <2>1. file.revision + 1 \in 0..MaxRevision
    BY <1>0, <1>6, BoundsAssumption DEF P!SelectionStands, P!Refreshed
  <2>2. /\ f \in PersonaFile /\ f.versions = versions /\ f.private = p
        /\ f.revision = file.revision + 1
    <3>1. p \in Nat
      OBVIOUS
    <3> QED BY <1>0, <2>1, <3>1 DEF PersonaFile
  <2>3. P!Write(c, f)
    BY <1>6 DEF P!Selecting, P!Refreshed
  <2> HIDE DEF f
  <2>4. PersonaInv' /\ file' = f
    BY <1>0, <2>2, <2>3, PersonaWrite
  <2>5. ~Undoes(file, f)
    BY <1>0, <1>6, <2>2 DEF Undoes
  <2> QED BY <2>4, <2>5
<1>7. /\ \A n \in DOMAIN file.versions : file.versions[n] = file.versions[n]
      /\ Len(file.versions) >= Len(file.versions)
      /\ file.active \in Presets \cup Ids \cup {Nothing}
  BY <1>0 DEF PersonaFile
<1>8. ASSUME NEW c \in Callers, NEW p \in Presets \cup Ids, P!Select(c, p)
      PROVE  PersonaInv' /\ ~Undoes(file, file')
  <2>1. 0 \in 0..Len(file.versions)
    BY <1>0
  <2> QED BY <1>0, <1>6, <1>7, <1>8, <2>1 DEF P!Select, P!Refreshed
<1>9. ASSUME NEW c \in Callers, NEW n \in DOMAIN file.versions, P!Rollback(c, n)
      PROVE  PersonaInv' /\ ~Undoes(file, file')
  <2>1. n \in 0..Len(file.versions)
    BY <1>0
  <2> QED BY <1>0, <1>6, <1>7, <1>9, <2>1 DEF P!Rollback, P!Refreshed
<1>10. ASSUME NEW c \in Callers, NEW i \in Ids, NEW print \in Fingerprints, P!Import(c, i, print)
       PROVE  PersonaInv' /\ ~Undoes(file, file')
  <2> DEFINE known == P!Known(file, i, print)
             latest == P!Latest(P!OfPersona(file, i))
             new == Append(file.versions, [id |-> i, print |-> print, before |-> latest])
  <2>1. known \in 0..Len(file.versions) /\ latest \in 0..Len(file.versions)
    <3>1. /\ P!OfPersona(file, i) \subseteq 1..Len(file.versions)
          /\ {n \in P!OfPersona(file, i) : file.versions[n].print = print} \subseteq 1..Len(file.versions)
      BY <1>0 DEF P!OfPersona
    <3> QED BY <1>0, <3>1, LatestIs DEF P!Known
  <2>2. P!SelectionStands(c)
    BY <1>10 DEF P!Import
  <2>3. P!Selecting(c, file.active, IF known # 0 THEN file.versions ELSE new,
                    IF known # 0 THEN known ELSE Len(file.versions) + 1)
    BY <1>10 DEF P!Import, P!Refreshed
  <2>4. /\ new \in Seq(Version) /\ Len(new) = Len(file.versions) + 1
        /\ \A n \in DOMAIN file.versions : new[n] = file.versions[n]
    <3> HIDE DEF latest
    <3>1. [id |-> i, print |-> print, before |-> latest] \in Version
      BY <2>1 DEF Version
    <3> QED BY <1>0, <3>1
  <2> HIDE DEF known, new
  <2>5. CASE known # 0
    <3>1. P!Selecting(c, file.active, file.versions, known)
      BY Zenon, <2>3, <2>5
    <3> QED BY <1>0, <1>6, <1>7, <2>1, <2>2, <3>1
  <2>6. CASE known = 0
    <3>1. P!Selecting(c, file.active, new, Len(file.versions) + 1)
      BY Zenon, <2>3, <2>6
    <3>2. Len(file.versions) + 1 \in 0..Len(new) /\ Len(new) >= Len(file.versions)
      BY <1>0, <2>4
    <3> QED BY <1>6, <1>7, <2>2, <2>4, <3>1, <3>2
  <2> QED BY <2>5, <2>6
<1> QED BY <1>2, <1>3, <1>5, <1>8, <1>9, <1>10 DEF P!Next

-----------------------------------------------------------------------------
(* Trials.                                                                 *)

\* All evidence that counts is of the revision being assessed.
OfItsRevision(t) == \A e \in T!Current(t) : e.of \in {Nothing, t.revision}

\* Nothing is lost from one trial to the next, and an acceptance is earned.
Grows(t, u) ==
    /\ T!IsPrefix(t.evidence, u.evidence)
    /\ T!IsPrefix(t.decisions, u.decisions)
    /\ Len(u.decisions) > Len(t.decisions) /\ T!Last(u.decisions).status = "accepted" =>
          T!Accepted(u)

\* Whoever saw the version on file saw its revision, and an update that may
\* still be saved was made from what is on file.
TrialInv ==
    /\ T!TypeOK
    /\ trial # Nothing => OfItsRevision(trial)
    /\ \A c \in Callers : seen[c] # Nothing =>
          /\ trial # Nothing /\ seen[c].version <= trial.version
          /\ seen[c].version = trial.version => seen[c].revision = trial.revision
    /\ \A c \in Callers : update[c] # Nothing =>
          /\ update[c].version <= T!StoredVersion + 1
          /\ update[c].version = T!StoredVersion + 1 =>
                /\ OfItsRevision(update[c])
                /\ trial # Nothing => Grows(trial, update[c])

LEMMA TrialInit == T!Init => TrialInv
BY DEF T!Init, TrialInv, T!TypeOK

LEMMA PrefixIs ==
    ASSUME NEW S1, NEW s \in Seq(S1), NEW x \in S1
    PROVE  /\ T!IsPrefix(s, s) /\ T!IsPrefix(s, Append(s, x))
           /\ T!Last(Append(s, x)) = x
           /\ Append(s, x) \in Seq(S1) /\ Len(Append(s, x)) = Len(s) + 1
BY DEF T!IsPrefix, T!Last

\* The trial a command made an update of.
LEMMA TrialUpdates ==
    ASSUME TrialInv, NEW c \in Callers, update[c] = Nothing, NEW u \in T!Trial,
           update' = [update EXCEPT ![c] = u], T!Turn(c),
           u.version <= T!StoredVersion + 1,
           u.version = T!StoredVersion + 1 => OfItsRevision(u) /\ (trial # Nothing => Grows(trial, u))
    PROVE  TrialInv'
<1>1. trial' = trial /\ seen' = [seen EXCEPT ![c] = Nothing]
  BY DEF T!Turn
<1>2. T!TypeOK'
  BY <1>1 DEF TrialInv, T!TypeOK
<1>3. (T!StoredVersion)' = T!StoredVersion
  BY <1>1 DEF T!StoredVersion
<1>4. \A d \in Callers : seen'[d] # Nothing => d # c /\ seen'[d] = seen[d]
  BY <1>1 DEF TrialInv, T!TypeOK
<1>5. \A d \in Callers : update'[d] = (IF d = c THEN u ELSE update[d])
  BY DEF TrialInv, T!TypeOK
<1>6. \A d \in Callers : seen'[d] # Nothing =>
          /\ trial # Nothing /\ seen'[d].version <= trial.version
          /\ seen'[d].version = trial.version => seen'[d].revision = trial.revision
  BY <1>4 DEF TrialInv
<1>7. \A d \in Callers : update'[d] # Nothing =>
          /\ update'[d].version <= T!StoredVersion + 1
          /\ update'[d].version = T!StoredVersion + 1 =>
                /\ OfItsRevision(update'[d])
                /\ trial # Nothing => Grows(trial, update'[d])
  <2> TAKE d \in Callers
  <2>1. CASE d = c
    BY <1>5, <2>1
  <2>2. CASE d # c
    BY <1>5, <2>2 DEF TrialInv
  <2> QED BY <2>1, <2>2
<1> QED BY <1>1, <1>2, <1>3, <1>6, <1>7 DEF TrialInv, OfItsRevision, Grows, T!Current

\* What a caller reads of the trial on file.
LEMMA TrialRead ==
    ASSUME TrialInv, NEW c \in Callers, T!Reads(c)
    PROVE  /\ trial \in T!Trial /\ trial # Nothing /\ update[c] = Nothing
           /\ trial.version + 1 \in 1..MaxVersion /\ T!StoredVersion = trial.version
           /\ trial.evidence \in Seq(T!Item) /\ trial.decisions \in Seq(T!Decision)
           /\ trial.revision \in Revisions /\ OfItsRevision(trial)
           /\ T!AsExpected(c) => seen[c].revision = trial.revision
<1>1. trial \in T!Trial /\ trial # Nothing /\ update[c] = Nothing
  BY DEF TrialInv, T!TypeOK, T!Reads
<1>2. trial.version + 1 \in 1..MaxVersion
  BY SMTT(30), <1>1, BoundsAssumption DEF T!Reads, T!Trial
<1> QED BY <1>1, <1>2 DEF TrialInv, T!StoredVersion, T!Trial, T!AsExpected

LEMMA TrialStart ==
    ASSUME TrialInv, NEW c \in Callers, T!Start(c)
    PROVE  TrialInv'
<1> DEFINE u == [version |-> 1, revision |-> AtFirst, start |-> 0, evidence |-> <<>>,
                 decisions |-> <<T!Pending(AtFirst)>>]
<1>1. u \in T!Trial
  BY TrialAssumption, BoundsAssumption DEF T!Trial, T!Pending, T!Decision
<1>2. OfItsRevision(u) /\ u.version = 1
  BY DEF OfItsRevision, T!Current
<1>3. update[c] = Nothing /\ update' = [update EXCEPT ![c] = u] /\ T!Turn(c)
  BY DEF T!Start
<1>4. T!StoredVersion \in Nat /\ (T!StoredVersion = 0 => trial = Nothing)
  BY DEF TrialInv, T!TypeOK, T!StoredVersion, T!Trial
<1> HIDE DEF u
<1>5. u.version <= T!StoredVersion + 1 /\ (u.version = T!StoredVersion + 1 => trial = Nothing)
  BY <1>2, <1>4
<1> QED BY <1>1, <1>2, <1>3, <1>5, TrialUpdates

\* The next version of a trial.
NextIs(n, t) ==
    /\ n \in T!Trial /\ n.version = t.version + 1 /\ n.revision = t.revision /\ n.start = t.start
    /\ n.evidence = t.evidence /\ n.decisions = t.decisions

LEMMA NextTrial ==
    ASSUME NEW t \in T!Trial, t.version + 1 \in 1..MaxVersion
    PROVE  NextIs(T!Next1(t), t)
BY DEF NextIs, T!Next1, T!Trial

LEMMA TrialRecord ==
    ASSUME TrialInv, NEW c \in Callers, NEW a \in Metrics \cup {"check"}, NEW good \in BOOLEAN,
           NEW named \in BOOLEAN, T!Record(c, a, good, named)
    PROVE  TrialInv'
<1>1. /\ trial \in T!Trial /\ trial # Nothing /\ update[c] = Nothing
      /\ trial.version + 1 \in 1..MaxVersion /\ T!StoredVersion = trial.version
      /\ trial.evidence \in Seq(T!Item) /\ trial.decisions \in Seq(T!Decision)
      /\ trial.revision \in Revisions /\ OfItsRevision(trial)
      /\ T!AsExpected(c) => seen[c].revision = trial.revision
  BY TrialRead DEF T!Record
<1> DEFINE of == IF named THEN seen[c].revision ELSE Nothing
           item == [about |-> a, good |-> good, of |-> of]
           u == [T!Next1(trial) EXCEPT !.evidence = Append(@, item)]
<1>2. of \in {Nothing, trial.revision} /\ of \in Revisions \cup {Nothing}
  BY <1>1 DEF T!Record
<1>3. update' = [update EXCEPT ![c] = u] /\ T!Turn(c)
  BY DEF T!Record
<1> HIDE DEF of
<1>4. item \in T!Item /\ item.of = of
  BY <1>2 DEF T!Item
<1> HIDE DEF item
<1>5. /\ u \in T!Trial /\ u.version = trial.version + 1 /\ u.revision = trial.revision
      /\ u.start = trial.start /\ u.evidence = Append(trial.evidence, item)
      /\ u.decisions = trial.decisions
  <2> DEFINE n == T!Next1(trial)
             new == Append(n.evidence, item)
  <2>1. NextIs(n, trial)
    BY <1>1, NextTrial
  <2>2. new \in Seq(T!Item) /\ new = Append(trial.evidence, item)
    BY <1>1, <1>4, <2>1 DEF NextIs
  <2>3. u = [n EXCEPT !.evidence = new]
    OBVIOUS
  <2> HIDE DEF n, new, u
  <2> QED BY <2>1, <2>2, <2>3 DEF NextIs, T!Trial
<1> HIDE DEF u
<1>6. OfItsRevision(u)
  <2>1. T!Current(u) \subseteq T!Current(trial) \cup {item}
    <3>1. trial.start \in Nat
      BY <1>1 DEF T!Trial
    <3> QED BY <1>1, <1>4, <1>5, <3>1 DEF T!Current
  <2> QED BY <1>1, <1>2, <1>4, <1>5, <2>1 DEF OfItsRevision
<1>7. Grows(trial, u)
  <2>1. T!IsPrefix(trial.evidence, u.evidence) /\ T!IsPrefix(trial.decisions, u.decisions)
    BY <1>1, <1>4, <1>5 DEF T!IsPrefix
  <2> QED BY <1>1, <1>5, <2>1 DEF Grows
<1>8. u.version <= T!StoredVersion + 1
  BY <1>1, <1>5
<1> QED BY <1>1, <1>3, <1>5, <1>6, <1>7, <1>8, TrialUpdates

\* A decision added to what the trial holds, of a revision and its evidence.
Decided(t, r, from, x) ==
    [T!Next1(t) EXCEPT !.revision = r, !.start = from, !.decisions = Append(@, x)]

LEMMA TrialDecision ==
    ASSUME TrialInv, NEW c \in Callers, T!Reads(c), NEW r \in Revisions, NEW from \in Nat,
           NEW x \in T!Decision
    PROVE  /\ Decided(trial, r, from, x) \in T!Trial
           /\ Decided(trial, r, from, x).version = trial.version + 1
           /\ Decided(trial, r, from, x).revision = r
           /\ Decided(trial, r, from, x).start = from
           /\ Decided(trial, r, from, x).evidence = trial.evidence
           /\ T!IsPrefix(trial.evidence, Decided(trial, r, from, x).evidence)
           /\ T!IsPrefix(trial.decisions, Decided(trial, r, from, x).decisions)
           /\ T!Last(Decided(trial, r, from, x).decisions) = x
<1> DEFINE u == Decided(trial, r, from, x)
<1>1. /\ trial \in T!Trial /\ trial.version + 1 \in 1..MaxVersion
      /\ trial.evidence \in Seq(T!Item) /\ trial.decisions \in Seq(T!Decision)
  BY TrialRead
<1>2. NextIs(T!Next1(trial), trial)
  BY <1>1, NextTrial
<1>3. Append(trial.decisions, x) \in Seq(T!Decision)
  BY <1>1
<1>4. /\ u \in T!Trial /\ u.version = trial.version + 1 /\ u.revision = r
      /\ u.start = from /\ u.evidence = trial.evidence
      /\ u.decisions = Append(trial.decisions, x)
  <2> DEFINE n == T!Next1(trial)
  <2>1. u = [n EXCEPT !.revision = r, !.start = from, !.decisions = Append(n.decisions, x)]
    BY DEF Decided
  <2>2. Append(n.decisions, x) = Append(trial.decisions, x)
    BY <1>2 DEF NextIs
  <2> DEFINE ds == Append(n.decisions, x)
  <2>3. ds \in Seq(T!Decision) /\ ds = Append(trial.decisions, x)
    BY <1>3, <2>2
  <2>4. u = [n EXCEPT !.revision = r, !.start = from, !.decisions = ds]
    BY <2>1
  <2> HIDE DEF n, u, ds
  <2>5. NextIs(n, trial)
    BY <1>2 DEF n
  <2> QED BY <2>3, <2>4, <2>5 DEF NextIs, T!Trial
<1> HIDE DEF u
<1>5. T!IsPrefix(trial.decisions, Append(trial.decisions, x)) /\ T!Last(Append(trial.decisions, x)) = x
  BY <1>1 DEF T!IsPrefix, T!Last
<1>6. T!IsPrefix(trial.evidence, trial.evidence)
  BY <1>1 DEF T!IsPrefix
<1>7. /\ T!IsPrefix(trial.evidence, u.evidence) /\ T!IsPrefix(trial.decisions, u.decisions)
      /\ T!Last(u.decisions) = x
  BY <1>4, <1>5, <1>6
<1> QED BY <1>4, <1>7 DEF u

LEMMA TrialDecide ==
    ASSUME TrialInv, NEW c \in Callers, NEW s \in {"accepted", "rejected"}, T!Decide(c, s)
    PROVE  TrialInv'
<1>1. /\ trial \in T!Trial /\ trial # Nothing /\ update[c] = Nothing
      /\ T!StoredVersion = trial.version /\ trial.version \in Nat /\ trial.start \in Nat
      /\ trial.revision \in Revisions /\ OfItsRevision(trial) /\ T!Reads(c)
  BY TrialRead DEF T!Decide, T!Trial
<1> DEFINE new == [status |-> s, revision |-> trial.revision]
           u == [T!Next1(trial) EXCEPT !.decisions = Append(@, new)]
<1>2. new \in T!Decision /\ new.status = s /\ new.revision = trial.revision
  BY <1>1 DEF T!Decision
<1>3. update' = [update EXCEPT ![c] = u] /\ T!Turn(c)
  BY DEF T!Decide
<1> HIDE DEF new
<1>4. u = Decided(trial, trial.revision, trial.start, new)
  <2> DEFINE n == T!Next1(trial)
  <2>1. NextIs(n, trial)
    BY <1>1, TrialRead, NextTrial
  <2>2. u = [n EXCEPT !.decisions = Append(n.decisions, new)]
    OBVIOUS
  <2>3. Decided(trial, trial.revision, trial.start, new) =
           [n EXCEPT !.revision = trial.revision, !.start = trial.start,
                     !.decisions = Append(n.decisions, new)]
    BY DEF Decided
  <2> HIDE DEF n, u
  <2> QED BY <2>1, <2>2, <2>3 DEF NextIs, T!Trial
<1> HIDE DEF u
<1>5. /\ u \in T!Trial /\ u.version = trial.version + 1 /\ u.revision = trial.revision
      /\ u.start = trial.start /\ u.evidence = trial.evidence
      /\ T!IsPrefix(trial.evidence, u.evidence) /\ T!IsPrefix(trial.decisions, u.decisions)
      /\ T!Last(u.decisions) = new
  BY <1>1, <1>2, <1>4, TrialDecision
<1>6. T!Current(u) = T!Current(trial)
  BY <1>5 DEF T!Current
<1>7. OfItsRevision(u)
  BY <1>1, <1>5, <1>6 DEF OfItsRevision
<1>8. s = "accepted" => T!Accepted(u)
  BY <1>2, <1>5, <1>6 DEF T!Accepted, T!Decide, T!Complete, T!ChecksPass, T!UseIsPositive
<1>9. Grows(trial, u)
  BY <1>2, <1>5, <1>8 DEF Grows
<1>10. u.version <= T!StoredVersion + 1
  BY <1>1, <1>5
<1> QED BY <1>1, <1>3, <1>5, <1>7, <1>9, <1>10, TrialUpdates

LEMMA TrialReassess ==
    ASSUME TrialInv, NEW c \in Callers, NEW r \in Revisions, T!Reassess(c, r)
    PROVE  TrialInv'
<1>1. /\ trial \in T!Trial /\ trial # Nothing /\ update[c] = Nothing
      /\ T!StoredVersion = trial.version /\ trial.version \in Nat
      /\ Len(trial.evidence) \in Nat /\ T!Reads(c)
  BY TrialRead DEF T!Reassess, T!Trial
<1> DEFINE u == T!Reassessed(trial, r)
<1>2. T!Pending(r) \in T!Decision /\ T!Pending(r).status = "pending"
  BY DEF T!Decision, T!Pending
<1>3. update' = [update EXCEPT ![c] = u] /\ T!Turn(c)
  BY DEF T!Reassess
<1>4. u = Decided(trial, r, Len(trial.evidence), T!Pending(r))
  BY DEF T!Reassessed, Decided
<1> HIDE DEF u
<1>5. /\ u \in T!Trial /\ u.version = trial.version + 1 /\ u.revision = r
      /\ u.start = Len(trial.evidence) /\ u.evidence = trial.evidence
      /\ T!IsPrefix(trial.evidence, u.evidence) /\ T!IsPrefix(trial.decisions, u.decisions)
      /\ T!Last(u.decisions) = T!Pending(r)
  BY <1>1, <1>2, <1>4, TrialDecision
<1>6. T!Current(u) = {}
  BY <1>1, <1>5 DEF T!Current
<1>7. OfItsRevision(u)
  BY <1>6 DEF OfItsRevision
<1>8. Grows(trial, u)
  BY <1>2, <1>5 DEF Grows
<1>9. u.version <= T!StoredVersion + 1
  BY <1>1, <1>5
<1> QED BY <1>1, <1>3, <1>5, <1>7, <1>8, <1>9, TrialUpdates

\* A trial that stays as it is.
LEMMA TrialStays ==
    ASSUME TrialInv, trial' = trial, T!TypeOK',
           \A c \in Callers : seen'[c] \in {seen[c], Nothing} \/
              (trial # Nothing /\ seen'[c] = [version |-> trial.version, revision |-> trial.revision]),
           \A c \in Callers : update'[c] \in {update[c], Nothing}
    PROVE  TrialInv' /\ (trial # Nothing => Grows(trial, trial'))
<1>1. (T!StoredVersion)' = T!StoredVersion
  BY DEF T!StoredVersion
<1>2. ASSUME trial # Nothing PROVE Grows(trial, trial) /\ trial.version \in Nat
  <2>1. trial \in T!Trial
    BY <1>2 DEF TrialInv, T!TypeOK
  <2>2. /\ trial.evidence \in Seq(T!Item) /\ trial.decisions \in Seq(T!Decision)
        /\ trial.version \in Nat
    BY <2>1 DEF T!Trial
  <2> QED BY <2>2 DEF Grows, T!IsPrefix
<1>3. \A c \in Callers : seen'[c] # Nothing =>
          /\ trial # Nothing /\ seen'[c].version <= trial.version
          /\ seen'[c].version = trial.version => seen'[c].revision = trial.revision
  BY <1>2 DEF TrialInv
<1>4. \A c \in Callers : update'[c] # Nothing =>
          /\ update'[c].version <= T!StoredVersion + 1
          /\ update'[c].version = T!StoredVersion + 1 =>
                /\ OfItsRevision(update'[c])
                /\ trial # Nothing => Grows(trial, update'[c])
  BY DEF TrialInv
<1> QED BY <1>1, <1>2, <1>3, <1>4 DEF TrialInv, OfItsRevision, Grows, T!Current

LEMMA TrialSave ==
    ASSUME TrialInv, NEW c \in Callers, T!Save(c)
    PROVE  TrialInv' /\ (trial # Nothing => Grows(trial, trial'))
<1>1. /\ update[c] # Nothing /\ update' = [update EXCEPT ![c] = Nothing] /\ seen' = seen
      /\ trial' = (IF T!StoredVersion = update[c].version - 1 THEN update[c] ELSE trial)
  BY DEF T!Save, T!Saved
<1>2. update[c] \in T!Trial /\ update[c].version \in Nat /\ T!StoredVersion \in Nat
  BY <1>1 DEF TrialInv, T!TypeOK, T!Trial, T!StoredVersion
<1>3. T!TypeOK'
  BY <1>1, <1>2 DEF TrialInv, T!TypeOK
<1>4. \A d \in Callers : update'[d] = (IF d = c THEN Nothing ELSE update[d])
  BY <1>1 DEF TrialInv, T!TypeOK
<1>5. CASE T!StoredVersion # update[c].version - 1
  BY <1>1, <1>3, <1>4, <1>5, TrialStays
<1>6. CASE T!StoredVersion = update[c].version - 1
  <2>1. /\ trial' = update[c] /\ trial' # Nothing
        /\ update[c].version = T!StoredVersion + 1
    BY <1>1, <1>2, <1>6
  <2>2. OfItsRevision(update[c]) /\ (trial # Nothing => Grows(trial, update[c]))
    BY <1>1, <2>1 DEF TrialInv
  <2>3. (T!StoredVersion)' = T!StoredVersion + 1 /\ trial'.version = T!StoredVersion + 1
    BY <2>1 DEF T!StoredVersion
  <2>4. \A d \in Callers : seen'[d] # Nothing => seen'[d].version <= T!StoredVersion
                                                 /\ seen'[d].version \in Nat
    BY <1>1 DEF TrialInv, T!TypeOK, T!StoredVersion
  <2>5. \A d \in Callers : update'[d] # Nothing => update'[d].version <= T!StoredVersion + 1
                                                 /\ update'[d].version \in Nat
    BY <1>3, <1>4 DEF TrialInv, T!TypeOK, T!Trial
  <2>6. \A d \in Callers : seen'[d] # Nothing => seen'[d].version < trial'.version
    BY <1>2, <2>3, <2>4
  <2>7. \A d \in Callers : update'[d] # Nothing =>
           /\ update'[d].version <= (T!StoredVersion)' + 1
           /\ update'[d].version # (T!StoredVersion)' + 1
    BY <1>2, <2>3, <2>5
  <2>8. OfItsRevision(trial)' /\ (trial # Nothing => Grows(trial, trial'))
    BY <2>1, <2>2 DEF OfItsRevision, T!Current
  <2>9. \A d \in Callers : seen'[d] # Nothing =>
            /\ trial' # Nothing /\ seen'[d].version <= trial'.version
            /\ seen'[d].version = trial'.version => seen'[d].revision = trial'.revision
    <3> TAKE d \in Callers
    <3> HAVE seen'[d] # Nothing
    <3>1. seen'[d].version < trial'.version /\ seen'[d].version \in Nat /\ trial'.version \in Nat
      BY <1>2, <2>3, <2>4, <2>6
    <3> QED BY <2>1, <3>1
  <2> QED BY <1>3, <2>7, <2>8, <2>9 DEF TrialInv
<1> QED BY <1>5, <1>6

LEMMA TrialNext ==
    ASSUME TrialInv, [T!Next]_trialVars
    PROVE  TrialInv' /\ (trial # Nothing => Grows(trial, trial'))
<1>0. trial \in T!Trial \cup {Nothing} /\ update \in [Callers -> T!Trial \cup {Nothing}]
      /\ seen \in [Callers -> [version : 1..MaxVersion, revision : Revisions] \cup {Nothing}]
  BY DEF TrialInv, T!TypeOK
<1>1. CASE UNCHANGED trialVars
  <2>1. trial' = trial /\ seen' = seen /\ update' = update /\ T!TypeOK'
    BY <1>0, <1>1 DEF trialVars, T!TypeOK
  <2> QED BY <2>1, TrialStays
<1>2. ASSUME NEW c \in Callers, T!Inspect(c)
      PROVE  TrialInv' /\ (trial # Nothing => Grows(trial, trial'))
  <2>1. /\ trial # Nothing /\ trial' = trial /\ update' = update
        /\ seen' = [seen EXCEPT ![c] = [version |-> trial.version, revision |-> trial.revision]]
    BY <1>2 DEF T!Inspect
  <2>2. T!TypeOK'
    BY <1>0, <2>1 DEF T!TypeOK, T!Trial
  <2>3. \A d \in Callers : seen'[d] = seen[d]
              \/ seen'[d] = [version |-> trial.version, revision |-> trial.revision]
    BY <1>0, <2>1
  <2> QED BY <2>1, <2>2, <2>3, TrialStays
<1>3. ASSUME NEW c \in Callers, T!Die(c)
      PROVE  TrialInv' /\ (trial # Nothing => Grows(trial, trial'))
  <2>1. trial' = trial /\ seen' = seen /\ update' = [update EXCEPT ![c] = Nothing]
    BY <1>3 DEF T!Die
  <2>2. T!TypeOK' /\ \A d \in Callers : update'[d] \in {update[d], Nothing}
    BY <1>0, <2>1 DEF T!TypeOK
  <2> QED BY <2>1, <2>2, TrialStays
<1>4. ASSUME trial' = trial PROVE trial # Nothing => Grows(trial, trial')
  <2> HAVE trial # Nothing
  <2>1. trial.evidence \in Seq(T!Item) /\ trial.decisions \in Seq(T!Decision)
    BY <1>0 DEF T!Trial
  <2> QED BY <1>4, <2>1 DEF Grows, T!IsPrefix
<1>5. ASSUME NEW c \in Callers,
             \/ T!Start(c)
             \/ \E r \in Revisions : T!Reassess(c, r)
             \/ \E a \in Metrics \cup {"check"}, good, named \in BOOLEAN : T!Record(c, a, good, named)
             \/ \E s \in {"accepted", "rejected"} : T!Decide(c, s)
      PROVE  TrialInv' /\ (trial # Nothing => Grows(trial, trial'))
  <2>1. trial' = trial
    BY <1>5 DEF T!Start, T!Reassess, T!Record, T!Decide, T!Turn
  <2>2. TrialInv'
    BY <1>5, TrialStart, TrialReassess, TrialRecord, TrialDecide
  <2> QED BY <1>4, <2>1, <2>2
<1> QED BY <1>1, <1>2, <1>3, <1>5, TrialSave DEF T!Next

-----------------------------------------------------------------------------
(* Watches.                                                                *)

Taken(s) == CHOOSE x \in s : TRUE
Costly(found) == IsFiniteSet(DOMAIN found) /\ \A x \in DOMAIN found : found[x].cost \in Nat
Small(All, n) == {s \in SUBSET All : Cardinality(s) <= n}

\* g sums up what the findings from each set in Q cost.
Spending(found, Q, g) ==
    g = [s \in Q |-> IF s = {} THEN 0 ELSE found[Taken(s)].cost + g[s \ {Taken(s)}]]

LEMMA TakenOut ==
    ASSUME NEW All, IsFiniteSet(All), NEW s \in SUBSET All, s # {}
    PROVE  /\ Taken(s) \in s /\ Taken(s) \in All /\ s \ {Taken(s)} \in SUBSET All
           /\ Cardinality(s) \in Nat /\ Cardinality(s) >= 1
           /\ Cardinality(s \ {Taken(s)}) = Cardinality(s) - 1
<1>1. Taken(s) \in s
  BY DEF Taken
<1>2. IsFiniteSet(s)
  BY FS_Subset
<1>3. Cardinality(s) \in Nat /\ Cardinality(s) # 0
  BY <1>2, FS_CardinalityType, FS_EmptySet
<1>4. Cardinality(s \ {Taken(s)}) = Cardinality(s) - 1
  BY <1>1, <1>2, FS_RemoveElement
<1> QED BY <1>1, <1>3, <1>4

\* There are such sums for small sets: the least size without them would have
\* those of the sets one smaller.
LEMMA SmallSums ==
    ASSUME NEW found, Costly(found), NEW n \in Nat
    PROVE  \E g \in [Small(DOMAIN found, n) -> Nat] : Spending(found, Small(DOMAIN found, n), g)
<1> DEFINE All == DOMAIN found
           Good(k) == \E g \in [Small(All, k) -> Nat] : Spending(found, Small(All, k), g)
           Bad == {k \in Nat : ~Good(k)}
<1>0. IsFiniteSet(All) /\ \A x \in All : found[x].cost \in Nat
  BY DEF Costly
<1>1. SUFFICES ASSUME Bad # {} PROVE FALSE
  OBVIOUS
<1>2. PICK k \in Bad : \A m \in Bad : k <= m
  <2>1. Bad \subseteq Nat
    OBVIOUS
  <2> HIDE DEF Bad
  <2> QED BY <1>1, <2>1, Least
<1>3. k \in Nat /\ ~Good(k) /\ \A m \in Nat : m < k => Good(m)
  <2>1. k \in Nat /\ ~Good(k)
    BY <1>2
  <2>2. ASSUME NEW m \in Nat, m < k PROVE Good(m)
    <3>1. m \notin Bad
      <4> HIDE DEF Bad
      <4> QED BY <1>2, <2>1, <2>2
    <3> QED BY <3>1
  <2> HIDE DEF Bad
  <2> QED BY <2>1, <2>2
<1>4. CASE k = 0
  <2> DEFINE g == [s \in Small(All, 0) |-> 0]
  <2>1. \A s \in Small(All, 0) : s = {}
    <3> TAKE s \in Small(All, 0)
    <3>1. s \in SUBSET All /\ Cardinality(s) <= 0
      BY DEF Small
    <3>2. ASSUME s # {} PROVE FALSE
      <4>1. Cardinality(s) \in Nat /\ Cardinality(s) >= 1
        BY <1>0, <3>1, <3>2, TakenOut
      <4> QED BY <3>1, <4>1
    <3> QED BY <3>2
  <2>2. g \in [Small(All, 0) -> Nat] /\ Spending(found, Small(All, 0), g)
    BY <2>1 DEF Spending
  <2> QED BY <1>3, <1>4, <2>2
<1>5. CASE k # 0
  <2>1. k - 1 \in Nat /\ k - 1 < k
    BY <1>3, <1>5
  <2>2. PICK h \in [Small(All, k - 1) -> Nat] : Spending(found, Small(All, k - 1), h)
    BY <1>3, <2>1
  <2> DEFINE g == [s \in Small(All, k) |->
                      IF s = {} THEN 0 ELSE found[Taken(s)].cost + h[s \ {Taken(s)}]]
  <2>3. ASSUME NEW s \in Small(All, k), s # {}
        PROVE  /\ s \ {Taken(s)} \in Small(All, k - 1) /\ Taken(s) \in All
               /\ s \ {Taken(s)} \in Small(All, k)
    <3>1. s \in SUBSET All /\ Cardinality(s) <= k
      BY DEF Small
    <3>2. /\ Taken(s) \in All /\ s \ {Taken(s)} \in SUBSET All
          /\ Cardinality(s) \in Nat /\ Cardinality(s \ {Taken(s)}) = Cardinality(s) - 1
      BY <1>0, <2>3, <3>1, TakenOut
    <3> QED BY <1>3, <3>1, <3>2 DEF Small
  <2>4. \A s \in Small(All, k - 1) : h[s] = g[s]
    <3>1. Small(All, k - 1) \subseteq Small(All, k)
      <4>1. ASSUME NEW s \in Small(All, k - 1) PROVE s \in Small(All, k)
        <5>1. s \in SUBSET All /\ Cardinality(s) <= k - 1
          BY DEF Small
        <5>2. Cardinality(s) \in Nat
          BY <1>0, <5>1, FS_Subset, FS_CardinalityType
        <5>3. Cardinality(s) <= k
          BY <1>3, <5>1, <5>2
        <5> QED BY <5>1, <5>3 DEF Small
      <4> QED BY <4>1
    <3>2. \A s \in Small(All, k - 1) :
             h[s] = IF s = {} THEN 0 ELSE found[Taken(s)].cost + h[s \ {Taken(s)}]
      BY <2>2 DEF Spending
    <3> QED BY <3>1, <3>2
  <2>5. g \in [Small(All, k) -> Nat]
    <3>1. \A s \in Small(All, k) :
            (IF s = {} THEN 0 ELSE found[Taken(s)].cost + h[s \ {Taken(s)}]) \in Nat
      BY <1>0, <2>2, <2>3
    <3> QED BY <3>1
  <2>6. Spending(found, Small(All, k), g)
    <3>1. \A s \in Small(All, k) : s # {} => h[s \ {Taken(s)}] = g[s \ {Taken(s)}]
      BY <2>3, <2>4
    <3>2. g = [s \in Small(All, k) |->
                  IF s = {} THEN 0 ELSE found[Taken(s)].cost + g[s \ {Taken(s)}]]
      <4> DEFINE Due(s) == IF s = {} THEN 0 ELSE found[Taken(s)].cost + g[s \ {Taken(s)}]
                 Had(s) == IF s = {} THEN 0 ELSE found[Taken(s)].cost + h[s \ {Taken(s)}]
      <4>2. g = [s \in Small(All, k) |-> Had(s)]
        OBVIOUS
      <4> HIDE DEF g
      <4>1. \A s \in Small(All, k) : Due(s) = Had(s)
        BY <3>1
      <4> HIDE DEF Due, Had
      <4>3. [s \in Small(All, k) |-> Due(s)] = [s \in Small(All, k) |-> Had(s)]
        BY <4>1
      <4>4. g = [s \in Small(All, k) |-> Due(s)]
        BY <4>2, <4>3
      <4> QED BY <4>4 DEF Due
    <3> HIDE DEF g
    <3> QED BY <3>2 DEF Spending
  <2> QED BY <1>3, <2>5, <2>6
<1> QED BY <1>4, <1>5

\* What the findings of a run cost is a number.
LEMMA CostIs ==
    ASSUME NEW found, Costly(found)
    PROVE  W!Cost(found) \in Nat
<1> DEFINE All == DOMAIN found
           spent == CHOOSE g : Spending(found, SUBSET All, g)
<1>0. IsFiniteSet(All) /\ \A x \in All : found[x].cost \in Nat
  BY DEF Costly
<1>1. W!Cost(found) = spent[All]
  BY DEF W!Cost, W!MapThenSumSet, W!MapThenFoldSet, Spending, Taken
<1>2. Spending(found, SUBSET All, spent)
  <2>1. Cardinality(All) \in Nat
    BY <1>0, FS_CardinalityType
  <2>2. Small(All, Cardinality(All)) = SUBSET All
    <3>1. \A s \in SUBSET All : Cardinality(s) <= Cardinality(All)
      BY <1>0, FS_Subset
    <3> QED BY <3>1 DEF Small
  <2>3. \E g : Spending(found, SUBSET All, g)
    <3>1. \E g \in [Small(All, Cardinality(All)) -> Nat] : Spending(found, Small(All, Cardinality(All)), g)
      BY <2>1, SmallSums
    <3> QED BY <2>2, <3>1
  <2> QED BY <2>3
<1> HIDE DEF spent
<1>3. \A s \in SUBSET All :
         spent[s] = IF s = {} THEN 0 ELSE found[Taken(s)].cost + spent[s \ {Taken(s)}]
  BY <1>2 DEF Spending
<1> DEFINE Bad == {k \in Nat : \E s \in SUBSET All : Cardinality(s) = k /\ spent[s] \notin Nat}
<1>4. Bad = {}
  <2> SUFFICES ASSUME Bad # {} PROVE FALSE
    OBVIOUS
  <2>1. PICK k \in Bad : \A m \in Bad : k <= m
    <3>1. Bad \subseteq Nat
      OBVIOUS
    <3> HIDE DEF Bad
    <3> QED BY <3>1, Least
  <2>2. PICK s \in SUBSET All : Cardinality(s) = k /\ spent[s] \notin Nat
    OBVIOUS
  <2>3. s # {}
    <3>1. s = {} => spent[s] = 0
      BY <1>3
    <3> QED BY <2>2, <3>1
  <2>4. /\ Taken(s) \in All /\ s \ {Taken(s)} \in SUBSET All /\ k >= 1 /\ k \in Nat
        /\ Cardinality(s \ {Taken(s)}) = k - 1
    BY <1>0, <2>2, <2>3, TakenOut
  <2>5. k - 1 \notin Bad
    <3>1. k - 1 \in Bad => k <= k - 1
      <4> HIDE DEF Bad
      <4> QED BY <2>1
    <3> HIDE DEF Bad
    <3> QED BY <2>4, <3>1
  <2>6. spent[s \ {Taken(s)}] \in Nat
    BY <2>4, <2>5
  <2>7. spent[s] = found[Taken(s)].cost + spent[s \ {Taken(s)}]
    BY <1>3, <2>3
  <2> QED BY <1>0, <2>2, <2>4, <2>6, <2>7
<1>5. Cardinality(All) \in Nat
  BY <1>0, FS_CardinalityType
<1> QED BY <1>1, <1>4, <1>5

\* A confirmed proposal was agreed to, and a receipt is within terms that were.
Agreeing(m, terms) ==
    /\ m.proposal # Nothing /\ m.proposal.confirmed => m.proposal.terms \in terms
    /\ \A r \in Runs :
          m.receipts[r] # Nothing /\ m.receipts[r].status = "success" =>
             \E t \in terms : m.receipts[r].cost <= t.budget /\ m.receipts[r].from \subseteq t.scope

WatchInv ==
    /\ W!TypeOK
    /\ Agreeing(watched, agreed)
    /\ \A s \in Services : loaded[s] # Nothing => Agreeing(loaded[s], agreed)

LEMMA WatchInit == W!Init => WatchInv
BY DEF W!Init, WatchInv, W!TypeOK, W!State, Agreeing

\* A service writes a memory that was agreed to.
LEMMA WatchFlush ==
    ASSUME WatchInv, NEW s \in Services, NEW m \in W!State, W!Flush(s, m),
           agreed \subseteq agreed', agreed' \subseteq W!Terms, Agreeing(m, agreed')
    PROVE  WatchInv'
<1>1. watched' = m /\ loaded' = [loaded EXCEPT ![s] = m]
  BY DEF W!Flush
<1>2. W!TypeOK'
  BY <1>1 DEF WatchInv, W!TypeOK
<1>3. \A t \in Services : loaded'[t] \in {m, loaded[t]}
  BY <1>1 DEF WatchInv, W!TypeOK
<1>4. ASSUME NEW f, Agreeing(f, agreed) PROVE Agreeing(f, agreed')
  BY <1>4 DEF Agreeing
<1>5. \A t \in Services : loaded'[t] # Nothing => Agreeing(loaded'[t], agreed')
  BY <1>3, <1>4 DEF WatchInv
<1>6. Agreeing(watched', agreed')
  BY <1>1
<1> QED BY <1>2, <1>5, <1>6 DEF WatchInv, Agreeing

LEMMA WatchNext == WatchInv /\ [W!Next]_watchVars => WatchInv'
<1> SUFFICES ASSUME WatchInv, [W!Next]_watchVars PROVE WatchInv'
  OBVIOUS
<1>0. /\ watched \in W!State /\ loaded \in [Services -> W!State \cup {Nothing}]
      /\ agreed \subseteq W!Terms
      /\ \A s \in Services : loaded[s] # Nothing => loaded[s] \in W!State /\ Agreeing(loaded[s], agreed)
  BY DEF WatchInv, W!TypeOK
<1>1. CASE UNCHANGED watchVars
  BY <1>1 DEF watchVars, WatchInv, W!TypeOK, Agreeing
<1>2. ASSUME NEW s \in Services, W!Load(s) PROVE WatchInv'
  <2>1. watched' = watched /\ agreed' = agreed /\ loaded' = [loaded EXCEPT ![s] = watched]
    BY <1>2 DEF W!Load
  <2>2. W!TypeOK' /\ \A t \in Services : loaded'[t] \in {watched, loaded[t]}
    BY <1>0, <2>1 DEF W!TypeOK
  <2>3. \A t \in Services : loaded'[t] # Nothing => Agreeing(loaded'[t], agreed)
    BY <2>2 DEF WatchInv
  <2> QED BY <2>1, <2>2, <2>3 DEF WatchInv, Agreeing
<1>3. ASSUME NEW s \in Services, NEW t \in W!Terms, W!Propose(s, t) PROVE WatchInv'
  <2> DEFINE m == W!Proposed(loaded[s], t)
  <2>1. loaded[s] \in W!State /\ Agreeing(loaded[s], agreed)
    BY <1>0, <1>3 DEF W!Propose
  <2>2. /\ m \in W!State /\ m.receipts = loaded[s].receipts
        /\ m.proposal = [terms |-> t, confirmed |-> FALSE]
    BY <2>1 DEF W!Proposed, W!State, W!Proposal
  <2>3. W!Flush(s, m) /\ agreed' = agreed
    BY <1>3 DEF W!Propose
  <2> HIDE DEF m
  <2>4. Agreeing(m, agreed)
    BY <2>1, <2>2 DEF Agreeing
  <2> QED BY <1>0, <2>2, <2>3, <2>4, WatchFlush
<1>4. ASSUME NEW s \in Services, W!Confirm(s) PROVE WatchInv'
  <2> DEFINE f == loaded[s]
             m == [f EXCEPT !.proposal.confirmed = TRUE]
  <2>1. f \in W!State /\ Agreeing(f, agreed) /\ f.proposal # Nothing
    BY <1>0, <1>4 DEF W!Confirm
  <2>2. W!Flush(s, m) /\ agreed' = agreed \cup {f.proposal.terms}
    BY <1>4 DEF W!Confirm
  <2> HIDE DEF f
  <2>3. f.proposal \in W!Proposal
    BY <2>1 DEF W!State
  <2>4. /\ m \in W!State /\ m.receipts = f.receipts
        /\ m.proposal.terms = f.proposal.terms /\ f.proposal.terms \in W!Terms
    BY <2>1, <2>3 DEF W!State, W!Proposal
  <2> HIDE DEF m
  <2>5. Agreeing(m, agreed')
    BY <2>1, <2>2, <2>4 DEF Agreeing
  <2> QED BY <1>0, <2>2, <2>4, <2>5, WatchFlush
<1>5. ASSUME NEW s \in Services, NEW r \in Runs, NEW found \in W!Findings, NEW q \in Quotes,
             W!Run(s, r, found, q)
      PROVE  WatchInv'
  <2> DEFINE f == loaded[s]
             new == W!ReceiptOf(f, found, q)
             m == [f EXCEPT !.receipts[r] = new]
  <2>1. /\ f \in W!State /\ Agreeing(f, agreed) /\ f.proposal # Nothing /\ f.proposal.confirmed
        /\ q > f.proposal.terms.budget \/ W!Within(f, found, q)
        /\ W!Flush(s, m) /\ agreed' = agreed
    BY <1>0, <1>5 DEF W!Run
  <2> HIDE DEF f
  <2>2. f.proposal \in W!Proposal /\ f.proposal.terms \in W!Terms /\ f.proposal.terms \in agreed
    BY <2>1 DEF W!State, W!Proposal, Agreeing
  <2>3. f.proposal.terms.budget \in Nat /\ q \in Nat
    BY <2>2, WatchAssumption DEF W!Terms
  <2>4. /\ DOMAIN found \in SUBSET Sources
        /\ \A x \in DOMAIN found : found[x] \in [cost : Quotes, material : BOOLEAN]
    BY DEF W!Findings
  <2>5. W!Cost(found) \in Nat
    <3>1. IsFiniteSet(DOMAIN found)
      BY <2>4, WatchAssumption, FS_Subset
    <3>2. \A x \in DOMAIN found : found[x].cost \in Nat
      BY <2>4, WatchAssumption
    <3> QED BY <3>1, <3>2, CostIs DEF Costly
  <2>6. W!Notifying(found) \in SUBSET Sources
    BY <2>4 DEF W!Notifying
  <2>7. new \in W!Receipt
    BY <2>4, <2>5, <2>6 DEF W!ReceiptOf, W!Receipt
  <2>8. new.status = "success" =>
           new.cost <= f.proposal.terms.budget /\ new.from \subseteq f.proposal.terms.scope
    <3>1. CASE q > f.proposal.terms.budget
      BY <3>1 DEF W!ReceiptOf
    <3>2. CASE ~(q > f.proposal.terms.budget)
      <4>1. /\ new = [status |-> "success", cost |-> W!Cost(found), from |-> DOMAIN found,
                      notified |-> W!Notifying(found)]
            /\ DOMAIN found \subseteq f.proposal.terms.scope /\ W!Cost(found) <= q
        BY <2>1, <3>2 DEF W!ReceiptOf, W!Within
      <4> HIDE DEF new
      <4> QED BY <2>3, <2>5, <3>2, <4>1
    <3> QED BY <3>1, <3>2
  <2> HIDE DEF new
  <2>9. /\ m \in W!State /\ m.proposal = f.proposal
        /\ \A n \in Runs : m.receipts[n] = (IF n = r THEN new ELSE f.receipts[n])
    BY <2>1, <2>7 DEF W!State
  <2> HIDE DEF m
  <2>10. Agreeing(m, agreed)
    <3>1. m.proposal # Nothing /\ m.proposal.confirmed => m.proposal.terms \in agreed
      BY <2>1, <2>9 DEF Agreeing
    <3>2. ASSUME NEW n \in Runs, m.receipts[n] # Nothing, m.receipts[n].status = "success"
          PROVE  \E t \in agreed : m.receipts[n].cost <= t.budget /\ m.receipts[n].from \subseteq t.scope
      <4>1. CASE n = r
        BY <2>2, <2>8, <2>9, <3>2, <4>1
      <4>2. CASE n # r
        BY <2>1, <2>9, <3>2, <4>2 DEF Agreeing
      <4> QED BY <4>1, <4>2
    <3> QED BY <3>1, <3>2 DEF Agreeing
  <2> QED BY <1>0, <2>1, <2>9, <2>10, WatchFlush
<1> QED BY <1>1, <1>2, <1>3, <1>4, <1>5 DEF W!Next

-----------------------------------------------------------------------------
(* Store migration.                                                        *)

Data == (SUBSET S!Records) \cup {Nothing}
Places == {"stopped", "load", "preserve", "write", "pending", "import", "finalize",
           "preserve-migrated", "write-migrated", "mark", "open", "deleting"}
Start == [pc : Places, data : Data, rec : S!Records \cup {Nothing}]
LegacyFile == [kind : {"none", "v1", "broken", "pending", "sqlite"}, data : Data]
Database == [schema : {"none", "old", "current"}, digest : Data, rows : [S!Records -> 0..1]]

InTable(d) == {r \in S!Records : d.rows[r] > 0}
Kept(rb) == IF rb = Nothing THEN {} ELSE rb
Marked(lg) == lg.kind \in {"pending", "sqlite"}

StoreTyped ==
    /\ store \in S!Stores /\ legacy \in LegacyFile /\ rollback \in Data /\ db \in Database
    /\ starter \in [Starters -> Start]
    /\ gone \subseteq S!Records /\ written \subseteq S!Records

\* What the files and the database say of each other: a legacy file has all
\* that was written, and the digest of what was migrated is of an earlier one;
\* a marker stands for a rollback file that has it, and a table if there is one.
FilesStand(lg, rb, d, wr) ==
    /\ lg.kind \in {"none", "broken"} => wr = {}
    /\ lg.kind = "none" /\ d.schema # "none" => d.digest = Nothing
    /\ lg.kind = "broken" => d.schema = "none"
    /\ lg.kind = "v1" =>
          /\ lg.data # Nothing /\ wr \subseteq lg.data
          /\ d.schema # "none" /\ d.digest # Nothing =>
                d.digest \subseteq lg.data /\ d.digest \cap wr \subseteq InTable(d)
    /\ Marked(lg) =>
          wr \subseteq Kept(rb) /\ (d.schema # "none" => wr \subseteq InTable(d))
    /\ d.schema = "old" => Marked(lg)
    /\ d.schema = "none" => InTable(d) = {}

\* What was deleted is nowhere, unless a start wrote it back.
GoneStand(lg, rb, d, go, la) ==
    /\ go # {} => Marked(lg)
    /\ \A r \in go \ la : r \notin InTable(d) /\ r \notin Kept(rb)

\* What a start that is at q holds, and what it has done on its way.
Stands(q, st, lg, rb, d, go, la, wr) ==
    /\ q.pc = "stopped" => q = S!Stopped
    /\ q.pc \in {"finalize", "preserve-migrated", "write-migrated", "mark", "open", "deleting"} =>
          d.schema = "current"
    /\ q.data # Nothing =>
          /\ lg.kind \notin {"none", "broken"} /\ wr \subseteq q.data
          /\ lg.kind = "v1" => q.data = lg.data
          /\ d.schema = "none" => q.data \cap go \subseteq la
    /\ q.pc \in {"preserve", "write", "pending", "preserve-migrated", "write-migrated"} =>
          q.data # Nothing
    /\ q.pc \in {"load", "preserve", "write", "pending", "import"} /\ d.schema # "none" =>
          wr \subseteq InTable(d)
    /\ q.pc \in {"preserve-migrated", "write-migrated", "mark"} => wr \subseteq InTable(d)
    /\ q.pc \in {"pending", "import", "mark"} => wr \subseteq Kept(rb)
    /\ q.pc = "import" /\ q.data = Nothing => wr = {} /\ lg.kind \notin {"v1", "broken"}
    /\ q.pc \in {"open", "deleting"} /\ st = "personal-context" => Marked(lg)
    /\ q.pc = "deleting" =>
          st = "personal-context" /\ q.rec \in S!Records \ wr /\ (q.rec \in la \/ q.rec \notin Kept(rb))

StoreInv ==
    /\ StoreTyped
    /\ FilesStand(legacy, rollback, db, written)
    /\ GoneStand(legacy, rollback, db, gone, late)
    /\ \A p \in Starters : Stands(starter[p], store, legacy, rollback, db, gone, late, written)

\* A start moves on, and the rest stands for the others as it did.
LEMMA StoreStep ==
    ASSUME StoreInv, NEW p \in Starters, NEW q \in Start,
           starter' = [starter EXCEPT ![p] = q], store' = store,
           legacy' \in LegacyFile, rollback' \in Data, db' \in Database,
           gone' \subseteq S!Records, written' \subseteq S!Records,
           FilesStand(legacy', rollback', db', written'),
           GoneStand(legacy', rollback', db', gone', late'),
           Stands(q, store, legacy', rollback', db', gone', late', written'),
           \A r \in Starters :
              Stands(starter[r], store, legacy, rollback, db, gone, late, written) =>
              Stands(starter[r], store, legacy', rollback', db', gone', late', written')
    PROVE  StoreInv'
<1>1. starter \in [Starters -> Start] /\ store \in S!Stores
  BY DEF StoreInv, StoreTyped
<1>2. StoreTyped'
  BY <1>1 DEF StoreTyped
<1>3. ASSUME NEW r \in Starters
      PROVE  Stands(starter'[r], store', legacy', rollback', db', gone', late', written')
  <2>1. Stands(starter[r], store, legacy', rollback', db', gone', late', written')
    BY Zenon DEF StoreInv
  <2>2. starter'[r] = q \/ starter'[r] = starter[r]
    BY <1>1
  <2> QED BY Zenon, <2>1, <2>2
<1> QED BY Zenon, <1>2, <1>3 DEF StoreInv

\* A start moves on and changes nothing else.
LEMMA StoreMoves ==
    ASSUME StoreInv, NEW p \in Starters, NEW q \in Start,
           starter' = [starter EXCEPT ![p] = q],
           UNCHANGED <<store, legacy, rollback, db, gone, late, written>>,
           Stands(q, store, legacy, rollback, db, gone, late, written)
    PROVE  StoreInv'
<1>1. /\ legacy' = legacy /\ rollback' = rollback /\ db' = db /\ gone' = gone
      /\ late' = late /\ written' = written /\ store' = store
  OBVIOUS
<1>2. /\ legacy' \in LegacyFile /\ rollback' \in Data /\ db' \in Database
      /\ gone' \subseteq S!Records /\ written' \subseteq S!Records
  BY <1>1 DEF StoreInv, StoreTyped
<1>3. FilesStand(legacy', rollback', db', written')
  BY Zenon, <1>1 DEF StoreInv
<1>4. GoneStand(legacy', rollback', db', gone', late')
  BY Zenon, <1>1 DEF StoreInv
<1>5. Stands(q, store, legacy', rollback', db', gone', late', written')
  BY Zenon, <1>1
<1>6. \A r \in Starters :
         Stands(starter[r], store, legacy, rollback, db, gone, late, written) =>
         Stands(starter[r], store, legacy', rollback', db', gone', late', written')
  BY Zenon, <1>1
<1> QED BY <1>1, <1>2, <1>3, <1>4, <1>5, <1>6, StoreStep

\* Where a start is led to.
LEMMA GotoIs ==
    ASSUME StoreInv, NEW p \in Starters, NEW x \in Places, S!Goto(p, x)
    PROVE  LET q == [pc |-> x, data |-> starter[p].data, rec |-> starter[p].rec]
           IN  /\ q \in Start /\ starter' = [starter EXCEPT ![p] = q]
               /\ starter[p] = [pc |-> starter[p].pc, data |-> starter[p].data,
                                rec |-> starter[p].rec]
<1>1. starter \in [Starters -> Start] /\ starter[p] \in Start
  BY DEF StoreInv, StoreTyped
<1>2. starter' = [starter EXCEPT ![p] = [starter[p] EXCEPT !.pc = x]]
  BY <1>1 DEF S!Goto
<1>3. [starter[p] EXCEPT !.pc = x] = [pc |-> x, data |-> starter[p].data, rec |-> starter[p].rec]
  BY <1>1 DEF Start
<1>4. [pc |-> x, data |-> starter[p].data, rec |-> starter[p].rec] \in Start
  BY <1>1 DEF Start
<1>5. starter[p] = [pc |-> starter[p].pc, data |-> starter[p].data, rec |-> starter[p].rec]
  BY <1>1 DEF Start
<1> QED BY Zenon, <1>2, <1>3, <1>4, <1>5

LEMMA StoppedStands ==
    /\ S!Stopped \in Start
    /\ \A st, lg, rb, d, go, la, wr : Stands(S!Stopped, st, lg, rb, d, go, la, wr)
BY DEF S!Stopped, Start, Places, Data, Stands

LEMMA OpenIs ==
    [S!Stopped EXCEPT !.pc = "open"] = [pc |-> "open", data |-> Nothing, rec |-> Nothing]
BY DEF S!Stopped

LEMMA StoreInit == S!Init => StoreInv
<1> SUFFICES ASSUME S!Init PROVE StoreInv
  OBVIOUS
<1>1. \A r \in Legacy : r \in S!Records
  BY DEF S!Records
<1>2. Legacy \in Data /\ Nothing \in Data
  BY <1>1 DEF Data
<1>3. starter \in [Starters -> Start] /\ \A p \in Starters : starter[p] = S!Stopped
  BY StoppedStands DEF S!Init
<1>4. StoreTyped
  BY <1>1, <1>2, <1>3 DEF S!Init, StoreTyped, LegacyFile, Database, S!File, S!Marker, S!NoDatabase
<1>5. FilesStand(legacy, rollback, db, written)
  BY <1>1, RecordsAssumption DEF S!Init, FilesStand, Marked, Kept, InTable, S!File, S!Marker,
     S!NoDatabase
<1>6. GoneStand(legacy, rollback, db, gone, late)
  BY DEF S!Init, GoneStand
<1>7. \A p \in Starters : Stands(starter[p], store, legacy, rollback, db, gone, late, written)
  BY Zenon, <1>3, StoppedStands
<1> QED BY <1>4, <1>5, <1>6, <1>7 DEF StoreInv

\* What a start that stands at p holds.
LEMMA StoreFacts ==
    ASSUME StoreInv, NEW p \in Starters
    PROVE  /\ starter[p] \in Start /\ store \in S!Stores /\ legacy \in LegacyFile
           /\ rollback \in Data /\ db \in Database
           /\ gone \subseteq S!Records /\ written \subseteq S!Records
           /\ FilesStand(legacy, rollback, db, written)
           /\ GoneStand(legacy, rollback, db, gone, late)
           /\ Stands(starter[p], store, legacy, rollback, db, gone, late, written)
BY DEF StoreInv, StoreTyped

\* What the files hold, whoever runs.
LEMMA FilesFacts ==
    ASSUME StoreInv
    PROVE  /\ store \in S!Stores /\ legacy \in LegacyFile /\ rollback \in Data /\ db \in Database
           /\ gone \subseteq S!Records /\ written \subseteq S!Records
           /\ FilesStand(legacy, rollback, db, written)
           /\ GoneStand(legacy, rollback, db, gone, late)
BY DEF StoreInv, StoreTyped

LEMMA StoreReadies ==
    ASSUME StoreInv, NEW p \in Starters, S!StoreReady(p) PROVE StoreInv'
<1> DEFINE x == IF db.schema = "current" THEN "finalize" ELSE "load"
           q == [pc |-> x, data |-> starter[p].data, rec |-> starter[p].rec]
<1>1. starter[p] = S!Stopped
  BY StoreFacts DEF S!StoreReady, S!At, Stands
<1>2. x \in Places /\ S!Goto(p, x) /\ UNCHANGED <<store, legacy, rollback, db, gone, late, written>>
  BY DEF S!StoreReady, Places
<1>3. q \in Start /\ starter' = [starter EXCEPT ![p] = q]
  BY Zenon, <1>2, GotoIs
<1>4. \/ x = "finalize" /\ db.schema = "current"
      \/ x = "load" /\ db.schema \in {"none", "old"}
  BY StoreFacts DEF Database
<1>5. Stands(q, store, legacy, rollback, db, gone, late, written)
  BY <1>1, <1>4, StoreFacts DEF Stands, FilesStand, S!Stopped
<1> HIDE DEF x, q
<1> QED BY <1>2, <1>3, <1>5, StoreMoves

LEMMA StoreNoLegacy ==
    ASSUME StoreInv, NEW p \in Starters, S!NoLegacy(p) PROVE StoreInv'
<1> DEFINE q == [pc |-> "import", data |-> starter[p].data, rec |-> starter[p].rec]
<1>1. starter[p].pc = "load" /\ legacy.kind = "none"
  BY DEF S!NoLegacy, S!At
<1>2. S!Goto(p, "import") /\ UNCHANGED <<store, legacy, rollback, db, gone, late, written>>
  BY DEF S!NoLegacy
<1>3. q \in Start /\ starter' = [starter EXCEPT ![p] = q]
  BY <1>2, GotoIs DEF Places
<1>4. Stands(q, store, legacy, rollback, db, gone, late, written)
  BY <1>1, StoreFacts DEF Stands, FilesStand
<1> HIDE DEF q
<1> QED BY <1>2, <1>3, <1>4, StoreMoves

LEMMA StoreLoad ==
    ASSUME StoreInv, NEW p \in Starters, NEW data, S!Load(p, data),
           \/ data = S!Stored
           \/ data = S!OrEmpty(S!Stored)
    PROVE  StoreInv'
<1> DEFINE q == [pc |-> "preserve", data |-> data, rec |-> Nothing]
<1>0. UNCHANGED <<store, legacy, rollback, db, gone, late, written>>
  BY DEF S!Load
<1>1. starter[p].pc = "load" /\ legacy.kind # "none"
  BY DEF S!Load, S!At
<1>2. CASE data = Nothing /\ db.schema # "current"
  BY <1>0, <1>2, StoppedStands, StoreMoves DEF S!Load, S!Fail
<1>4. CASE data = Nothing /\ db.schema = "current"
  <2> DEFINE o == [pc |-> "open", data |-> starter[p].data, rec |-> starter[p].rec]
  <2>1. S!Goto(p, "open")
    BY <1>4 DEF S!Load
  <2>2. o \in Start /\ starter' = [starter EXCEPT ![p] = o]
    BY ZenonT(30), <2>1, GotoIs DEF Places
  <2>3. Marked(legacy)
    <3>1. legacy.kind \in {"v1", "pending", "sqlite"}
      BY <1>1, <1>4, StoreFacts DEF LegacyFile, FilesStand
    <3>2. legacy.kind # "v1"
      BY <1>4, <3>1, StoreFacts DEF S!Stored, S!OrEmpty, FilesStand
    <3> QED BY <3>1, <3>2 DEF Marked
  <2>4. Stands(o, store, legacy, rollback, db, gone, late, written)
    BY <1>1, <1>4, <2>3, StoreFacts DEF Stands
  <2> HIDE DEF o
  <2> QED BY <1>0, <2>2, <2>4, StoreMoves
<1>3. CASE data # Nothing
  <2>1. starter' = [starter EXCEPT ![p] = q]
    BY <1>3 DEF S!Load
  <2>2. /\ legacy.kind \in {"v1", "broken", "pending", "sqlite"}
        /\ legacy.data \in Data
    BY <1>1, StoreFacts DEF LegacyFile
  <2>3. \/ legacy.kind = "v1" /\ data = legacy.data
        \/ Marked(legacy) /\ data = Kept(rollback)
    <3>1. S!Stored = IF legacy.kind = "v1" THEN legacy.data
                     ELSE IF legacy.kind = "broken" THEN Nothing ELSE rollback
      BY <2>2 DEF S!Stored
    <3> QED BY <1>3, <2>2, <3>1, StoreFacts DEF S!OrEmpty, Marked, Kept, FilesStand
  <2>4. data \in SUBSET S!Records
    BY <1>3, <2>2, <2>3, StoreFacts DEF Data, Kept
  <2>5. q \in Start
    BY <2>4 DEF Start, Places, Data
  <2>6. written \subseteq data
    BY <2>3, StoreFacts DEF FilesStand
  <2>7. data \cap gone \subseteq late
    BY <2>3, StoreFacts DEF GoneStand, Marked
  <2>8. db.schema # "none" => written \subseteq InTable(db)
    BY <1>1, StoreFacts DEF Stands
  <2>9. legacy.kind = "v1" => data = legacy.data
    BY <2>3 DEF Marked
  <2>10. Stands(q, store, legacy, rollback, db, gone, late, written)
    <3>1. legacy.kind \notin {"none", "broken"}
      BY <2>3 DEF Marked
    <3> QED BY <1>1, <1>3, <2>6, <2>7, <2>8, <2>9, <3>1 DEF Stands
  <2> HIDE DEF q
  <2> QED BY <1>0, <2>1, <2>5, <2>10, StoreMoves
<1> QED BY <1>2, <1>3, <1>4

LEMMA StoreFinalize ==
    ASSUME StoreInv, NEW p \in Starters, S!FinalizeLegacy(p) PROVE StoreInv'
<1>0. UNCHANGED <<store, legacy, rollback, db, gone, late, written>>
  BY DEF S!FinalizeLegacy
<1>1. starter[p].pc = "finalize" /\ db.schema = "current"
  BY StoreFacts DEF S!FinalizeLegacy, S!At, Stands
<1>2. ASSUME NEW x \in {"open", "mark"}, S!Goto(p, x),
             x = "mark" => written \subseteq InTable(db) /\ written \subseteq Kept(rollback),
             x = "open" => store # "personal-context" \/ Marked(legacy)
      PROVE  StoreInv'
  <2> DEFINE q == [pc |-> x, data |-> starter[p].data, rec |-> starter[p].rec]
  <2>1. q \in Start /\ starter' = [starter EXCEPT ![p] = q]
    BY ZenonT(30), <1>2, GotoIs DEF Places
  <2>2. Stands(q, store, legacy, rollback, db, gone, late, written)
    BY <1>1, <1>2, StoreFacts DEF Stands
  <2> HIDE DEF q
  <2> QED BY <1>0, <2>1, <2>2, StoreMoves
<1>3. CASE legacy.kind = "none"
  <2>1. S!Goto(p, IF store = "model-runs" THEN "open" ELSE "mark")
    BY <1>3 DEF S!FinalizeLegacy
  <2>2. written = {}
    BY <1>3, StoreFacts DEF FilesStand
  <2> QED BY <1>2, <2>1, <2>2
<1>4. CASE legacy.kind = "sqlite"
  <2>1. S!Goto(p, "open")
    BY <1>4 DEF S!FinalizeLegacy
  <2> QED BY <1>2, <1>4, <2>1 DEF Marked
<1>5. CASE legacy.kind = "pending"
  <2>1. S!Goto(p, "mark")
    BY <1>5 DEF S!FinalizeLegacy
  <2>2. written \subseteq InTable(db) /\ written \subseteq Kept(rollback)
    BY <1>1, <1>5, StoreFacts DEF FilesStand, Marked
  <2> QED BY <1>2, <2>1, <2>2
<1>6. CASE legacy.kind = "v1" /\ legacy.data = db.digest
  <2> DEFINE q == [pc |-> "preserve-migrated", data |-> legacy.data, rec |-> Nothing]
  <2>1. starter' = [starter EXCEPT ![p] = q]
    BY <1>6 DEF S!FinalizeLegacy
  <2>2. legacy.data \in Data /\ legacy.data # Nothing /\ written \subseteq legacy.data
        /\ written \subseteq InTable(db)
    BY <1>1, <1>6, StoreFacts DEF FilesStand, LegacyFile
  <2>3. q \in Start
    BY <2>2 DEF Start, Places
  <2>4. Stands(q, store, legacy, rollback, db, gone, late, written)
    BY <1>1, <1>6, <2>2 DEF Stands
  <2> HIDE DEF q
  <2> QED BY <1>0, <2>1, <2>3, <2>4, StoreMoves
<1>7. CASE legacy.kind \notin {"none", "sqlite", "pending"} /\ ~(legacy.kind = "v1" /\ legacy.data = db.digest)
  <2>1. S!Fail(p)
    BY Zenon, <1>7 DEF S!FinalizeLegacy
  <2> QED BY <1>0, <2>1, StoppedStands, StoreMoves DEF S!Fail
<1> QED BY <1>3, <1>4, <1>5, <1>6, <1>7

\* Where a start goes once the rollback file has what it loaded.
LEMMA AfterPreserveIs ==
    ASSUME StoreInv, NEW p \in Starters, starter[p].data # Nothing,
           \/ starter[p].pc \in {"preserve", "write"}
           \/ starter[p].pc \in {"preserve-migrated", "write-migrated"},
           NEW la, late \subseteq la
    PROVE  LET q == [pc |-> S!AfterPreserve(p), data |-> starter[p].data, rec |-> starter[p].rec]
           IN  /\ S!AfterPreserve(p) \in Places
               /\ Stands(q, store, legacy, starter[p].data, db, gone, la, written)
<1>1. Kept(starter[p].data) = starter[p].data
  BY DEF Kept
<1>2. CASE starter[p].pc \in {"preserve", "write"}
  <2>1. S!AfterPreserve(p) \in {"pending", "import"}
    BY <1>2 DEF S!AfterPreserve, S!At
  <2> QED BY <1>1, <1>2, <2>1, StoreFacts DEF Stands, Places
<1>3. CASE starter[p].pc \in {"preserve-migrated", "write-migrated"}
  <2>1. S!AfterPreserve(p) = "mark"
    BY <1>3 DEF S!AfterPreserve, S!At
  <2> QED BY <1>1, <1>3, <2>1, StoreFacts DEF Stands, Places
<1> QED BY <1>2, <1>3

LEMMA StoreFinds ==
    ASSUME StoreInv, NEW p \in Starters, S!FindRollback(p) PROVE StoreInv'
<1>0. UNCHANGED <<store, legacy, rollback, db, gone, late, written>>
  BY DEF S!FindRollback
<1>1. /\ starter[p].pc \in {"preserve", "preserve-migrated"}
      /\ starter[p].data # Nothing
  BY StoreFacts DEF S!FindRollback, S!At, Stands
<1>2. CASE rollback = Nothing
  <2> DEFINE x == IF S!At(p, "preserve") THEN "write" ELSE "write-migrated"
             q == [pc |-> x, data |-> starter[p].data, rec |-> starter[p].rec]
  <2>1. S!Goto(p, x) /\ x \in Places
    BY <1>2 DEF S!FindRollback, Places
  <2>2. q \in Start /\ starter' = [starter EXCEPT ![p] = q]
    BY Zenon, <2>1, GotoIs
  <2>3. \/ x = "write" /\ starter[p].pc = "preserve"
        \/ x = "write-migrated" /\ starter[p].pc = "preserve-migrated"
    BY <1>1 DEF S!At
  <2>4. Stands(q, store, legacy, rollback, db, gone, late, written)
    BY <1>1, <2>3, StoreFacts DEF Stands
  <2> HIDE DEF x, q
  <2> QED BY <1>0, <2>2, <2>4, StoreMoves
<1>3. CASE rollback # Nothing /\ rollback = starter[p].data
  <2> DEFINE x == S!AfterPreserve(p)
             q == [pc |-> x, data |-> starter[p].data, rec |-> starter[p].rec]
  <2>1. S!Goto(p, x)
    BY <1>3 DEF S!FindRollback
  <2>2. x \in Places /\ Stands(q, store, legacy, rollback, db, gone, late, written)
    BY <1>1, <1>3, AfterPreserveIs
  <2>3. q \in Start /\ starter' = [starter EXCEPT ![p] = q]
    BY Zenon, <2>1, <2>2, GotoIs
  <2> HIDE DEF x, q
  <2> QED BY <1>0, <2>2, <2>3, StoreMoves
<1>4. CASE rollback # Nothing /\ rollback # starter[p].data
  <2>1. S!Fail(p)
    BY <1>4 DEF S!FindRollback
  <2> QED BY <1>0, <2>1, StoppedStands, StoreMoves DEF S!Fail
<1> QED BY <1>2, <1>3, <1>4

LEMMA StoreWrites ==
    ASSUME StoreInv, NEW p \in Starters, S!WriteRollback(p) PROVE StoreInv'
<1> DEFINE x == S!AfterPreserve(p)
           q == [pc |-> x, data |-> starter[p].data, rec |-> starter[p].rec]
<1>1. /\ starter[p].pc \in {"write", "write-migrated"}
      /\ starter[p].data # Nothing /\ starter[p].data \in Data
      /\ starter[p].data \subseteq S!Records /\ written \subseteq starter[p].data
  BY StoreFacts DEF S!WriteRollback, S!At, Stands, Start, Data
<1>2. /\ rollback' = starter[p].data /\ store' = store /\ legacy' = legacy /\ db' = db
      /\ gone' = gone /\ written' = written /\ S!Goto(p, x)
      /\ late' = late \cup {r \in starter[p].data :
                               r \in gone \/ \E s \in Starters : starter[s].rec = r}
  BY DEF S!WriteRollback
<1>3. x \in Places /\ Stands(q, store, legacy', rollback', db', gone', late', written')
  <2>1. late \subseteq late'
    BY <1>2
  <2>2. Stands(q, store, legacy, starter[p].data, db, gone, late', written)
    BY <1>1, <2>1, AfterPreserveIs
  <2>3. x \in Places
    BY <1>1, <2>1, AfterPreserveIs
  <2> HIDE DEF x, q
  <2> QED BY Zenon, <1>2, <2>2, <2>3
<1>4. q \in Start /\ starter' = [starter EXCEPT ![p] = q]
  BY Zenon, <1>2, <1>3, GotoIs
<1>5. Kept(rollback') = starter[p].data
  BY <1>1, <1>2 DEF Kept
<1>6. FilesStand(legacy', rollback', db', written')
  <2>1. FilesStand(legacy, rollback', db, written)
    BY <1>1, <1>5, StoreFacts DEF FilesStand
  <2> QED BY Zenon, <1>2, <2>1
<1>7. GoneStand(legacy', rollback', db', gone', late')
  <2>1. GoneStand(legacy, rollback', db, gone, late')
    BY <1>2, <1>5, StoreFacts DEF GoneStand
  <2> QED BY Zenon, <1>2, <2>1
<1>8. ASSUME NEW s \in Starters, Stands(starter[s], store, legacy, rollback, db, gone, late, written)
      PROVE  Stands(starter[s], store, legacy', rollback', db', gone', late', written')
  <2>1. starter[s].rec \in starter[p].data => starter[s].rec \in late'
    BY <1>2
  <2>2. late \subseteq late'
    BY <1>2
  <2>3. Stands(starter[s], store, legacy, rollback', db, gone, late', written)
    BY <1>1, <1>5, <1>8, <2>1, <2>2 DEF Stands
  <2> QED BY Zenon, <1>2, <2>3
<1>9. /\ legacy' \in LegacyFile /\ rollback' \in Data /\ db' \in Database
      /\ gone' \subseteq S!Records /\ written' \subseteq S!Records
  BY <1>1, <1>2, StoreFacts
<1> HIDE DEF x, q
<1> QED BY <1>2, <1>3, <1>4, <1>6, <1>7, <1>8, <1>9, StoreStep

\* Both markers come when the rollback file has everything.
LEMMA StoreMarks ==
    ASSUME StoreInv, NEW p \in Starters, NEW q \in Start, NEW lg \in LegacyFile,
           Marked(lg), legacy' = lg,
           starter' = [starter EXCEPT ![p] = q],
           UNCHANGED <<store, rollback, db, gone, late, written>>,
           written \subseteq Kept(rollback),
           db.schema # "none" => written \subseteq InTable(db),
           Stands(q, store, lg, rollback, db, gone, late, written)
    PROVE  StoreInv'
<1>1. /\ store' = store /\ rollback' = rollback /\ db' = db /\ gone' = gone /\ late' = late
      /\ written' = written
  OBVIOUS
<1>2. lg.kind \in {"pending", "sqlite"}
  BY DEF Marked
<1>3. FilesStand(legacy', rollback', db', written')
  <2>1. FilesStand(lg, rollback, db, written)
    BY <1>2, StoreFacts DEF FilesStand, Marked
  <2> QED BY Zenon, <1>1, <2>1
<1>4. GoneStand(legacy', rollback', db', gone', late')
  <2>1. GoneStand(lg, rollback, db, gone, late)
    BY StoreFacts DEF GoneStand
  <2> QED BY Zenon, <1>1, <2>1
<1>5. ASSUME NEW s \in Starters, Stands(starter[s], store, legacy, rollback, db, gone, late, written)
      PROVE  Stands(starter[s], store, legacy', rollback', db', gone', late', written')
  <2>1. Stands(starter[s], store, lg, rollback, db, gone, late, written)
    BY <1>2, <1>5 DEF Stands, Marked
  <2> QED BY Zenon, <1>1, <2>1
<1>6. Stands(q, store, legacy', rollback', db', gone', late', written')
  BY Zenon, <1>1
<1>7. /\ legacy' \in LegacyFile /\ rollback' \in Data /\ db' \in Database
      /\ gone' \subseteq S!Records /\ written' \subseteq S!Records
  BY <1>1, StoreFacts
<1> QED BY <1>1, <1>3, <1>4, <1>5, <1>6, <1>7, StoreStep

LEMMA StorePending ==
    ASSUME StoreInv, NEW p \in Starters, S!WritePending(p) PROVE StoreInv'
<1> DEFINE q == [pc |-> "import", data |-> starter[p].data, rec |-> starter[p].rec]
           lg == [kind |-> "pending", data |-> Nothing]
<1>1. starter[p].pc = "pending" /\ starter[p].data # Nothing
  BY StoreFacts DEF S!WritePending, S!At, Stands
<1>2. /\ legacy' = lg /\ S!Goto(p, "import")
      /\ UNCHANGED <<store, rollback, db, gone, late, written>>
  BY DEF S!WritePending, S!File
<1>3. q \in Start /\ starter' = [starter EXCEPT ![p] = q]
  BY <1>2, GotoIs DEF Places
<1>4. lg \in LegacyFile /\ Marked(lg)
  BY DEF LegacyFile, Data, Marked
<1>5. /\ written \subseteq Kept(rollback)
      /\ db.schema # "none" => written \subseteq InTable(db)
  BY <1>1, StoreFacts DEF Stands
<1>6. Stands(q, store, lg, rollback, db, gone, late, written)
  BY <1>1, <1>5, StoreFacts DEF Stands
<1> HIDE DEF q, lg
<1> QED BY <1>2, <1>3, <1>4, <1>5, <1>6, StoreMarks

LEMMA StoreAuthority ==
    ASSUME StoreInv, NEW p \in Starters, S!WriteAuthority(p) PROVE StoreInv'
<1> DEFINE q == [pc |-> "open", data |-> Nothing, rec |-> Nothing]
           lg == [kind |-> "sqlite", data |-> Nothing]
<1>1. starter[p].pc = "mark"
  BY DEF S!WriteAuthority, S!At
<1>2. /\ legacy' = lg /\ starter' = [starter EXCEPT ![p] = q]
      /\ UNCHANGED <<store, rollback, db, gone, late, written>>
  <2>1. starter' = [starter EXCEPT ![p] = [S!Stopped EXCEPT !.pc = "open"]]
    BY DEF S!WriteAuthority
  <2>2. starter' = [starter EXCEPT ![p] = q]
    BY Zenon, <2>1, OpenIs
  <2> QED BY <2>2 DEF S!WriteAuthority, S!Marker, S!File
<1>3. q \in Start
  BY DEF Start, Places, Data
<1>4. lg \in LegacyFile /\ Marked(lg)
  BY DEF LegacyFile, Data, Marked
<1>5. /\ written \subseteq Kept(rollback) /\ written \subseteq InTable(db) /\ db.schema = "current"
  BY <1>1, StoreFacts DEF Stands
<1>6. Stands(q, store, lg, rollback, db, gone, late, written)
  BY <1>4, <1>5 DEF Stands
<1> HIDE DEF q, lg
<1> QED BY <1>2, <1>3, <1>4, <1>5, <1>6, StoreMarks

\* A start imports what it loaded into a database without a schema, once.
LEMMA StoreImports ==
    ASSUME StoreInv, NEW p \in Starters, NEW digest, NEW goal, S!Transaction(p, digest, goal),
           \/ digest = starter[p].data
           \/ digest = S!FirstDigest(p),
           \/ goal = "mark"
           \/ goal = "open" /\ store = "model-runs"
    PROVE  StoreInv'
<1> DEFINE q == [pc |-> goal, data |-> starter[p].data, rec |-> starter[p].rec]
           rows == IF db.schema = "none" THEN S!Imported(starter[p].data) ELSE db.rows
           d == [schema |-> "current", digest |-> digest, rows |-> rows]
<1>1. starter[p].pc = "import" /\ S!Goto(p, goal) /\ db' = d
      /\ UNCHANGED <<store, legacy, rollback, gone, late, written>>
  BY DEF S!Transaction, S!At
<1>2. q \in Start /\ starter' = [starter EXCEPT ![p] = q]
  BY <1>1, GotoIs DEF Places
<1>3. /\ db.schema \in {"none", "old", "current"} /\ db.digest \in Data
      /\ db.rows \in [S!Records -> 0..1] /\ starter[p].data \in Data
      /\ \A r \in S!Records : db.schema = "none" => db.rows[r] = 0
  BY StoreFacts DEF Database, Start, FilesStand, InTable
<1>4. /\ rows \in [S!Records -> 0..1]
      /\ \A r \in S!Records : rows[r] =
            IF db.schema = "none" THEN (IF starter[p].data # Nothing /\ r \in starter[p].data THEN 1 ELSE 0)
            ELSE db.rows[r]
  BY <1>3 DEF S!Imported
<1>5. InTable(d) = IF db.schema # "none" THEN InTable(db)
                   ELSE IF starter[p].data # Nothing THEN starter[p].data ELSE {}
  <2>1. starter[p].data # Nothing => starter[p].data \subseteq S!Records
    BY <1>3 DEF Data
  <2> HIDE DEF rows
  <2> QED BY <1>3, <1>4, <2>1 DEF InTable
<1>6. d.schema = "current" /\ d.digest = digest
  OBVIOUS
<1>7. digest \in {starter[p].data, db.digest} /\ (db.schema = "none" => digest = starter[p].data)
  BY DEF S!FirstDigest
<1>8. d \in Database
  <2>1. digest \in Data
    BY <1>3, <1>7
  <2> HIDE DEF rows
  <2> QED BY <1>4, <2>1 DEF Database
<1> HIDE DEF rows, d
<1>9. written \subseteq InTable(d)
  BY <1>1, <1>5, StoreFacts DEF Stands
<1>10. FilesStand(legacy, rollback, d, written)
  <2>1. legacy.kind = "v1" => legacy.data # Nothing /\ written \subseteq legacy.data
    BY StoreFacts DEF FilesStand
  <2>2. legacy.kind = "none" => digest = Nothing
    BY <1>1, <1>7, StoreFacts DEF FilesStand, Stands
  <2>3. legacy.kind = "v1" /\ digest # Nothing => digest \subseteq legacy.data
    BY <1>1, <1>7, StoreFacts DEF FilesStand, Stands
  <2>4. Marked(legacy) => written \subseteq Kept(rollback)
    BY StoreFacts DEF FilesStand
  <2>5. legacy.kind \in {"none", "broken"} => written = {}
    BY StoreFacts DEF FilesStand
  <2>6. legacy.kind # "broken"
    BY <1>1, StoreFacts DEF Stands
  <2> QED BY <1>6, <1>9, <2>1, <2>2, <2>3, <2>4, <2>5, <2>6 DEF FilesStand
<1>11. GoneStand(legacy, rollback, d, gone, late)
  BY <1>5, StoreFacts DEF GoneStand, Stands
<1>12. Stands(q, store, legacy, rollback, d, gone, late, written)
  BY <1>1, <1>6, <1>9, StoreFacts DEF Stands
<1>13. ASSUME NEW s \in Starters, Stands(starter[s], store, legacy, rollback, db, gone, late, written)
       PROVE  Stands(starter[s], store, legacy, rollback, d, gone, late, written)
  BY <1>6, <1>9, <1>13 DEF Stands
<1> HIDE DEF q
<1>14. /\ store' = store /\ legacy' = legacy /\ rollback' = rollback /\ gone' = gone /\ late' = late
       /\ written' = written
  BY <1>1
<1>15. /\ legacy' \in LegacyFile /\ rollback' \in Data /\ db' \in Database
       /\ gone' \subseteq S!Records /\ written' \subseteq S!Records
  BY <1>1, <1>8, <1>14, StoreFacts
<1>16. /\ FilesStand(legacy', rollback', db', written')
       /\ GoneStand(legacy', rollback', db', gone', late')
       /\ Stands(q, store, legacy', rollback', db', gone', late', written')
       /\ \A s \in Starters :
             Stands(starter[s], store, legacy, rollback, db, gone, late, written) =>
             Stands(starter[s], store, legacy', rollback', db', gone', late', written')
  BY Zenon, <1>1, <1>10, <1>11, <1>12, <1>13, <1>14
<1> QED BY <1>2, <1>14, <1>15, <1>16, StoreStep

LEMMA StoreImport ==
    ASSUME StoreInv, NEW p \in Starters, S!Import(p) PROVE StoreInv'
<1>1. CASE S!ImportInterfaces(p)
  BY <1>1, StoreImports DEF S!ImportInterfaces
<1>2. CASE S!ImportAutomation(p)
  BY <1>2, StoreImports DEF S!ImportAutomation
<1>3. CASE S!ImportExternalWrites(p)
  BY <1>3, StoreImports DEF S!ImportExternalWrites
<1>4. CASE S!ImportContinuity(p)
  BY <1>4, StoreImports DEF S!ImportContinuity
<1>5. CASE S!ImportPersonalContext(p)
  BY <1>5, StoreImports DEF S!ImportPersonalContext
<1>6. CASE S!ImportModelRuns(p)
  <2>1. CASE starter[p].data = Nothing
    BY <1>6, <2>1, StoreImports DEF S!ImportModelRuns
  <2>2. CASE starter[p].data # Nothing
    BY <1>6, <2>2, StoreImports DEF S!ImportModelRuns
  <2> QED BY <2>1, <2>2
<1> QED BY <1>1, <1>2, <1>3, <1>4, <1>5, <1>6 DEF S!Import

\* A write puts a record that was not deleted into the table.
LEMMA StoreRecords ==
    ASSUME StoreInv, NEW p \in Starters, NEW r \in New, S!WriteRecord(p, r) PROVE StoreInv'
<1> DEFINE d == [db EXCEPT !.rows[r] = 1]
<1>1. /\ db' = d /\ starter[p].pc = "open" /\ r \in S!Records \ gone
      /\ UNCHANGED <<store, legacy, rollback, starter, gone, late, written>>
  BY DEF S!WriteRecord, S!At, S!Records
<1>2. d = [schema |-> db.schema, digest |-> db.digest, rows |-> [db.rows EXCEPT ![r] = 1]]
  BY StoreFacts DEF Database
<1>3. /\ d \in Database /\ d.schema = db.schema /\ d.digest = db.digest
      /\ InTable(d) = InTable(db) \cup {r}
  BY <1>1, <1>2, StoreFacts DEF Database, InTable
<1> HIDE DEF d
<1>4. db.schema = "current"
  BY <1>1, StoreFacts DEF Stands
<1>5. FilesStand(legacy, rollback, d, written)
  BY <1>3, <1>4, StoreFacts DEF FilesStand
<1>6. GoneStand(legacy, rollback, d, gone, late)
  BY <1>1, <1>3, StoreFacts DEF GoneStand
<1>7. ASSUME NEW s \in Starters, Stands(starter[s], store, legacy, rollback, db, gone, late, written)
      PROVE  Stands(starter[s], store, legacy, rollback, d, gone, late, written)
  BY <1>3, <1>7 DEF Stands
<1>8. Stands(starter[p], store, legacy, rollback, d, gone, late, written) /\ starter[p] \in Start
  BY <1>7, StoreFacts
<1>9. /\ store' = store /\ legacy' = legacy /\ rollback' = rollback /\ gone' = gone /\ late' = late
      /\ written' = written /\ starter' = [starter EXCEPT ![p] = starter[p]]
  BY <1>1 DEF StoreInv, StoreTyped
<1>10. /\ legacy' \in LegacyFile /\ rollback' \in Data /\ db' \in Database
       /\ gone' \subseteq S!Records /\ written' \subseteq S!Records
  BY <1>1, <1>3, <1>9, StoreFacts
<1>11. /\ FilesStand(legacy', rollback', db', written')
       /\ GoneStand(legacy', rollback', db', gone', late')
       /\ Stands(starter[p], store, legacy', rollback', db', gone', late', written')
       /\ \A s \in Starters :
             Stands(starter[s], store, legacy, rollback, db, gone, late, written) =>
             Stands(starter[s], store, legacy', rollback', db', gone', late', written')
  BY Zenon, <1>1, <1>5, <1>6, <1>7, <1>8, <1>9
<1> QED BY <1>8, <1>9, <1>10, <1>11, StoreStep

\* A deletion takes the record out of the rollback file, and is not complete.
LEMMA StoreSuppresses ==
    ASSUME StoreInv, NEW p \in Starters, NEW r \in S!Records, S!SuppressRollback(p, r)
    PROVE  StoreInv'
<1> DEFINE q == [pc |-> "deleting", data |-> starter[p].data, rec |-> r]
           rb == IF rollback = Nothing THEN Nothing ELSE rollback \ {r}
           wr == written \ {r}
<1>1. /\ starter[p].pc = "open" /\ store = "personal-context" /\ rollback' = rb /\ written' = wr
      /\ UNCHANGED <<store, legacy, db, gone, late>>
  BY DEF S!SuppressRollback, S!At
<1>2. q \in Start /\ starter' = [starter EXCEPT ![p] = q]
  <2>1. starter \in [Starters -> Start]
    BY DEF StoreInv, StoreTyped
  <2>2. starter' = [starter EXCEPT ![p] = [starter[p] EXCEPT !.pc = "deleting", !.rec = r]]
    BY <2>1 DEF S!SuppressRollback
  <2>3. [starter[p] EXCEPT !.pc = "deleting", !.rec = r] = q
    <3>1. starter[p] = [pc |-> starter[p].pc, data |-> starter[p].data, rec |-> starter[p].rec]
      BY <2>1 DEF Start
    <3>2. [starter[p] EXCEPT !.pc = "deleting"]
             = [pc |-> "deleting", data |-> starter[p].data, rec |-> starter[p].rec]
      BY <3>1
    <3>3. [[pc |-> "deleting", data |-> starter[p].data, rec |-> starter[p].rec] EXCEPT !.rec = r] = q
      OBVIOUS
    <3>4. [starter[p] EXCEPT !.pc = "deleting", !.rec = r]
             = [[starter[p] EXCEPT !.pc = "deleting"] EXCEPT !.rec = r]
      OBVIOUS
    <3> HIDE DEF q
    <3> QED BY Zenon, <3>2, <3>3, <3>4
  <2>4. q \in Start
    BY <2>1 DEF Start, Places
  <2> HIDE DEF q
  <2> QED BY <2>2, <2>3, <2>4
<1>3. /\ rb \in Data /\ Kept(rb) = Kept(rollback) \ {r}
  <2>1. CASE rollback = Nothing
    BY <2>1 DEF Data, Kept
  <2>2. CASE rollback # Nothing
    <3>1. rollback \ {r} \in SUBSET S!Records
      BY <2>2, FilesFacts DEF Data
    <3>2. rb = rollback \ {r} /\ rb # Nothing
      BY <2>2, <3>1, RecordsAssumption
    <3> HIDE DEF rb
    <3> QED BY <2>2, <3>1, <3>2 DEF Data, Kept
  <2> QED BY <2>1, <2>2
<1>4. db.schema = "current" /\ Marked(legacy)
  BY <1>1, StoreFacts DEF Stands
<1>5. wr \subseteq S!Records /\ wr \subseteq written /\ r \notin wr
  BY StoreFacts
<1> HIDE DEF rb
<1>6. FilesStand(legacy, rb, db, wr)
  BY <1>3, <1>4, StoreFacts DEF FilesStand, Marked
<1>7. GoneStand(legacy, rb, db, gone, late)
  BY <1>3, StoreFacts DEF GoneStand
<1>8. ASSUME NEW s \in Starters, Stands(starter[s], store, legacy, rollback, db, gone, late, written)
      PROVE  Stands(starter[s], store, legacy, rb, db, gone, late, wr)
  <2> HIDE DEF wr
  <2>1. \A w \in wr : w \in written /\ w # r
    BY <1>5
  <2>2. written = {} => wr = {}
    BY <1>5
  <2>3. written \subseteq Kept(rollback) => wr \subseteq Kept(rb)
    BY <1>3, <2>1
  <2> QED BY <1>3, <1>8, <2>1, <2>2, <2>3 DEF Stands
<1>9. Stands(q, store, legacy, rb, db, gone, late, wr)
  BY <1>1, <1>3, <1>4, <1>5, StoreFacts DEF Stands, Marked
<1> HIDE DEF q, wr
<1>10. store' = store /\ legacy' = legacy /\ db' = db /\ gone' = gone /\ late' = late
  BY <1>1
<1>11. /\ legacy' \in LegacyFile /\ rollback' \in Data /\ db' \in Database
       /\ gone' \subseteq S!Records /\ written' \subseteq S!Records
  BY <1>1, <1>3, <1>5, <1>10, StoreFacts
<1>12. /\ FilesStand(legacy', rollback', db', written')
       /\ GoneStand(legacy', rollback', db', gone', late')
       /\ Stands(q, store, legacy', rollback', db', gone', late', written')
       /\ \A s \in Starters :
             Stands(starter[s], store, legacy, rollback, db, gone, late, written) =>
             Stands(starter[s], store, legacy', rollback', db', gone', late', written')
  BY Zenon, <1>1, <1>6, <1>7, <1>8, <1>9, <1>10
<1> QED BY <1>2, <1>10, <1>11, <1>12, StoreStep

LEMMA StoreDeletes ==
    ASSUME StoreInv, NEW p \in Starters, S!CommitDeletion(p) PROVE StoreInv'
<1> DEFINE r == starter[p].rec
           q == [pc |-> "open", data |-> Nothing, rec |-> Nothing]
           d == [db EXCEPT !.rows[r] = 0]
           go == gone \cup {r}
<1>1. /\ starter[p].pc = "deleting" /\ gone' = go /\ db' = d
      /\ UNCHANGED <<store, legacy, rollback, late, written>>
  BY DEF S!CommitDeletion, S!At
<1>2. q \in Start /\ starter' = [starter EXCEPT ![p] = q]
  <2>1. starter' = [starter EXCEPT ![p] = [S!Stopped EXCEPT !.pc = "open"]]
    BY DEF S!CommitDeletion
  <2>2. starter' = [starter EXCEPT ![p] = q]
    BY Zenon, <2>1, OpenIs
  <2> QED BY <2>2 DEF Start, Places, Data
<1>3. /\ db.schema = "current" /\ store = "personal-context" /\ Marked(legacy)
      /\ r \in S!Records \ written /\ (r \in late \/ r \notin Kept(rollback))
  BY <1>1, StoreFacts DEF Stands
<1>4. d = [schema |-> db.schema, digest |-> db.digest, rows |-> [db.rows EXCEPT ![r] = 0]]
  BY StoreFacts DEF Database
<1> HIDE DEF r
<1>5. /\ d \in Database /\ d.schema = "current" /\ InTable(d) = InTable(db) \ {r}
  BY <1>3, <1>4, StoreFacts DEF Database, InTable
<1> HIDE DEF d
<1>6. FilesStand(legacy, rollback, d, written)
  BY <1>3, <1>5, StoreFacts DEF FilesStand, Marked
<1>7. GoneStand(legacy, rollback, d, go, late)
  BY <1>3, <1>5, StoreFacts DEF GoneStand
<1>8. ASSUME NEW s \in Starters, Stands(starter[s], store, legacy, rollback, db, gone, late, written)
      PROVE  Stands(starter[s], store, legacy, rollback, d, go, late, written)
  <2>1. written \subseteq InTable(db) => written \subseteq InTable(d)
    BY <1>3, <1>5
  <2> HIDE DEF go
  <2> QED BY <1>3, <1>5, <1>8, <2>1 DEF Stands
<1>9. Stands(q, store, legacy, rollback, d, go, late, written)
  BY <1>3, <1>5 DEF Stands
<1>10. go \subseteq S!Records
  BY <1>3, StoreFacts
<1> HIDE DEF q, go
<1>11. /\ store' = store /\ legacy' = legacy /\ rollback' = rollback /\ late' = late
       /\ written' = written
  BY <1>1
<1>12. /\ legacy' \in LegacyFile /\ rollback' \in Data /\ db' \in Database
       /\ gone' \subseteq S!Records /\ written' \subseteq S!Records
  BY <1>1, <1>5, <1>10, <1>11, StoreFacts
<1>13. /\ FilesStand(legacy', rollback', db', written')
       /\ GoneStand(legacy', rollback', db', gone', late')
       /\ Stands(q, store, legacy', rollback', db', gone', late', written')
       /\ \A s \in Starters :
             Stands(starter[s], store, legacy, rollback, db, gone, late, written) =>
             Stands(starter[s], store, legacy', rollback', db', gone', late', written')
  BY Zenon, <1>1, <1>6, <1>7, <1>8, <1>9, <1>11
<1> QED BY <1>2, <1>11, <1>12, <1>13, StoreStep

\* What happens while nobody runs.
LEMMA StoreOutside ==
    ASSUME StoreInv, S!NobodyRuns, store' = store, starter' = starter,
           legacy' \in LegacyFile, rollback' \in Data, db' \in Database,
           gone' \subseteq S!Records, written' \subseteq S!Records,
           FilesStand(legacy', rollback', db', written'),
           GoneStand(legacy', rollback', db', gone', late')
    PROVE  StoreInv'
<1>1. \A p \in Starters : starter'[p] = S!Stopped
  BY StoreFacts DEF S!NobodyRuns, S!At, Stands
<1>2. \A p \in Starters :
         Stands(starter'[p], store', legacy', rollback', db', gone', late', written')
  BY Zenon, <1>1, StoppedStands
<1>3. StoreTyped'
  BY DEF StoreInv, StoreTyped
<1> QED BY Zenon, <1>2, <1>3 DEF StoreInv

LEMMA StoreOldRelease ==
    ASSUME StoreInv, NEW r \in Late, S!OldRelease(r) PROVE StoreInv'
<1> DEFINE data == S!InLegacyFile \cup {r}
           lg == [kind |-> "v1", data |-> data]
           wr == written \cup {r}
<1>1. /\ S!NobodyRuns /\ legacy.kind \in {"none", "v1"} /\ r \notin S!InLegacyFile
      /\ legacy' = lg /\ written' = wr
      /\ store' = store /\ rollback' = rollback /\ db' = db /\ starter' = starter
      /\ gone' = gone /\ late' = late
  BY DEF S!OldRelease, S!File
<1>2. r \in S!Records
  BY DEF S!Records
<1>3. S!InLegacyFile = IF legacy.kind = "v1" THEN legacy.data ELSE {}
  BY DEF S!InLegacyFile
<1>4. /\ S!InLegacyFile \subseteq S!Records /\ written \subseteq S!InLegacyFile
      /\ legacy.kind = "none" => written = {}
  BY <1>1, <1>3, FilesFacts DEF FilesStand, LegacyFile, Data
<1>5. data \in SUBSET S!Records /\ data # Nothing /\ wr \subseteq data /\ lg \in LegacyFile
  <2>1. data \in SUBSET S!Records /\ wr \subseteq data
    BY <1>2, <1>4
  <2>2. data # Nothing
    BY <2>1, RecordsAssumption
  <2> HIDE DEF data
  <2> QED BY <2>1, <2>2 DEF LegacyFile, Data
<1>6. FilesStand(lg, rollback, db, wr)
  <2>1. db.schema # "none" /\ db.digest # Nothing =>
           db.digest \subseteq data /\ db.digest \cap wr \subseteq InTable(db)
    BY <1>1, <1>3, FilesFacts DEF FilesStand
  <2>2. db.schema # "old"
    BY <1>1, FilesFacts DEF FilesStand, Marked
  <2>3. db.schema = "none" => InTable(db) = {}
    BY FilesFacts DEF FilesStand
  <2> HIDE DEF data, wr
  <2> QED BY <1>5, <2>1, <2>2, <2>3 DEF FilesStand, Marked
<1>7. GoneStand(lg, rollback, db, gone, late)
  BY <1>1, FilesFacts DEF GoneStand, Marked
<1>8. wr \subseteq S!Records
  BY <1>2, FilesFacts
<1> HIDE DEF lg, wr, data
<1>9. /\ FilesStand(legacy', rollback', db', written')
      /\ GoneStand(legacy', rollback', db', gone', late')
  BY Zenon, <1>1, <1>6, <1>7
<1>10. /\ legacy' \in LegacyFile /\ rollback' \in Data /\ db' \in Database
       /\ gone' \subseteq S!Records /\ written' \subseteq S!Records
  BY <1>1, <1>5, <1>8, FilesFacts
<1> QED BY <1>1, <1>9, <1>10, StoreOutside

LEMMA StoreLoses ==
    ASSUME StoreInv, S!LoseDatabase PROVE StoreInv'
<1> DEFINE d == [schema |-> "none", digest |-> Nothing, rows |-> [r \in S!Records |-> 0]]
<1>1. /\ S!NobodyRuns /\ db' = d /\ store' = store /\ rollback' = rollback /\ legacy' = legacy
      /\ starter' = starter /\ gone' = gone /\ late' = late /\ written' = written
  BY DEF S!LoseDatabase, S!NoDatabase
<1>2. d \in Database /\ d.schema = "none" /\ InTable(d) = {}
  BY DEF Database, Data, InTable
<1> HIDE DEF d
<1>3. FilesStand(legacy, rollback, d, written) /\ GoneStand(legacy, rollback, d, gone, late)
  BY <1>2, FilesFacts DEF FilesStand, GoneStand
<1>4. /\ FilesStand(legacy', rollback', db', written')
      /\ GoneStand(legacy', rollback', db', gone', late')
  BY Zenon, <1>1, <1>3
<1>5. /\ legacy' \in LegacyFile /\ rollback' \in Data /\ db' \in Database
      /\ gone' \subseteq S!Records /\ written' \subseteq S!Records
  BY <1>1, <1>2, FilesFacts
<1> QED BY <1>1, <1>4, <1>5, StoreOutside

LEMMA StoreNext == StoreInv /\ [S!Next]_storeVars => StoreInv'
<1> SUFFICES ASSUME StoreInv, [S!Next]_storeVars PROVE StoreInv'
  OBVIOUS
<1>1. CASE UNCHANGED storeVars
  <2>1. UNCHANGED <<store, legacy, rollback, db, starter, gone, late, written>>
    BY <1>1 DEF storeVars
  <2> QED BY <2>1 DEF StoreInv, StoreTyped, FilesStand, GoneStand, Stands, Kept, InTable, Marked
<1>2. ASSUME NEW p \in Starters, S!LoadLegacy(p) PROVE StoreInv'
  BY <1>2, StoreLoad, StoreNoLegacy DEF S!LoadLegacy, S!LoadInterfaces, S!LoadAutomation,
     S!LoadExternalWrites, S!LoadContinuity, S!LoadModelRuns, S!LoadPersonalContext
<1>3. ASSUME NEW p \in Starters, S!Open(p) PROVE StoreInv'
  BY <1>2, <1>3, StoreReadies, StoreFinalize, StoreFinds, StoreWrites, StorePending, StoreImport,
     StoreAuthority DEF S!Open
<1>4. ASSUME NEW p \in Starters, S!Crash(p) PROVE StoreInv'
  <2>1. /\ starter' = [starter EXCEPT ![p] = S!Stopped]
        /\ UNCHANGED <<store, legacy, rollback, db, gone, late, written>>
    BY <1>4 DEF S!Crash
  <2> QED BY <2>1, StoppedStands, StoreMoves
<1> QED BY <1>1, <1>3, <1>4, StoreDeletes, StoreRecords, StoreSuppresses, StoreOldRelease, StoreLoses
    DEF S!Next

\* The invariant has what is said of the stores.
LEMMA StoreKeeps == StoreInv => MigrationKeepsEveryRecord
<1> SUFFICES ASSUME StoreInv PROVE MigrationKeepsEveryRecord
  OBVIOUS
<1>1. /\ starter \in [Starters -> Start] /\ store \in S!Stores /\ legacy \in LegacyFile
      /\ rollback \in Data /\ db \in Database /\ gone \subseteq S!Records
      /\ written \subseteq S!Records
      /\ FilesStand(legacy, rollback, db, written) /\ GoneStand(legacy, rollback, db, gone, late)
  BY DEF StoreInv, StoreTyped
<1>2. S!TypeOK
  BY <1>1 DEF S!TypeOK, LegacyFile, Data, Database
<1>3. S!EveryRecordOnce
  <2>1. \A r \in S!Records : db.rows[r] <= 1
    BY <1>1 DEF Database
  <2>2. ASSUME NEW r \in written
        PROVE  \/ r \in S!InLegacyFile
               \/ IF db.schema = "none" THEN rollback # Nothing /\ r \in rollback ELSE S!Held(r)
    <3>1. legacy.kind = "v1" \/ Marked(legacy)
      BY <1>1, <2>2 DEF FilesStand, LegacyFile, Marked
    <3>2. CASE legacy.kind = "v1"
      BY <1>1, <2>2, <3>2 DEF FilesStand, S!InLegacyFile
    <3>3. CASE Marked(legacy)
      BY <1>1, <2>2, <3>3 DEF FilesStand, Kept, InTable, S!Held
    <3> QED BY <3>1, <3>2, <3>3
  <2> QED BY <2>1, <2>2 DEF S!EveryRecordOnce
<1>4. S!DeletedStaysDeleted
  BY <1>1 DEF S!DeletedStaysDeleted, GoneStand, InTable, Kept, S!Held
<1>5. S!OpenIsReady
  BY DEF S!OpenIsReady, S!At, StoreInv, Stands
<1> QED BY <1>2, <1>3, <1>4, <1>5 DEF MigrationKeepsEveryRecord

-----------------------------------------------------------------------------
(* Selections.                                                             *)

\* What the places s of a list l cost, each, and the rest nothing.
Costs(l, s) == [n \in 1 .. Len(l) |-> IF n \in s THEN l[n].cost ELSE 0]

Listing(l) ==
    /\ Len(l) \in Nat /\ DOMAIN l = 1 .. Len(l)
    /\ \A n \in 1 .. Len(l) : l[n].cost \in Nat /\ l[n].ok \in BOOLEAN

\* The places s are within the caps c, on what they cost, and m, on their number.
Within(l, c, m, s) ==
    (\A n \in s : l[n].ok) /\ Cardinality(s) <= m /\ Sum(Costs(l, s)) <= c

\* The place n could be taken after s.
Adds(l, c, m, s, n) ==
    l[n].ok /\ Cardinality(s) < m /\ Sum(Costs(l, s)) + l[n].cost <= c

\* With the place n, s would use up the cap c just.
Evens(l, c, s, n) == l[n].cost > 0 /\ Sum(Costs(l, s)) + l[n].cost = c

\* A place passed over after s, in the loop k.
PassedOver(k, l, c, m, s, n) == Adds(l, c, m, s, n) => k = "goals" /\ Evens(l, c, s, n)

\* What has been passed over did not fit with the better places taken, or was a
\* goal that would just have used up the hours; a history is taken up to where
\* it stopped, at a turn that did not fit.
SelectionInv ==
    /\ kind \in {"briefing", "goals", "history"} /\ cap \in 0 .. MaxCap
    /\ most \in 0 .. (MaxItems + MaxMessages)
    /\ Listing(list) /\ next \in 1 .. Len(list) + 1
    /\ taken \in SUBSET (1 .. next - 1) /\ Within(list, cap, most, taken)
    /\ kind # "history" =>
          \A n \in 1 .. next - 1 :
             n \in taken \/ PassedOver(kind, list, cap, most, taken \cap (1 .. n - 1), n)
    /\ kind = "history" =>
          \/ taken = 1 .. next - 1
          \/ \E k \in 0 .. Len(list) - 1 :
                /\ taken = 1 .. k /\ next = Len(list) + 1
                /\ ~Adds(list, cap, most, 1 .. k, k + 1)

LEMMA CostsAre ==
    ASSUME NEW l, Listing(l), NEW s
    PROVE  /\ Costs(l, s) \in Seq(Nat) /\ Len(Costs(l, s)) = Len(l)
           /\ \A n \in 1 .. Len(l) : Costs(l, s)[n] = IF n \in s THEN l[n].cost ELSE 0
<1> DEFINE N == Len(l)
           costs == [n \in 1 .. N |-> IF n \in s THEN l[n].cost ELSE 0]
<1>1. N \in Nat /\ \A n \in 1 .. N : l[n].cost \in Nat
  BY DEF Listing
<1>2. costs \in [1 .. N -> Nat]
  <2> HIDE DEF N
  <2> QED BY <1>1
<1>3. costs \in Seq(Nat) /\ Len(costs) = N
  <2> HIDE DEF N, costs
  <2>1. N \in Nat /\ DOMAIN costs = 1 .. N
    BY <1>1, <1>2
  <2> QED BY <1>2, <2>1
<1>4. Costs(l, s) = costs
  BY DEF Costs
<1> QED BY <1>3, <1>4

\* More places cost no less, and one more its own cost more.
LEMMA CostsGrow ==
    ASSUME NEW l, Listing(l), NEW t, NEW s \in SUBSET t
    PROVE  Sum(Costs(l, s)) \in Nat /\ Sum(Costs(l, s)) <= Sum(Costs(l, t))
<1>1. /\ Costs(l, s) \in Seq(Nat) /\ Len(Costs(l, s)) = Len(l)
      /\ \A n \in 1 .. Len(l) : Costs(l, s)[n] = IF n \in s THEN l[n].cost ELSE 0
  BY CostsAre
<1>2. /\ Costs(l, t) \in Seq(Nat) /\ Len(Costs(l, t)) = Len(l)
      /\ \A n \in 1 .. Len(l) : Costs(l, t)[n] = IF n \in t THEN l[n].cost ELSE 0
  BY CostsAre
<1> DEFINE a == Costs(l, s)
           b == Costs(l, t)
<1>3. \A n \in 1 .. Len(a) : a[n] <= b[n]
  <2>1. ASSUME NEW n \in 1 .. Len(l) PROVE a[n] <= b[n]
    <3>1. l[n].cost \in Nat
      BY DEF Listing
    <3> QED BY <1>1, <1>2, <3>1
  <2> QED BY <1>1, <2>1
<1>4. a \in Seq(Nat) /\ b \in Seq(Nat) /\ Len(a) = Len(b)
  BY <1>1, <1>2
<1> HIDE DEF a, b
<1>5. Sum(a) \in Nat /\ Sum(a) <= Sum(b)
  BY <1>3, <1>4, SumOrdered, SumType
<1> QED BY <1>5 DEF a, b

LEMMA CostsAdd ==
    ASSUME NEW l, Listing(l), NEW s, NEW p \in 1 .. Len(l), p \notin s
    PROVE  Sum(Costs(l, s \cup {p})) = Sum(Costs(l, s)) + l[p].cost
<1> DEFINE a == Costs(l, s)
           b == Costs(l, s \cup {p})
<1>1. /\ a \in Seq(Nat) /\ Len(a) = Len(l)
      /\ \A n \in 1 .. Len(l) : a[n] = IF n \in s THEN l[n].cost ELSE 0
  BY CostsAre
<1>2. /\ b \in Seq(Nat) /\ Len(b) = Len(l)
      /\ \A n \in 1 .. Len(l) : b[n] = IF n \in s \cup {p} THEN l[n].cost ELSE 0
  BY CostsAre
<1>3. /\ p \in 1 .. Len(a) /\ Len(a) = Len(b) /\ a[p] = 0 /\ b[p] = l[p].cost
      /\ \A n \in 1 .. Len(a) : n # p => b[n] = a[n]
  <2> HIDE DEF a, b
  <2> QED BY <1>1, <1>2
<1>4. l[p].cost \in Nat
  BY DEF Listing
<1> HIDE DEF a, b
<1>5. Sum(b) + a[p] = Sum(a) + b[p] /\ Sum(a) \in Nat /\ Sum(b) \in Nat
  BY <1>1, <1>2, <1>3, SumsDiffer, SumType
<1>6. Sum(b) = Sum(a) + l[p].cost
  BY <1>3, <1>4, <1>5
<1> QED BY <1>6 DEF a, b

\* Nothing is within every cap.
LEMMA NothingWithin ==
    ASSUME NEW l, Listing(l), NEW c \in Nat, NEW m \in Nat
    PROVE  Within(l, c, m, {})
<1>1. /\ Costs(l, {}) \in Seq(Nat) /\ Len(Costs(l, {})) = Len(l)
      /\ \A n \in 1 .. Len(l) : Costs(l, {})[n] = IF n \in {} THEN l[n].cost ELSE 0
  BY CostsAre
<1>2. Sum(Costs(l, {})) = 0
  BY <1>1, SumZero
<1> QED BY <1>2, FS_EmptySet DEF Within

\* What is taken after s is within the caps with it, and nothing beyond is.
LEMMA AddsIs ==
    ASSUME NEW l, Listing(l), NEW c \in Nat, NEW m \in Nat,
           NEW p \in 1 .. Len(l), NEW s \in SUBSET (1 .. p - 1)
    PROVE  /\ Within(l, c, m, s) /\ Adds(l, c, m, s, p) => Within(l, c, m, s \cup {p})
           /\ \A t \in SUBSET (1 .. Len(l)) :
                 s \cup {p} \subseteq t /\ Within(l, c, m, t) => Adds(l, c, m, s, p)
<1>1. p \in Nat /\ Len(l) \in Nat /\ p \notin s /\ IsFiniteSet(1 .. Len(l))
  <2>1. Len(l) \in Nat
    BY DEF Listing
  <2> QED BY <2>1, FS_Interval
<1>2. IsFiniteSet(s) /\ Cardinality(s) \in Nat /\ Cardinality(s \cup {p}) = Cardinality(s) + 1
  <2>1. IsFiniteSet(1 .. p - 1)
    BY <1>1, FS_Interval
  <2>2. IsFiniteSet(s)
    BY <2>1, FS_Subset
  <2> QED BY <1>1, <2>2, FS_AddElement, FS_CardinalityType
<1>3. Sum(Costs(l, s \cup {p})) = Sum(Costs(l, s)) + l[p].cost
  BY <1>1, CostsAdd
<1>4. Within(l, c, m, s) /\ Adds(l, c, m, s, p) => Within(l, c, m, s \cup {p})
  BY <1>2, <1>3 DEF Within, Adds
<1>5. ASSUME NEW t \in SUBSET (1 .. Len(l)), s \cup {p} \subseteq t, Within(l, c, m, t)
      PROVE  Adds(l, c, m, s, p)
  <2>1. IsFiniteSet(t)
    BY <1>1, FS_Subset
  <2>2. Cardinality(s \cup {p}) <= Cardinality(t) /\ Cardinality(t) \in Nat
    <3>1. s \cup {p} \in SUBSET t
      BY <1>5
    <3> QED BY <2>1, <3>1, FS_Subset, FS_CardinalityType
  <2>3. Sum(Costs(l, s \cup {p})) <= Sum(Costs(l, t)) /\ Sum(Costs(l, s \cup {p})) \in Nat
        /\ Sum(Costs(l, t)) \in Nat
    <3>1. s \cup {p} \in SUBSET t /\ t \in SUBSET t
      BY <1>5
    <3> QED BY <3>1, CostsGrow
  <2>4. l[p].ok /\ Cardinality(t) <= m /\ Sum(Costs(l, t)) <= c
    BY <1>5 DEF Within
  <2> QED BY <1>2, <1>3, <2>2, <2>3, <2>4 DEF Adds
<1> QED BY <1>4, <1>5

\* The operators of the component, said of its list.
LEMMA SelectionIs ==
    /\ \A s : L!Spent(s) = Sum([n \in DOMAIN list |-> IF n \in s THEN list[n].cost ELSE 0])
    /\ \A s : L!Cardinality(s) = Cardinality(s)
    /\ \A s, ahead : L!Listed(s, ahead) = Listed(s, ahead)
<1>1. \A s : L!Spent(s) = Sum([n \in DOMAIN list |-> IF n \in s THEN list[n].cost ELSE 0])
  BY Zenon DEF L!Spent, L!Sum, Sum
<1>2. \A s : L!Cardinality(s) = Cardinality(s)
  BY Zenon DEF L!Cardinality, Cardinality
<1>3. \A s, ahead : L!Listed(s, ahead) = Listed(s, ahead)
  BY Zenon DEF L!Listed, Listed, L!Cardinality, Cardinality
<1> QED BY <1>1, <1>2, <1>3

\* Ranked items are a list of the items there are.
LEMMA RankedIs ==
    ASSUME NEW n \in Nat, NEW items \in [1 .. n -> L!Items]
    PROVE  Listing(L!Ranked(items))
<1> DEFINE Q == 1 .. n
           ahead == {p \in Q \X Q :
                        \/ items[p[1]].rank > items[p[2]].rank
                        \/ items[p[1]].rank = items[p[2]].rank /\ p[1] < p[2]}
           order == Listed(Q, ahead)
           ranked == [k \in Q |-> items[order[k]]]
<1>1. DOMAIN items = Q
  OBVIOUS
<1>2. L!Ranked(items) = ranked
  BY Zenon, <1>1, SelectionIs DEF L!Ranked
<1>3. \A a, b \in Q : <<a, b>> \in ahead <=>
          items[a].rank > items[b].rank \/ (items[a].rank = items[b].rank /\ a < b)
  OBVIOUS
<1>4. \A a \in Q : items[a] \in L!Items /\ items[a].rank \in Int /\ a \in Int
  BY DEF L!Items
<1>5. IsFiniteSet(Q) /\ Cardinality(Q) = n
  BY FS_Interval
<1>6. order \in [Q -> Q]
  <2> HIDE DEF ahead, Q
  <2>1. \A a \in Q : <<a, a>> \notin ahead
    BY <1>3, <1>4
  <2>2. \A a, b \in Q : a = b \/ <<a, b>> \in ahead \/ <<b, a>> \in ahead
    <3> TAKE a, b \in Q
    <3>1. items[a].rank \in Int /\ items[b].rank \in Int /\ a \in Int /\ b \in Int
      BY <1>4
    <3>2. \/ items[a].rank > items[b].rank \/ items[b].rank > items[a].rank
          \/ items[a].rank = items[b].rank /\ (a < b \/ b < a \/ a = b)
      BY <3>1
    <3> QED BY <1>3, <3>2
  <2>3. \A a, b, c \in Q : <<a, b>> \in ahead /\ <<b, c>> \in ahead => <<a, c>> \in ahead
    BY <1>3, <1>4
  <2>4. order \in [1 .. Cardinality(Q) -> Q]
    BY <1>5, <2>1, <2>2, <2>3, ListedIs
  <2> QED BY <1>5, <2>4 DEF Q
<1> HIDE DEF order
<1>7. ranked \in [1 .. n -> L!Items]
  <2>1. \A k \in Q : order[k] \in Q
    BY <1>6
  <2> QED BY <1>4, <2>1
<1> HIDE DEF ranked
<1>8. Len(ranked) = n /\ DOMAIN ranked = 1 .. n
  BY <1>7
<1>9. \A k \in 1 .. n : ranked[k].cost \in Nat /\ ranked[k].ok \in BOOLEAN
  BY <1>7, BoundsAssumption DEF L!Items
<1> QED BY <1>2, <1>8, <1>9 DEF Listing

\* The turns of a history, each of two messages, can all be taken.
LEMMA TurnsAre ==
    ASSUME NEW n \in Nat, NEW history \in [1 .. n -> L!Messages]
    PROVE  /\ Listing(L!CompleteTurns(history))
           /\ \A k \in 1 .. Len(L!CompleteTurns(history)) : L!CompleteTurns(history)[k].ok
<1> DEFINE Q == {i \in 1 .. Len(history) - 1 : history[i].role = "user"
                                                /\ history[i + 1].role = "assistant"}
           ahead == {p \in Q \X Q : p[1] < p[2]}
           turns == Listed(Q, ahead)
           list0 == [k \in DOMAIN turns |->
                       [ok |-> TRUE, cost |-> history[turns[k]].size + history[turns[k] + 1].size]]
           N == Cardinality(Q)
<1>1. Len(history) = n
  OBVIOUS
<1>2. L!CompleteTurns(history) = list0
  BY Zenon, SelectionIs DEF L!CompleteTurns
<1>3. /\ \A a \in Q : a \in Int /\ a \in 1 .. n /\ a + 1 \in 1 .. n
      /\ \A a, b \in Q : <<a, b>> \in ahead <=> a < b
  BY <1>1
<1>4. IsFiniteSet(Q)
  <2>1. IsFiniteSet(1 .. n) /\ Q \in SUBSET (1 .. n)
    BY <1>3, FS_Interval
  <2> HIDE DEF Q
  <2> QED BY <2>1, FS_Subset
<1>5. N \in Nat /\ turns \in [1 .. N -> Q]
  <2> HIDE DEF ahead, Q
  <2>1. \A a \in Q : <<a, a>> \notin ahead
    BY <1>3
  <2>2. \A a, b \in Q : a = b \/ <<a, b>> \in ahead \/ <<b, a>> \in ahead
    <3> TAKE a, b \in Q
    <3>1. a < b \/ b < a \/ a = b
      <4>1. a \in Int /\ b \in Int
        BY <1>3
      <4> QED BY <4>1
    <3> QED BY <1>3, <3>1
  <2>3. \A a, b, c \in Q : <<a, b>> \in ahead /\ <<b, c>> \in ahead => <<a, c>> \in ahead
    BY <1>3
  <2> QED BY <1>4, <2>1, <2>2, <2>3, ListedIs
<1> HIDE DEF turns, N, Q
<1>6. DOMAIN turns = 1 .. N
  BY <1>5
<1>7. ASSUME NEW k \in 1 .. N PROVE list0[k].cost \in Nat /\ list0[k].ok = TRUE
  <2>1. turns[k] \in 1 .. n /\ turns[k] + 1 \in 1 .. n
    BY <1>3, <1>5
  <2>2. \A i \in 1 .. n : history[i].size \in Nat
    BY BoundsAssumption DEF L!Messages
  <2>3. list0[k] = [ok |-> TRUE, cost |-> history[turns[k]].size + history[turns[k] + 1].size]
    BY <1>6
  <2> QED BY <2>1, <2>2, <2>3
<1>8. DOMAIN list0 = 1 .. N /\ Len(list0) = N
  <2>1. DOMAIN list0 = 1 .. N /\ list0 = [k \in 1 .. N |-> list0[k]]
    BY <1>6
  <2> HIDE DEF list0
  <2> QED BY <1>5, <2>1
<1> HIDE DEF list0
<1> QED BY <1>2, <1>5, <1>7, <1>8 DEF Listing

LEMMA ReverseIs ==
    ASSUME NEW l, Listing(l), \A n \in 1 .. Len(l) : l[n].ok
    PROVE  Listing(L!Reverse(l)) /\ \A n \in 1 .. Len(L!Reverse(l)) : L!Reverse(l)[n].ok
<1> DEFINE N == Len(l)
           r == [i \in 1 .. N |-> l[(N - i) + 1]]
<1>1. L!Reverse(l) = r
  BY DEF L!Reverse
<1>2. N \in Nat
  BY DEF Listing
<1>3. Len(r) = N /\ DOMAIN r = 1 .. N
  <2> HIDE DEF N
  <2>1. DOMAIN r = 1 .. N /\ r = [k \in 1 .. N |-> r[k]]
    OBVIOUS
  <2> HIDE DEF r
  <2> QED BY <1>2, <2>1
<1>4. \A i \in 1 .. N : r[i].cost \in Nat /\ r[i].ok \in BOOLEAN /\ r[i].ok
  <2> TAKE i \in 1 .. N
  <2>1. (N - i) + 1 \in 1 .. N
    <3> HIDE DEF N
    <3> QED BY <1>2
  <2> QED BY <2>1 DEF Listing
<1> HIDE DEF r
<1> QED BY <1>1, <1>2, <1>3, <1>4 DEF Listing

LEMMA FitsIs ==
    ASSUME SelectionInv
    PROVE  /\ L!Fits <=> Adds(list, cap, most, taken, next)
           /\ L!Drifts <=> kind = "goals" /\ Evens(list, cap, taken, next)
           /\ \A s : L!Admissible(s) <=> Within(list, cap, most, s)
           /\ \A s : L!Unmistaken(s) <=> (kind = "goals" => Sum(Costs(list, s)) < cap
                                                            \/ Sum(Costs(list, s)) = 0)
<1>1. Listing(list) /\ DOMAIN list = 1 .. Len(list)
  BY DEF SelectionInv, Listing
<1>2. \A s : L!Spent(s) = Sum(Costs(list, s))
  BY Zenon, <1>1, SelectionIs DEF Costs
<1>3. L!Fits <=> Adds(list, cap, most, taken, next)
  <2>1. L!Spent(taken) = Sum(Costs(list, taken)) /\ L!Cardinality(taken) = Cardinality(taken)
    BY <1>2, SelectionIs
  <2> QED BY Zenon, <2>1 DEF L!Fits, Adds
<1>4. \A s : L!Admissible(s) <=> Within(list, cap, most, s)
  <2> TAKE s
  <2>1. L!Spent(s) = Sum(Costs(list, s)) /\ L!Cardinality(s) = Cardinality(s)
    BY <1>2, SelectionIs
  <2> QED BY Zenon, <2>1 DEF L!Admissible, Within
<1>5. L!Drifts <=> kind = "goals" /\ Evens(list, cap, taken, next)
  <2>1. L!Spent(taken) = Sum(Costs(list, taken))
    BY <1>2
  <2> QED BY Zenon, <2>1 DEF L!Drifts, Evens
<1>6. \A s : L!Unmistaken(s) <=> (kind = "goals" => Sum(Costs(list, s)) < cap
                                                     \/ Sum(Costs(list, s)) = 0)
  BY Zenon, <1>2 DEF L!Unmistaken
<1> QED BY <1>3, <1>4, <1>5, <1>6

LEMMA BoundedIs ==
    ASSUME NEW X, NEW n \in Nat, NEW s \in L!BoundedSeq(X, n)
    PROVE  \E m \in Nat : s \in [1 .. m -> X]
BY DEF L!BoundedSeq, L!SeqOf

LEMMA SelectionInit == L!Init => SelectionInv
<1> SUFFICES ASSUME L!Init PROVE SelectionInv
  OBVIOUS
<1>1. cap \in 0 .. MaxCap /\ next = 1 /\ taken = {} /\ cap \in Nat
  BY BoundsAssumption DEF L!Init
<1>2. /\ kind \in {"briefing", "goals", "history"} /\ most \in 0 .. (MaxItems + MaxMessages)
      /\ Listing(list)
  <2>1. CASE kind = "briefing" /\ most \in 0 .. MaxItems
             /\ \E s \in L!BoundedSeq({i \in L!Items : i.ok}, MaxItems) : list = L!Ranked(s)
    <3>1. PICK s \in L!BoundedSeq({i \in L!Items : i.ok}, MaxItems) : list = L!Ranked(s)
      BY <2>1
    <3>2. PICK m \in Nat : s \in [1 .. m -> {i \in L!Items : i.ok}]
      BY BoundedIs, BoundsAssumption
    <3>3. s \in [1 .. m -> L!Items]
      BY <3>2
    <3>4. Listing(list)
      BY <3>1, <3>3, RankedIs
    <3> QED BY <2>1, <3>4, BoundsAssumption
  <2>2. CASE kind = "goals" /\ most = MaxItems
             /\ \E s \in L!BoundedSeq(L!Items, MaxItems) : list = L!Ranked(s)
    <3>1. PICK s \in L!BoundedSeq(L!Items, MaxItems) : list = L!Ranked(s)
      BY <2>2
    <3>2. PICK m \in Nat : s \in [1 .. m -> L!Items]
      BY BoundedIs, BoundsAssumption
    <3>3. Listing(list)
      BY <3>1, <3>2, RankedIs
    <3> QED BY <2>2, <3>3, BoundsAssumption
  <2>3. CASE kind = "history" /\ most = MaxMessages
             /\ \E s \in L!BoundedSeq(L!Messages, MaxMessages) :
                   list = L!Reverse(L!CompleteTurns(s))
    <3>1. PICK s \in L!BoundedSeq(L!Messages, MaxMessages) : list = L!Reverse(L!CompleteTurns(s))
      BY <2>3
    <3>2. PICK m \in Nat : s \in [1 .. m -> L!Messages]
      BY BoundedIs, BoundsAssumption
    <3>3. Listing(list)
      BY <3>1, <3>2, TurnsAre, ReverseIs
    <3> QED BY <2>3, <3>3, BoundsAssumption
  <2> QED BY <2>1, <2>2, <2>3 DEF L!Init
<1>3. Len(list) \in Nat /\ most \in Nat
  BY <1>2, BoundsAssumption DEF Listing
<1>4. Within(list, cap, most, taken)
  BY <1>1, <1>2, <1>3, NothingWithin
<1>5. taken = 1 .. next - 1
  BY <1>1
<1>6. next \in 1 .. Len(list) + 1
  BY <1>1, <1>3
<1> QED BY <1>1, <1>2, <1>4, <1>5, <1>6 DEF SelectionInv

LEMMA SelectionAlone ==
    ASSUME kind = "goals", list = <<>>, cap = 0, most = 0, next = 1, taken = {}
    PROVE  SelectionInv
<1>1. Listing(<<>>) /\ Len(<<>>) = 0
  BY DEF Listing
<1>2. Within(<<>>, 0, 0, {})
  BY <1>1, NothingWithin
<1> QED BY <1>1, <1>2, BoundsAssumption DEF SelectionInv

LEMMA SelectionTake == SelectionInv /\ L!Take => SelectionInv'
<1> SUFFICES ASSUME SelectionInv, L!Take PROVE SelectionInv'
  OBVIOUS
<1>1. /\ kind' = kind /\ list' = list /\ cap' = cap /\ most' = most
      /\ taken' = taken \cup {next} /\ next' = next + 1
  BY DEF L!Take
<1>2. /\ kind \in {"briefing", "goals", "history"} /\ cap \in 0 .. MaxCap /\ cap \in Nat
      /\ most \in 0 .. (MaxItems + MaxMessages) /\ most \in Nat
      /\ Listing(list) /\ next \in 1 .. Len(list) /\ Len(list) \in Nat
      /\ taken \in SUBSET (1 .. next - 1) /\ Within(list, cap, most, taken)
  <2>1. next <= Len(list)
    BY DEF L!Take
  <2>2. Len(list) \in Nat /\ next \in 1 .. Len(list) + 1 /\ cap \in 0 .. MaxCap
        /\ most \in 0 .. (MaxItems + MaxMessages)
    BY DEF SelectionInv, Listing
  <2> QED BY <2>1, <2>2, BoundsAssumption DEF SelectionInv
<1>3. Adds(list, cap, most, taken, next)
  <2>1. L!Fits
    BY DEF L!Take
  <2> QED BY <2>1, FitsIs
<1>4. Within(list, cap, most, taken \cup {next})
  BY <1>2, <1>3, AddsIs
<1>5. taken \cup {next} \in SUBSET (1 .. next) /\ next + 1 - 1 = next
  BY <1>2
<1>6. next + 1 \in 1 .. Len(list) + 1
  BY <1>2
<1>7. ASSUME kind # "history", NEW n \in 1 .. next
      PROVE  n \in taken \cup {next}
             \/ PassedOver(kind, list, cap, most, (taken \cup {next}) \cap (1 .. n - 1), n)
  <2>1. CASE n = next
    BY <2>1
  <2>2. CASE n # next
    <3>1. n \in 1 .. next - 1
      BY <1>2, <2>2
    <3>2. n \in taken \/ PassedOver(kind, list, cap, most, taken \cap (1 .. n - 1), n)
      BY <1>7, <3>1 DEF SelectionInv
    <3>3. (taken \cup {next}) \cap (1 .. n - 1) = taken \cap (1 .. n - 1)
      BY <1>2, <3>1
    <3> QED BY <3>2, <3>3
  <2> QED BY <2>1, <2>2
<1>8. ASSUME kind = "history" PROVE taken \cup {next} = 1 .. next
  <2>1. taken = 1 .. next - 1
    BY <1>2, <1>8 DEF SelectionInv
  <2> QED BY <1>2, <2>1
<1> DEFINE more == taken \cup {next}
<1>9. taken' = more /\ next' - 1 = next /\ next' = next + 1
  BY <1>1, <1>5
<1>10. /\ kind' \in {"briefing", "goals", "history"} /\ cap' \in 0 .. MaxCap
       /\ most' \in 0 .. (MaxItems + MaxMessages)
       /\ Listing(list') /\ next' \in 1 .. Len(list') + 1
       /\ taken' \in SUBSET (1 .. next' - 1) /\ Within(list', cap', most', taken')
  <2> HIDE DEF more
  <2>1. more \in SUBSET (1 .. next) /\ Within(list, cap, most, more)
    BY <1>4, <1>5 DEF more
  <2> QED BY <1>1, <1>2, <1>6, <1>9, <2>1
<1>11. kind' # "history" =>
          \A n \in 1 .. next' - 1 :
             n \in taken'
             \/ PassedOver(kind', list', cap', most', taken' \cap (1 .. n - 1), n)
  <2>1. kind # "history" =>
          \A n \in 1 .. next :
             n \in more \/ PassedOver(kind, list, cap, most, more \cap (1 .. n - 1), n)
    BY <1>7
  <2> HIDE DEF more
  <2> QED BY <1>1, <1>9, <2>1
<1>12. kind' = "history" => taken' = 1 .. next' - 1
  BY <1>1, <1>8, <1>9
<1> QED BY <1>10, <1>11, <1>12 DEF SelectionInv

LEMMA SelectionLeave == SelectionInv /\ L!Leave => SelectionInv'
<1> SUFFICES ASSUME SelectionInv, L!Leave PROVE SelectionInv'
  OBVIOUS
<1>1. /\ kind' = kind /\ list' = list /\ cap' = cap /\ most' = most /\ taken' = taken
      /\ next' = IF kind = "history" THEN Len(list) + 1 ELSE next + 1
  BY DEF L!Leave, L!PassOver
<1>2. /\ kind \in {"briefing", "goals", "history"} /\ cap \in 0 .. MaxCap
      /\ most \in 0 .. (MaxItems + MaxMessages)
      /\ Listing(list) /\ next \in 1 .. Len(list) /\ Len(list) \in Nat
      /\ taken \in SUBSET (1 .. next - 1) /\ Within(list, cap, most, taken)
  <2>1. next <= Len(list)
    BY DEF L!Leave
  <2>2. Len(list) \in Nat /\ next \in 1 .. Len(list) + 1
    BY DEF SelectionInv, Listing
  <2> QED BY <2>1, <2>2 DEF SelectionInv
<1>3. PassedOver(kind, list, cap, most, taken, next)
  <2>1. L!Fits => L!Drifts
    BY DEF L!Leave
  <2> QED BY <2>1, FitsIs DEF PassedOver
<1>4. CASE kind = "history"
  <2>1. taken = 1 .. next - 1 /\ next - 1 \in 0 .. Len(list) - 1 /\ (next - 1) + 1 = next
    BY <1>2, <1>4 DEF SelectionInv
  <2>2. taken' \in SUBSET (1 .. next' - 1) /\ next' \in 1 .. Len(list') + 1
    BY <1>1, <1>2, <1>4
  <2>3. \E k \in 0 .. Len(list) - 1 :
           taken = 1 .. k /\ ~Adds(list, cap, most, 1 .. k, k + 1)
    <3>1. ~Adds(list, cap, most, 1 .. (next - 1), (next - 1) + 1)
      BY Zenon, <1>3, <1>4, <2>1 DEF PassedOver
    <3> QED BY <2>1, <3>1
  <2>4. \E k \in 0 .. Len(list') - 1 :
           /\ taken' = 1 .. k /\ next' = Len(list') + 1
           /\ ~Adds(list', cap', most', 1 .. k, k + 1)
    BY <1>1, <1>4, <2>3
  <2> QED BY <1>1, <1>2, <1>4, <2>2, <2>4 DEF SelectionInv
<1>5. CASE kind # "history"
  <2>1. next' = next + 1 /\ next' - 1 = next
    BY <1>1, <1>2, <1>5
  <2>2. ASSUME NEW n \in 1 .. next
        PROVE  n \in taken \/ PassedOver(kind, list, cap, most, taken \cap (1 .. n - 1), n)
    <3>1. CASE n = next
      <4>1. taken \cap (1 .. next - 1) = taken
        BY <1>2
      <4> QED BY <1>3, <3>1, <4>1
    <3>2. CASE n # next
      <4>1. n \in 1 .. next - 1
        BY <1>2, <3>2
      <4> QED BY <1>5, <4>1 DEF SelectionInv
    <3> QED BY <3>1, <3>2
  <2>3. taken' \in SUBSET (1 .. next' - 1) /\ next' \in 1 .. Len(list') + 1
    BY <1>1, <1>2, <2>1
  <2>4. \A n \in 1 .. next' - 1 :
           n \in taken'
           \/ PassedOver(kind', list', cap', most', taken' \cap (1 .. n - 1), n)
    BY <1>1, <2>1, <2>2
  <2> QED BY <1>1, <1>2, <1>5, <2>3, <2>4 DEF SelectionInv
<1> QED BY <1>4, <1>5

LEMMA SelectionNext == SelectionInv /\ [L!Next]_selectionVars => SelectionInv'
<1>1. CASE UNCHANGED selectionVars
  BY <1>1 DEF selectionVars, SelectionInv
<1> QED BY <1>1, SelectionTake, SelectionLeave DEF L!Next

\* Where two selections first differ, the loop has taken: had it passed over
\* what the other takes there, that would have been too much for the other too,
\* or the other would use up the hours.
LEMMA SelectedIsBest ==
    ASSUME SelectionInv, next = Len(list) + 1, kind # "history",
           NEW t \in SUBSET (1 .. Len(list)), Within(list, cap, most, t),
           kind = "goals" => Sum(Costs(list, t)) < cap \/ Sum(Costs(list, t)) = 0
    PROVE  L!AtLeastAsGood(taken, t)
<1> DEFINE Diff == (taken \ t) \cup (t \ taken)
<1>1. SUFFICES ASSUME taken # t PROVE L!Min(Diff) \in taken
  BY DEF L!AtLeastAsGood
<1>2. /\ Listing(list) /\ Len(list) \in Nat /\ taken \in SUBSET (1 .. Len(list))
      /\ cap \in Nat /\ most \in Nat /\ next - 1 = Len(list)
  <2>1. Len(list) \in Nat
    BY DEF SelectionInv, Listing
  <2> QED BY <2>1, BoundsAssumption DEF SelectionInv
<1>3. Diff \subseteq Nat /\ Diff # {} /\ Diff \subseteq 1 .. Len(list)
  BY <1>1, <1>2
<1>4. L!Min(Diff) = CHOOSE x \in Diff : \A y \in Diff : x <= y
  BY Zenon DEF L!Min
<1>5. PICK m \in Diff : \A y \in Diff : m <= y
  <2> HIDE DEF Diff
  <2> QED BY <1>3, Least
<1>6. L!Min(Diff) \in Diff /\ \A y \in Diff : L!Min(Diff) <= y
  <2> HIDE DEF Diff
  <2> QED BY <1>4, <1>5
<1> DEFINE p == L!Min(Diff)
<1>7. ASSUME p \notin taken PROVE FALSE
  <2>1. p \in t /\ p \in 1 .. Len(list) /\ p \in 1 .. next - 1 /\ p \in Nat
    <3>1. p \in Diff
      BY <1>6
    <3> HIDE DEF p
    <3> QED BY <1>2, <1>3, <1>7, <3>1
  <2> DEFINE s == taken \cap (1 .. p - 1)
  <2>2. PassedOver(kind, list, cap, most, s, p)
    BY <1>7, <2>1 DEF SelectionInv
  <2>3. s \subseteq t
    <3>1. ASSUME NEW x \in s PROVE x \in t
      <4>1. x \in taken /\ x \in Nat /\ x < p
        <5> HIDE DEF p
        <5> QED BY <1>2, <2>1
      <4>2. x \notin Diff
        <5>1. x \in Diff => p <= x
          BY <1>6
        <5> HIDE DEF p, Diff
        <5> QED BY <2>1, <4>1, <5>1
      <4> QED BY <4>1, <4>2
    <3> QED BY <3>1
  <2>4. s \in SUBSET (1 .. p - 1) /\ s \cup {p} \subseteq t
    BY <2>1, <2>3
  <2> HIDE DEF s, p
  <2>5. Adds(list, cap, most, s, p)
    BY <1>2, <2>1, <2>4, AddsIs
  <2>6. kind = "goals" /\ Evens(list, cap, s, p)
    BY <2>2, <2>5 DEF PassedOver
  <2>7. Sum(Costs(list, s \cup {p})) = cap /\ cap > 0
    <3>1. p \notin s /\ list[p].cost \in Nat
      BY <1>2, <2>1, <2>4 DEF Listing
    <3>2. Sum(Costs(list, s \cup {p})) = Sum(Costs(list, s)) + list[p].cost
      BY <1>2, <2>1, <3>1, CostsAdd
    <3>3. Sum(Costs(list, s)) \in Nat
      <4>1. s \in SUBSET t
        BY <2>4
      <4> QED BY <1>2, <4>1, CostsGrow
    <3> QED BY <2>6, <3>1, <3>2, <3>3 DEF Evens
  <2>8. Sum(Costs(list, s \cup {p})) <= Sum(Costs(list, t)) /\ Sum(Costs(list, t)) \in Nat
    <3>1. s \cup {p} \in SUBSET t /\ t \in SUBSET t
      BY <2>4
    <3> QED BY <1>2, <3>1, CostsGrow
  <2> QED BY <1>2, <2>6, <2>7, <2>8
<1> QED BY <1>7

\* The history taken is all of it, or what would come next did not fit.
LEMMA HistoryIsLongest ==
    ASSUME SelectionInv, next = Len(list) + 1, kind = "history"
    PROVE  \E k \in 0 .. Len(list) :
              /\ taken = 1 .. k /\ Within(list, cap, most, 1 .. k)
              /\ \A j \in k + 1 .. Len(list) : ~Within(list, cap, most, 1 .. j)
<1>1. /\ Listing(list) /\ Len(list) \in Nat /\ cap \in Nat /\ most \in Nat
      /\ Within(list, cap, most, taken) /\ next - 1 = Len(list)
  <2>1. Len(list) \in Nat
    BY DEF SelectionInv, Listing
  <2> QED BY <2>1, BoundsAssumption DEF SelectionInv
<1>2. CASE taken = 1 .. next - 1
  <2>1. taken = 1 .. Len(list)
    BY <1>1, <1>2
  <2>2. Len(list) \in 0 .. Len(list) /\ Len(list) + 1 .. Len(list) = {}
    BY <1>1
  <2> QED BY <1>1, <2>1, <2>2
<1>3. CASE \E k \in 0 .. Len(list) - 1 :
              /\ taken = 1 .. k /\ next = Len(list) + 1
              /\ ~Adds(list, cap, most, 1 .. k, k + 1)
  <2>1. PICK k \in 0 .. Len(list) - 1 :
              taken = 1 .. k /\ ~Adds(list, cap, most, 1 .. k, k + 1)
    BY <1>3
  <2>2. k \in 0 .. Len(list) /\ k + 1 \in 1 .. Len(list) /\ (k + 1) - 1 = k
    BY <1>1
  <2>3. ASSUME NEW j \in k + 1 .. Len(list), Within(list, cap, most, 1 .. j) PROVE FALSE
    <3>1. 1 .. j \in SUBSET (1 .. Len(list)) /\ (1 .. k) \cup {k + 1} \subseteq 1 .. j
      BY <1>1, <2>2
    <3>2. 1 .. k \in SUBSET (1 .. (k + 1) - 1)
      BY <2>2
    <3> DEFINE s == 1 .. k
               t == 1 .. j
               p == k + 1
    <3>3. /\ s \in SUBSET (1 .. p - 1) /\ p \in 1 .. Len(list) /\ t \in SUBSET (1 .. Len(list))
          /\ s \cup {p} \subseteq t /\ Within(list, cap, most, t) /\ ~Adds(list, cap, most, s, p)
      BY <2>1, <2>2, <2>3, <3>1, <3>2
    <3> HIDE DEF s, t, p
    <3> QED BY <1>1, <3>3, AddsIs
  <2> QED BY <1>1, <2>1, <2>2, <2>3
<1> QED BY <1>2, <1>3 DEF SelectionInv

LEMMA SelectionDone == SelectionInv => SelectsTheBest
<1> SUFFICES ASSUME SelectionInv PROVE SelectsTheBest
  OBVIOUS
<1>1. L!TypeOK
  <2>1. Len(list) \in Nat /\ next \in 1 .. Len(list) + 1 /\ taken \in SUBSET (1 .. next - 1)
    BY DEF SelectionInv, Listing
  <2>2. taken \subseteq 1 .. Len(list)
    BY <2>1
  <2> QED BY <2>1, <2>2 DEF SelectionInv, L!TypeOK
<1>2. ASSUME next = Len(list) + 1, kind = "history"
      PROVE  \E k \in 0 .. Len(list) :
                /\ taken = 1 .. k /\ L!Admissible(1 .. k)
                /\ \A j \in k + 1 .. Len(list) : ~L!Admissible(1 .. j)
  <2>1. PICK k \in 0 .. Len(list) :
              /\ taken = 1 .. k /\ Within(list, cap, most, 1 .. k)
              /\ \A j \in k + 1 .. Len(list) : ~Within(list, cap, most, 1 .. j)
    BY <1>2, HistoryIsLongest
  <2>2. \A s : L!Admissible(s) <=> Within(list, cap, most, s)
    BY FitsIs
  <2> QED BY <2>1, <2>2
<1>3. ASSUME next = Len(list) + 1, kind # "history"
      PROVE  /\ L!Admissible(taken)
             /\ \A t \in SUBSET (1 .. Len(list)) :
                   L!Admissible(t) /\ L!Unmistaken(t) => L!AtLeastAsGood(taken, t)
  <2>1. \A s : L!Admissible(s) <=> Within(list, cap, most, s)
    BY FitsIs
  <2>2. L!Admissible(taken)
    BY <2>1 DEF SelectionInv
  <2>3. ASSUME NEW t \in SUBSET (1 .. Len(list)), L!Admissible(t), L!Unmistaken(t)
        PROVE  L!AtLeastAsGood(taken, t)
    <3>1. Within(list, cap, most, t)
          /\ (kind = "goals" => Sum(Costs(list, t)) < cap \/ Sum(Costs(list, t)) = 0)
      BY <2>1, <2>3, FitsIs
    <3> QED BY <1>3, <3>1, SelectedIsBest
  <2> QED BY <2>2, <2>3
<1>4. L!SelectsTheBest
  BY Zenon, <1>2, <1>3 DEF L!SelectsTheBest
<1> QED BY <1>1, <1>4 DEF SelectsTheBest

-----------------------------------------------------------------------------
(* The components together.                                                *)

\* A step is one of a component's own or leaves it alone.
LEMMA StepOfEach ==
    ASSUME [Next]_vars
    PROVE  /\ [R!Next]_rootVars /\ [D!Next]_delegationVars /\ [F!Next]_forecastVars
           /\ [G!Next]_setupVars /\ [M!Next]_migrationVars /\ [I!Next]_changeVars
           /\ [C!Next]_connectorVars /\ [P!Next]_personaVars
           /\ [T!Next]_trialVars /\ [W!Next]_watchVars /\ [S!Next]_storeVars
           /\ [L!Next]_selectionVars
<1>1. CASE Next
  BY <1>1 DEF Next, Only
<1>2. CASE UNCHANGED vars
  BY <1>2 DEF vars
<1> QED BY <1>1, <1>2

LEMMA InitOfEach ==
    ASSUME Init
    PROVE  /\ RootsInv /\ DelegationInv /\ ForecastsInv /\ SetupInv /\ MigrationInv /\ ChangeInv
           /\ ConnectorInv /\ PersonaInv /\ TrialInv /\ WatchInv /\ StoreInv /\ SelectionInv
<1>1. /\ R!Init /\ F!Init /\ G!Init /\ M!Init /\ I!Init
      /\ C!Init /\ P!Init /\ T!Init /\ W!Init /\ S!Init
  BY Zenon DEF Init
<1>2. NoTerms \in D!Terms
  <2>1. [k \in D!Kinds |-> 0] \in D!Limits
    BY BoundsAssumption DEF D!Limits, D!Kinds
  <2>2. 0 \in 0 .. MaxCost
    BY BoundsAssumption
  <2> QED BY <2>1, <2>2 DEF NoTerms, D!Terms
<1>3. D!Init
  <2>1. CASE subject = "delegation"
    BY Zenon, <2>1 DEF Init
  <2>2. CASE subject # "delegation"
    <3>1. /\ request = NoTerms /\ policy = NoTerms /\ stage = "asked"
          /\ used = [count |-> [k \in D!Kinds |-> 0], cost |-> 0]
          /\ result = Nothing /\ verified = {} /\ status = "completed" /\ receipt = Nothing
      BY Zenon, <2>2 DEF Init
    <3> QED BY <1>2, <3>1 DEF D!Init
  <2> QED BY <2>1, <2>2
<1>4. SelectionInv
  <2>1. CASE subject = "selections"
    <3>1. L!Init
      BY Zenon, <2>1 DEF Init
    <3> QED BY <3>1, SelectionInit
  <2>2. CASE subject # "selections"
    <3>1. kind = "goals" /\ list = <<>> /\ cap = 0 /\ most = 0 /\ next = 1 /\ taken = {}
      BY Zenon, <2>2 DEF Init
    <3> QED BY <3>1, SelectionAlone
  <2> QED BY <2>1, <2>2
<1> QED BY <1>1, <1>3, RootsInit, DelegationInit, ForecastsInit, SetupInit, MigrationInit, ChangeInit,
     ConnectorInit, PersonaInit, TrialInit, WatchInit, StoreInit, <1>4

\* Whatever starts, dies and finds another's half-done migration, every record
\* is in the database once or still in a file, a deleted one is in neither, and
\* who works finds a current schema, for any stores, starts and records
\* (store_migration.py and the stores' _migrate_legacy).
THEOREM MigrationKeepsEveryRecordCorrect == Spec => []MigrationKeepsEveryRecord
<1>1. Init => StoreInv
  BY InitOfEach
<1>2. StoreInv /\ [Next]_vars => StoreInv'
  BY StepOfEach, StoreNext
<1>3. StoreInv => MigrationKeepsEveryRecord
  BY StoreKeeps
<1> QED BY <1>1, <1>2, <1>3, PTL DEF Spec

\* Setup and restore install every root or none, unless what was moved could
\* not be taken back, and even then, or killed, they leave no server root that
\* no record names, for any servers (_commit_staged_setup, restore).
THEOREM RootsAreWholeCorrect == Spec => []RootsAreWhole
<1>1. Init => RootsInv
  BY InitOfEach
<1>2. RootsInv /\ [Next]_vars => RootsInv'
  BY StepOfEach, RootsNext
<1>3. RootsInv => RootsAreWhole
  BY DEF RootsInv, RootsAreWhole
<1> QED BY <1>1, <1>2, <1>3, PTL DEF Spec

\* All the calls of a delegated worker together spend within the policy, but for
\* what one charge exceeds its quote, and what is accepted was verified whole,
\* for any evidence, limits and costs (delegate).
THEOREM DelegationIsBoundedCorrect == Spec => []DelegationIsBounded
<1>1. Init => DelegationInv
  BY InitOfEach
<1>2. DelegationInv /\ [Next]_vars => DelegationInv'
  BY StepOfEach, DelegationNext
<1>3. DelegationInv => DelegationIsBounded
  BY DEF DelegationInv, DelegationIsBounded
<1> QED BY <1>1, <1>2, <1>3, PTL DEF Spec

\* Every forecast that planning uses, and every one it supersedes, was agreed to
\* and is kept as it was agreed, unless a proposal was saved over it since, for
\* any identifiers, used again or not, and any contents (propose_revision,
\* accept_revision).
THEOREM ActiveLineWasAgreedCorrect == Spec => []ActiveLineWasAgreed
<1>1. Init => ForecastsInv
  BY InitOfEach
<1>2. ForecastsInv /\ [Next]_vars => ForecastsInv'
  BY StepOfEach, ForecastsNext
<1>3. ForecastsInv => ActiveLineWasAgreed
  BY LineSettled DEF ForecastsInv, ActiveLineWasAgreed
<1> QED BY <1>1, <1>2, <1>3, PTL DEF Spec

\* Through backing out, saving, resuming, dying and rolling back file by file,
\* setup talks to what was chosen, and its activation is all or nothing unless a
\* restore of the rollback failed or was cut off, for any providers and personas
\* (_save_draft, _selected_persona, _activate).
THEOREM SetupActivatesCorrect == Spec => []SetupActivatesWhatWasAccepted
<1>1. Init => SetupInv
  BY InitOfEach
<1>2. SetupInv /\ [Next]_vars => SetupInv'
  BY StepOfEach, SetupNext
<1>3. SetupInv => SetupActivatesWhatWasAccepted
  BY DEF SetupInv, SetupActivatesWhatWasAccepted
<1> QED BY <1>1, <1>2, <1>3, PTL DEF Spec

\* A migration of a legacy installation that is interrupted, or whose rollback
\* is, leaves a legacy or a migrated one, unless that rollback began after the
\* record was replaced; and no edit made before the backup is lost, whatever
\* restores fail; for any files and number of edits (commit_migration_plan).
THEOREM MigrationIsWholeCorrect == Spec => MigrationIsWhole
<1>1. Init => MigrationInv
  BY InitOfEach
<1>2. MigrationInv /\ [Next]_vars => MigrationInv'
  BY StepOfEach, MigrationNext
<1>3. MigrationInv => M!TypeOK /\ M!RecordComesLast
  BY DEF MigrationInv
<1>4. MigrationInv /\ [Next]_vars => [EditIsKept]_(M!migration)
  BY StepOfEach, MigrationKeeps
<1>5. [][EditIsKept]_(M!migration) => M!EditsAreKept
  BY DEF M!EditsAreKept, EditIsKept
<1> QED BY <1>1, <1>2, <1>3, <1>4, <1>5, PTL DEF Spec, MigrationIsWhole

\* A change of provider cut off or failed anywhere, its rollback and each restore
\* of it included, leaves the active one its grant, unless the record could not
\* be put back; and repairs give back no scope that was withdrawn; for any
\* providers (_commit_installed_provider, ensure_initial_processing_grant).
THEOREM ChangeKeepsGrantsCorrect == Spec => ChangeKeepsGrants
<1>1. Init => ChangeInv
  BY InitOfEach
<1>2. ChangeInv /\ [Next]_vars => ChangeInv'
  BY StepOfEach, ChangeNext
<1>3. ChangeInv => I!TypeOK /\ I!ActiveHasGrant
  BY DEF ChangeInv
<1>4. ChangeInv /\ [Next]_vars => [ScopeStays]_(I!managed)
  BY StepOfEach, ChangeKeeps
<1>5. [][ScopeStays]_(I!managed) => I!WithdrawalStays
  BY DEF I!WithdrawalStays, ScopeStays
<1> QED BY <1>1, <1>2, <1>3, <1>4, <1>5, PTL DEF Spec, ChangeKeepsGrants

\* Every document stands as far as it did.
DocumentsStand == \A d \in Documents : Standing(d, stored, stored')

\* A removed document stays removed whatever older copies other processes hold,
\* for any services, documents and texts (remove_imported_data, synchronize).
THEOREM RemovalStandsCorrect == Spec => RemovalStands
<1>1. Init => ConnectorInv
  BY InitOfEach
<1>2. ConnectorInv /\ [Next]_vars => ConnectorInv'
  BY StepOfEach, ConnectorNext
<1>3. ConnectorInv => C!TypeOK
  BY DEF ConnectorInv
<1>4. ConnectorInv /\ [Next]_vars => [DocumentsStand]_(C!connector)
  BY StepOfEach, ConnectorNext DEF DocumentsStand
<1>5. [][DocumentsStand]_(C!connector) => C!RemovalStands
  BY DEF C!RemovalStands, DocumentsStand, Standing
<1> QED BY <1>1, <1>2, <1>3, <1>4, <1>5, PTL DEF Spec, RemovalStands

\* The persona file undoes nothing of what it was.
FileKeeps ==
    /\ Len(file'.versions) >= Len(file.versions)
    /\ \A n \in DOMAIN file.versions : file'.versions[n] = file.versions[n]
    /\ file'.revision >= file.revision
    /\ file'.revision = file.revision => file'.active = file.active /\ file'.private = file.private

\* No persona command undoes what another did meanwhile, for any callers,
\* personas and versions (_refresh_from_disk).
THEOREM NothingIsUndoneCorrect == Spec => NothingIsUndone
<1>1. Init => PersonaInv
  BY InitOfEach
<1>2. PersonaInv /\ [Next]_vars => PersonaInv'
  BY StepOfEach, PersonaNext
<1>3. PersonaInv => P!TypeOK
  BY DEF PersonaInv
<1>4. PersonaInv /\ [Next]_vars => [FileKeeps]_(P!personas)
  BY StepOfEach, PersonaNext DEF FileKeeps, Undoes
<1>5. [][FileKeeps]_(P!personas) => P!NothingIsUndone
  BY DEF P!NothingIsUndone, FileKeeps
<1> QED BY <1>1, <1>2, <1>3, <1>4, <1>5, PTL DEF Spec, NothingIsUndone

\* The trial only grows, and acceptances are earned.
TrialGrows == trial # Nothing => Grows(trial, trial')

\* Evidence counts for the revision its author saw, nothing recorded is lost,
\* and an acceptance rests on the evidence that earns it, for any callers,
\* metrics and revisions (record, decide, reassess_revision, save).
THEOREM AcceptanceIsEarnedCorrect == Spec => AcceptanceIsEarned
<1>1. Init => TrialInv
  BY InitOfEach
<1>2. TrialInv /\ [Next]_vars => TrialInv'
  BY StepOfEach, TrialNext
<1>3. TrialInv => T!TypeOK /\ T!EvidenceIsOfItsRevision
  BY DEF TrialInv, OfItsRevision, T!EvidenceIsOfItsRevision
<1>4. TrialInv /\ [Next]_vars => [TrialGrows]_(T!trials)
  BY StepOfEach, TrialNext DEF TrialGrows
<1>5. [][TrialGrows]_(T!trials) => T!AcceptanceIsEarned
  BY DEF T!AcceptanceIsEarned, TrialGrows, Grows
<1> QED BY <1>1, <1>2, <1>3, <1>4, <1>5, PTL DEF Spec, AcceptanceIsEarned

\* A run of a watch spends and looks no further than terms that were confirmed
\* together, for any sources, budgets and quotes (propose, confirm, run).
THEOREM RunsWithinAgreementCorrect == Spec => []RunsWithinAgreement
<1>1. Init => WatchInv
  BY InitOfEach
<1>2. WatchInv /\ [Next]_vars => WatchInv'
  BY StepOfEach, WatchNext
<1>3. WatchInv => RunsWithinAgreement
  BY DEF WatchInv, Agreeing, RunsWithinAgreement, W!RunsWithinAgreement
<1> QED BY <1>1, <1>2, <1>3, PTL DEF Spec

\* What a briefing delivers is the best selection by rank, the goals that fit
\* are within the hours and as good as any selection that leaves hours over, and
\* the history sent is the longest run of recent turns that fits, for any items,
\* costs and caps (deliver, calculate_feasible_set, select_history_for_budget).
THEOREM SelectsTheBestCorrect == Spec => []SelectsTheBest
<1>1. Init => SelectionInv
  BY InitOfEach
<1>2. SelectionInv /\ [Next]_vars => SelectionInv'
  BY StepOfEach, SelectionNext
<1>3. SelectionInv => SelectsTheBest
  BY SelectionDone
<1> QED BY <1>1, <1>2, <1>3, PTL DEF Spec

==============================================================================
