--------------------------- MODULE PackagingProofs ---------------------------
(***************************************************************************)
(* For any number of creators, orders and pipeline runs beside them: a     *)
(* package is whole unless two creators shared a staging name for its      *)
(* destination, and a staging directory is never left behind but by a kill.*)
(* The argument is that of a lock which is not one: a creator looks        *)
(* whether its staging name is free before it takes it, so two can be in   *)
(* between; as long as that has not happened to a name, its directory      *)
(* changes only by the hand of the one creator that is at it.              *)
(***************************************************************************)
EXTENDS Packaging, PipelineProofs

-----------------------------------------------------------------------------
(* The inductive invariant                                                 *)

Steps == {"idle", "checking", "hashing", "creating", "copying", "installing",
          "cleaning", "failed", "installed"}

PackShape ==
  /\ step \in [Creator -> Steps]
  /\ order = [c \in Creator |-> order[c]]
  /\ digest = [c \in Creator |-> digest[c]]
  /\ copied \in [Creator -> Nat]
  /\ staged = [n \in DOMAIN staged |-> staged[n]]
  /\ \A n \in DOMAIN staged : staged[n] = [lists |-> staged[n].lists, files |-> staged[n].files]
  /\ packages = [d \in Destination |-> packages[d]]
  /\ orphaned \subseteq DOMAIN staged
  /\ trespassed \subseteq Destination

(* How far a creator has come.                                             *)
CreatorInv(c) ==
  /\ step[c] # "idle" => order[c] \in Order
  /\ digest[c] = [f \in File |-> digest[c][f]]
  /\ step[c] = "creating" => copied[c] = 0
  /\ step[c] = "copying" => copied[c] <= Len(order[c].roles)

(* The files of a deployment that has come so far.                         *)
Copies(c) == [f \in {order[c].roles[i] : i \in 1..copied[c]} |-> digest[c][f]]

(* Two creators under one staging name have been noticed.                  *)
AloneInv(c, d) ==
  Inside(c) /\ Inside(d) /\ Name(c) = Name(d) => order[c].at \in trespassed

(* What a creator that is alone under its name knows of its directory.     *)
StagingInv(c) == Inside(c) /\ order[c].at \notin trespassed =>
  /\ step[c] = "creating" => Name(c) \notin DOMAIN staged
  /\ step[c] = "copying" /\ order[c].kind = "deployment" /\ Name(c) \in DOMAIN staged =>
       staged[Name(c)].files = Copies(c)
  /\ step[c] = "installing" /\ Name(c) \in DOMAIN staged =>
       /\ staged[Name(c)].files = staged[Name(c)].lists
       /\ staged[Name(c)].files # <<>>

PackInv ==
  /\ PackShape
  /\ \A c \in Creator : CreatorInv(c) /\ StagingInv(c)
  /\ \A c, d \in Creator : c # d => AloneInv(c, d)
  /\ NoLeftovers
  /\ PublishedIsWhole

DeliveryInv == RunsInv /\ PackInv

-----------------------------------------------------------------------------
(* Names                                                                   *)

(* What a creator is asked for is a file of each role, at least one.       *)
LEMMA OrderFacts ==
  ASSUME NEW o \in Order
  PROVE  /\ o.roles \in Seq(File) /\ Range(o.roles) \subseteq File /\ Range(o.roles) # {}
         /\ DOMAIN o.roles = 1..Len(o.roles) /\ Len(o.roles) \in Nat
         /\ o.kind \in {"deployment", "dossier", "target"} /\ o.at \in Destination
<1>1. /\ o.roles \in Seq(File) /\ o.roles # <<>>
      /\ o.kind \in {"deployment", "dossier", "target"} /\ o.at \in Destination
  BY PackagingAssumption DEF Kind, Destination
<1>2. DOMAIN o.roles = 1..Len(o.roles) /\ Len(o.roles) \in Nat
      /\ (\A i \in 1..Len(o.roles) : o.roles[i] \in File) /\ Len(o.roles) # 0
  BY <1>1
<1>3. 1 \in DOMAIN o.roles
  BY <1>2
<1> QED
  BY <1>1, <1>2, <1>3 DEF Range

(* A creator's staging name follows from what it makes.                    *)
LEMMA NameKept ==
  ASSUME NEW c \in Creator, order'[c] = order[c],
         \A f \in Pinned(c) : digest'[c][f] = digest[c][f]
  PROVE  Name(c)' = Name(c)
BY DEF Name, Pinned, Sources

(* Creators of one staging name have one destination.                      *)
LEMMA NameSaysWhere ==
  ASSUME NEW c \in Creator, NEW d \in Creator, Name(c) = Name(d)
  PROVE  order[c].at = order[d].at
BY DEF Name

-----------------------------------------------------------------------------
(* The staging directories                                                 *)

IsStaged(s) ==
  /\ s = [n \in DOMAIN s |-> s[n]]
  /\ \A n \in DOMAIN s : s[n] = [lists |-> s[n].lists, files |-> s[n].files]

(* One is made or taken over.                                              *)
LEMMA Made ==
  ASSUME NEW s, IsStaged(s), NEW n, NEW e, e = [lists |-> e.lists, files |-> e.files],
         NEW t, t = [m \in DOMAIN s \cup {n} |-> IF m = n THEN e ELSE s[m]]
  PROVE  /\ IsStaged(t) /\ DOMAIN t = DOMAIN s \cup {n} /\ t[n] = e
         /\ \A m \in DOMAIN s \ {n} : t[m] = s[m]
BY DEF IsStaged

(* One gets other files or another manifest.                               *)
LEMMA Changed ==
  ASSUME NEW s, IsStaged(s), NEW n \in DOMAIN s, NEW e,
         e = [lists |-> e.lists, files |-> e.files], NEW t, t = [s EXCEPT ![n] = e]
  PROVE  /\ IsStaged(t) /\ DOMAIN t = DOMAIN s /\ t[n] = e
         /\ \A m \in DOMAIN s \ {n} : t[m] = s[m]
BY DEF IsStaged

(* One goes.                                                               *)
LEMMA Removed ==
  ASSUME IsStaged(staged), NEW n
  PROVE  /\ IsStaged(Without(n)) /\ DOMAIN Without(n) = DOMAIN staged \ {n}
         /\ \A m \in DOMAIN staged \ {n} : Without(n)[m] = staged[m]
BY DEF IsStaged, Without, Restrict

(* What the steps of a creator do to them.                                 *)
LEMMA CreateStages ==
  ASSUME IsStaged(staged), NEW c \in Creator, CreateStaging(c)
  PROVE  /\ IsStaged(staged)' /\ DOMAIN staged' = DOMAIN staged \cup {Name(c)}
         /\ \A m \in DOMAIN staged \ {Name(c)} : staged'[m] = staged[m]
         /\ Name(c) \notin DOMAIN staged => staged'[Name(c)].files = <<>>
<1> DEFINE n == Name(c)
           files == IF n \in DOMAIN staged THEN staged[n].files ELSE <<>>
           e == [lists |-> n.pinned, files |-> files]
<1>1. staged' = [m \in DOMAIN staged \cup {n} |-> IF m = n THEN e ELSE staged[m]]
  BY DEF CreateStaging
<1>2. e = [lists |-> e.lists, files |-> e.files]
  OBVIOUS
<1>3. /\ IsStaged(staged') /\ DOMAIN staged' = DOMAIN staged \cup {n} /\ staged'[n] = e
      /\ \A m \in DOMAIN staged \ {n} : staged'[m] = staged[m]
  <2> HIDE DEF e, n
  <2> QED
    BY <1>1, <1>2, Made
<1> QED
  BY <1>3 DEF IsStaged

(* A copy adds one file, with the bytes it has now, to the directory.      *)
LEMMA CopyStages ==
  ASSUME IsStaged(staged), NEW c \in Creator, Copy(c)
  PROVE  /\ IsStaged(staged)' /\ DOMAIN staged' = DOMAIN staged /\ Name(c) \in DOMAIN staged
         /\ \A m \in DOMAIN staged \ {Name(c)} : staged'[m] = staged[m]
         /\ staged'[Name(c)].files = 
               [f \in DOMAIN staged[Name(c)].files \cup {NextSource(c)} |->
                  IF f = NextSource(c) THEN disk[f] ELSE staged[Name(c)].files[f]]
<1> DEFINE n == Name(c)
           files == [f \in DOMAIN staged[n].files \cup {NextSource(c)} |->
                      IF f = NextSource(c) THEN disk[f] ELSE staged[n].files[f]]
           e == [staged[n] EXCEPT !.files = files]
<1>1. n \in DOMAIN staged /\ staged' = [staged EXCEPT ![n] = e]
  BY DEF Copy
<1>2. staged[n] = [lists |-> staged[n].lists, files |-> staged[n].files]
  BY <1>1 DEF IsStaged
<1>3. e = [lists |-> staged[n].lists, files |-> files]
  <2> HIDE DEF files, n
  <2> QED
    BY <1>2
<1>4. e = [lists |-> e.lists, files |-> e.files] /\ e.files = files
  <2> HIDE DEF files, n, e
  <2> QED
    BY <1>3
<1>5. /\ IsStaged(staged') /\ DOMAIN staged' = DOMAIN staged /\ staged'[n] = e
      /\ \A m \in DOMAIN staged \ {n} : staged'[m] = staged[m]
  <2> HIDE DEF e, n
  <2> QED
    BY <1>1, <1>4, Changed
<1> QED
  BY <1>1, <1>4, <1>5 DEF IsStaged

(* Sealing writes the list of the digests that were taken.                 *)
LEMMA SealStages ==
  ASSUME IsStaged(staged), NEW c \in Creator, Seal(c)
  PROVE  /\ IsStaged(staged)' /\ DOMAIN staged' = DOMAIN staged /\ Name(c) \in DOMAIN staged
         /\ \A m \in DOMAIN staged \ {Name(c)} : staged'[m] = staged[m]
         /\ staged'[Name(c)].files = staged[Name(c)].files
         /\ staged'[Name(c)].lists = Restrict(digest[c], Sources(c))
<1> DEFINE n == Name(c)
           lists == Restrict(digest[c], Sources(c))
           e == [staged[n] EXCEPT !.lists = lists]
<1>1. n \in DOMAIN staged /\ staged' = [staged EXCEPT ![n] = e]
  BY DEF Seal
<1>2. staged[n] = [lists |-> staged[n].lists, files |-> staged[n].files]
  BY <1>1 DEF IsStaged
<1>3. e = [lists |-> lists, files |-> staged[n].files]
  <2> HIDE DEF lists, n
  <2> QED
    BY <1>2
<1>4. e = [lists |-> e.lists, files |-> e.files] /\ e.files = staged[n].files /\ e.lists = lists
  <2> HIDE DEF lists, n, e
  <2> QED
    BY <1>3
<1>5. /\ IsStaged(staged') /\ DOMAIN staged' = DOMAIN staged /\ staged'[n] = e
      /\ \A m \in DOMAIN staged \ {n} : staged'[m] = staged[m]
  <2> HIDE DEF e, n
  <2> QED
    BY <1>1, <1>4, Changed
<1> QED
  BY <1>1, <1>4, <1>5 DEF IsStaged

(* A creator touches no directory but the one of its name.                 *)
LEMMA OnlyItsOwn ==
  ASSUME IsStaged(staged), NEW c \in Creator, Ask(c) \/ CreatorStep(c)
  PROVE  /\ IsStaged(staged)'
         /\ \/ staged' = staged
            \/ /\ Inside(c)
               /\ \A m : m # Name(c) => /\ m \in DOMAIN staged' <=> m \in DOMAIN staged
                                        /\ m \in DOMAIN staged => staged'[m] = staged[m]
<1>1. CASE CreateStaging(c)
  BY <1>1, CreateStages DEF CreateStaging, Inside
<1>2. CASE Copy(c)
  <2>1. /\ IsStaged(staged)' /\ DOMAIN staged' = DOMAIN staged /\ Name(c) \in DOMAIN staged
        /\ \A m \in DOMAIN staged \ {Name(c)} : staged'[m] = staged[m]
    BY <1>2, CopyStages
  <2>2. Inside(c)
    BY <1>2 DEF Copy, MoreToCopy, Inside
  <2> QED
    BY <2>1, <2>2
<1>3. CASE Seal(c)
  BY <1>3, SealStages DEF Seal, Inside
<1>4. CASE Install(c) \/ CleanUp(c)
  <2>1. staged' = Without(Name(c)) /\ Inside(c)
    BY <1>4 DEF Install, CleanUp, Inside
  <2> QED
    BY <2>1, Removed DEF IsStaged
<1>5. CASE UNCHANGED staged
  BY <1>5 DEF IsStaged
<1> QED
  BY <1>1, <1>2, <1>3, <1>4, <1>5 DEF CreatorStep, Ask, FindDestinationFree, Prepare, TakeDigest,
     Compare, Fail, Kill, Retry

-----------------------------------------------------------------------------
(* A step of one creator                                                   *)

(* It leaves the other creators alone and forgets no trespass.             *)
CreatorMoved(c) ==
  /\ step' \in [Creator -> Steps]
  /\ order' = [d \in Creator |-> order'[d]]
  /\ digest' = [d \in Creator |-> digest'[d]]
  /\ copied' \in [Creator -> Nat]
  /\ packages' = [d \in Destination |-> packages'[d]]
  /\ trespassed \subseteq trespassed' /\ trespassed' \subseteq Destination
  /\ \A d \in Creator \ {c} :
       /\ step'[d] = step[d] /\ order'[d] = order[d]
       /\ digest'[d] = digest[d] /\ copied'[d] = copied[d]

(* A creator's step moves nothing of another creator's.                    *)
LEMMA CreatorMoves ==
  ASSUME PackShape, NEW c \in Creator, CreatorInv(c), Ask(c) \/ CreatorStep(c)
  PROVE  CreatorMoved(c)
<1> USE DEF PackShape, CreatorMoved, At, Steps, local
<1>1. CASE Ask(c)
  BY <1>1 DEF Ask
<1>2. CASE Prepare(c)
  <2>1. order[c].at \in Destination
    BY <1>2, OrderFacts DEF Prepare, CreatorInv
  <2> QED
    BY <1>2, <2>1 DEF Prepare
<1>3. CASE FindDestinationFree(c)
  BY <1>3 DEF FindDestinationFree
<1>4. CASE CreateStaging(c)
  BY <1>4 DEF CreateStaging
<1>5. CASE TakeDigest(c)
  BY <1>5 DEF TakeDigest
<1>6. CASE Copy(c)
  <2>1. UNCHANGED <<step, order, packages, trespassed>>
    BY <1>6 DEF Copy
  <2>2. copied' = copied \/ copied' = [copied EXCEPT ![c] = @ + 1]
    BY <1>6 DEF Copy
  <2>3. digest' = digest
          \/ digest' = [digest EXCEPT ![c] = [digest[c] EXCEPT ![NextSource(c)] = disk[NextSource(c)]]]
    BY <1>6 DEF Copy
  <2> QED
    BY <2>1, <2>2, <2>3
<1>7. CASE Compare(c)
  BY <1>7 DEF Compare
<1>8. CASE Seal(c)
  BY <1>8 DEF Seal
<1>9. CASE Install(c)
  BY <1>9 DEF Install
<1>10. CASE Fail(c) \/ CleanUp(c) \/ Kill(c) \/ Retry(c)
  BY <1>10 DEF Fail, CleanUp, Kill, Retry, OnFailure
<1> QED
  BY <1>1, <1>2, <1>3, <1>4, <1>5, <1>6, <1>7, <1>8, <1>9, <1>10 DEF CreatorStep

(* Past its checks a creator keeps its name: digests are taken then only   *)
(* of what the name does not pin.                                          *)
LEMMA KeepsItsName ==
  ASSUME PackShape, NEW c \in Creator, CreatorInv(c), Ask(c) \/ CreatorStep(c), Inside(c)
  PROVE  order'[c] = order[c] /\ Name(c)' = Name(c)
<1>1. order'[c] = order[c] /\ \A f \in Pinned(c) : digest'[c][f] = digest[c][f]
  <2>1. CASE TakeDigest(c)
    <3>1. Pinned(c) = {} /\ order' = order
      BY <2>1 DEF TakeDigest, Pinned
    <3> QED
      BY <3>1
  <2>2. CASE Copy(c)
    <3>1. order' = order /\ (Pinned(c) = {} \/ digest' = digest)
      BY <2>2 DEF Copy, Pinned
    <3> QED
      BY <3>1
  <2>3. CASE ~ TakeDigest(c) /\ ~ Copy(c)
    <3>1. order' = order /\ digest' = digest
      BY <2>3 DEF CreatorStep, Ask, FindDestinationFree, Prepare, CreateStaging, Compare, Seal,
         Install, Fail, CleanUp, Kill, Retry, Inside, local
    <3> QED
      BY <3>1
  <2> QED
    BY <2>1, <2>2, <2>3
<1> QED
  BY <1>1, NameKept

(* The others keep theirs, too.                                            *)
LEMMA OthersKeepTheirNames ==
  ASSUME NEW c \in Creator, CreatorMoved(c), NEW d \in Creator \ {c}
  PROVE  /\ Name(d)' = Name(d) /\ (Inside(d)' <=> Inside(d)) /\ Copies(d)' = Copies(d)
         /\ step'[d] = step[d] /\ order'[d] = order[d] /\ digest'[d] = digest[d]
         /\ copied'[d] = copied[d]
<1>1. /\ step'[d] = step[d] /\ order'[d] = order[d]
      /\ digest'[d] = digest[d] /\ copied'[d] = copied[d]
  BY DEF CreatorMoved
<1>2. Name(d)' = Name(d)
  BY <1>1, NameKept
<1> QED
  BY <1>1, <1>2 DEF Inside, Copies

(* What a creator knows stays true when another one, not of its name,      *)
(* takes a step.                                                           *)
LEMMA OtherCreatorKept ==
  ASSUME NEW c \in Creator, CreatorMoved(c), NEW d \in Creator \ {c},
         CreatorInv(d), StagingInv(d), AloneInv(d, c),
         \/ staged' = staged
         \/ /\ Inside(c)
            /\ \A m : m # Name(c) => /\ m \in DOMAIN staged' <=> m \in DOMAIN staged
                                     /\ m \in DOMAIN staged => staged'[m] = staged[m]
  PROVE  CreatorInv(d)' /\ StagingInv(d)'
<1>1. /\ Name(d)' = Name(d) /\ (Inside(d)' <=> Inside(d)) /\ Copies(d)' = Copies(d)
      /\ step'[d] = step[d] /\ order'[d] = order[d] /\ digest'[d] = digest[d]
      /\ copied'[d] = copied[d] /\ trespassed \subseteq trespassed'
  BY OthersKeepTheirNames DEF CreatorMoved
<1>2. CreatorInv(d)'
  BY <1>1 DEF CreatorInv
<1>3. ASSUME Inside(d), order[d].at \notin trespassed
      PROVE  /\ Name(d) \in DOMAIN staged' <=> Name(d) \in DOMAIN staged
             /\ Name(d) \in DOMAIN staged => staged'[Name(d)] = staged[Name(d)]
  BY <1>3 DEF AloneInv
<1>4. StagingInv(d)'
  BY <1>1, <1>3 DEF StagingInv
<1> QED
  BY <1>2, <1>4

-----------------------------------------------------------------------------
(* Its own progress                                                        *)

(* A creator's own step keeps its digests and its place in the copies.     *)
LEMMA OwnProgressKept ==
  ASSUME PackShape, NEW c \in Creator, CreatorInv(c), Ask(c) \/ CreatorStep(c)
  PROVE  CreatorInv(c)'
<1>0. /\ CreatorMoved(c) /\ copied[c] \in Nat /\ copied'[c] \in Nat
      /\ digest[c] = [f \in File |-> digest[c][f]]
      /\ step[c] # "idle" => order[c] \in Order /\ Len(order[c].roles) \in Nat
      /\ step[c] = "creating" => copied[c] = 0
      /\ step[c] = "copying" => copied[c] <= Len(order[c].roles)
  BY CreatorMoves, OrderFacts DEF PackShape, CreatorInv, CreatorMoved
<1>1. step \in [Creator -> Steps] /\ digest = [d \in Creator |-> digest[d]]
      /\ order = [d \in Creator |-> order[d]] /\ copied \in [Creator -> Nat]
  BY DEF PackShape
<1> USE DEF CreatorInv, At
<1>2. CASE Ask(c)
  <2>1. PICK o \in Order :
          /\ order' = [order EXCEPT ![c] = o]
          /\ digest' = [digest EXCEPT ![c] =
               [f \in File |-> IF /\ o.kind = "deployment"
                                  /\ f \in Range(o.roles) \ {Executable}
                               THEN disk[f] ELSE None]]
    BY <1>2 DEF Ask
  <2>2. /\ step'[c] = "checking" /\ order'[c] = o
        /\ digest'[c] = [f \in File |-> IF /\ o.kind = "deployment"
                                           /\ f \in Range(o.roles) \ {Executable}
                                        THEN disk[f] ELSE None]
    BY <1>1, <1>2, <2>1 DEF Ask
  <2> QED
    BY <2>2
<1>3. CASE Prepare(c)
  <2>1. /\ step'[c] = "creating" /\ order'[c] = order[c] /\ copied'[c] = 0 /\ step[c] = "hashing"
    BY <1>1, <1>3 DEF Prepare
  <2>2. digest'[c] = [f \in File |-> IF f \in Pinned(c) THEN digest[c][f]
                        ELSE IF f = Executable /\ order[c].kind = "deployment" THEN disk[f]
                        ELSE None]
    BY <1>1, <1>3 DEF Prepare
  <2> QED
    BY <1>0, <2>1, <2>2
<1>4. CASE CreateStaging(c)
  <2>1. /\ step'[c] = "copying" /\ step[c] = "creating" /\ order' = order /\ copied' = copied
        /\ digest' = digest
    BY <1>1, <1>4 DEF CreateStaging, local
  <2> QED
    BY <1>0, <2>1
<1>5. CASE TakeDigest(c) \/ Copy(c) \/ Compare(c)
  <2>1. /\ step' = step /\ order' = order /\ step[c] = "copying"
        /\ copied[c] < Len(order[c].roles)
    BY <1>5 DEF TakeDigest, Copy, Compare, MoreToCopy
  <2>2. copied'[c] <= copied[c] + 1
    <3>1. copied' = copied \/ copied' = [copied EXCEPT ![c] = @ + 1]
      BY <1>5 DEF TakeDigest, Copy, Compare
    <3> QED
      BY <1>0, <1>1, <3>1
  <2>3. digest'[c] = [f \in File |-> digest'[c][f]]
    <3>1. digest' = digest
            \/ digest' = [digest EXCEPT
                            ![c] = [digest[c] EXCEPT ![NextSource(c)] = disk[NextSource(c)]]]
      BY <1>5 DEF TakeDigest, Copy, Compare
    <3>2. digest'[c] = digest[c]
            \/ digest'[c] = [digest[c] EXCEPT ![NextSource(c)] = disk[NextSource(c)]]
      BY <1>1, <3>1
    <3> QED
      BY <1>0, <3>2
  <2> QED
    BY <1>0, <2>1, <2>2, <2>3
<1>6. CASE FindDestinationFree(c) \/ Seal(c) \/ Install(c) \/ Fail(c) \/ CleanUp(c) \/ Kill(c)
           \/ Retry(c)
  <2>1. /\ UNCHANGED <<order, digest, copied>> /\ step[c] # "idle"
        /\ step'[c] \notin {"creating", "copying"}
    BY <1>1, <1>6 DEF FindDestinationFree, Seal, Install, Fail, CleanUp, Kill, Retry, OnFailure,
       Inside, local
  <2> QED
    BY <1>0, <2>1
<1> QED
  BY <1>2, <1>3, <1>4, <1>5, <1>6 DEF CreatorStep

(* A file copied after its digest has been compared is a faithful copy.    *)
LEMMA CopiesGrow ==
  ASSUME PackShape, NEW c \in Creator, CreatorInv(c), IsStaged(staged), Copy(c),
         order[c].kind = "deployment", staged[Name(c)].files = Copies(c)
  PROVE  staged'[Name(c)].files = Copies(c)'
<1> DEFINE f == NextSource(c)
           roles == order[c].roles
           done == {roles[i] : i \in 1..copied[c]}
<1>1. /\ copied'[c] = copied[c] + 1 /\ order'[c] = order[c] /\ digest'[c] = digest[c]
      /\ digest[c][f] = disk[f]
  <2>1. /\ copied' = [copied EXCEPT ![c] = @ + 1] /\ order' = order /\ digest' = digest
        /\ IsFaithful(c, disk[f])
    BY DEF Copy
  <2> QED
    BY <2>1 DEF PackShape, IsFaithful
<1>2. copied[c] \in Nat /\ f = roles[copied[c] + 1]
  BY DEF PackShape, NextSource
<1>3. {roles[i] : i \in 1..(copied[c] + 1)} = done \cup {f}
  <2> HIDE DEF roles
  <2> QED
    BY <1>2
<1>4. Copies(c)' = [g \in done \cup {f} |-> digest[c][g]]
  <2>1. {order'[c].roles[i] : i \in 1..copied'[c]} = done \cup {f}
    BY <1>1, <1>3
  <2>2. Copies(c)' = [g \in {order'[c].roles[i] : i \in 1..copied'[c]} |-> digest'[c][g]]
    BY DEF Copies
  <2> HIDE DEF f, done
  <2> QED
    BY <1>1, <2>1, <2>2
<1>5. staged'[Name(c)].files = [g \in done \cup {f} |->
                                  IF g = f THEN disk[g] ELSE [h \in done |-> digest[c][h]][g]]
  BY CopyStages DEF Copies
<1> HIDE DEF f, roles, done
<1> QED
  BY <1>1, <1>4, <1>5

(* When all is copied, what lies there is what the manifest will list.     *)
LEMMA CopiesAreListed ==
  ASSUME NEW c \in Creator, order[c] \in Order, copied[c] = Len(order[c].roles)
  PROVE  Copies(c) = Restrict(digest[c], Sources(c))
<1>1. {order[c].roles[i] : i \in 1..copied[c]} = Sources(c)
  BY OrderFacts DEF Sources, Range
<1> QED
  BY <1>1 DEF Copies, Restrict

(* And something is.                                                       *)
LEMMA SomethingIsListed ==
  ASSUME NEW c \in Creator, order[c] \in Order
  PROVE  Restrict(digest[c], Sources(c)) # <<>>
<1>1. DOMAIN Restrict(digest[c], Sources(c)) = Sources(c) /\ Sources(c) # {}
  BY OrderFacts DEF Restrict, Sources
<1>2. DOMAIN <<>> = {}
  OBVIOUS
<1> QED
  BY <1>1, <1>2

(* It keeps what it knows of its directory, too, if it is alone at it.     *)
LEMMA OwnStagingKept ==
  ASSUME PackShape, NEW c \in Creator, CreatorInv(c), StagingInv(c), Ask(c) \/ CreatorStep(c)
  PROVE  StagingInv(c)'
<1>0. CreatorMoved(c) /\ IsStaged(staged) /\ step \in [Creator -> Steps]
  BY CreatorMoves DEF PackShape, IsStaged
<1>n. /\ Inside(c) => order'[c] = order[c] /\ Name(c)' = Name(c)
      /\ order[c].at \in trespassed => order[c].at \in trespassed'
  BY <1>0, KeepsItsName DEF CreatorMoved
<1> SUFFICES ASSUME Inside(c)', order'[c].at \notin trespassed'
             PROVE  StagingInv(c)'
  BY DEF StagingInv
<1> USE DEF StagingInv, At
<1>1. CASE Prepare(c)
  <2>1. /\ step'[c] = "creating" /\ order'[c] = order[c] /\ staged' = staged
        /\ Name(c) \notin DOMAIN staged /\ step[c] = "hashing"
    BY <1>0, <1>1 DEF Prepare
  <2>2. Name(c)' = Name(c)
    <3>1. order[c] \in Order
      BY <2>1 DEF CreatorInv
    <3>2. Pinned(c) \subseteq File
      BY <3>1, OrderFacts DEF Pinned, Sources
    <3>3. digest'[c] = [f \in File |-> IF f \in Pinned(c) THEN digest[c][f]
                          ELSE IF f = Executable /\ order[c].kind = "deployment" THEN disk[f]
                          ELSE None]
      BY <1>1 DEF Prepare, PackShape
    <3> QED
      BY <2>1, <3>2, <3>3, NameKept
  <2> QED
    BY <2>1, <2>2
<1>2. CASE CreateStaging(c)
  <2>1. /\ step'[c] = "copying" /\ step[c] = "creating" /\ order' = order /\ copied' = copied
        /\ digest' = digest /\ Inside(c)
    BY <1>0, <1>2 DEF CreateStaging, local, Inside
  <2>2. Name(c) \notin DOMAIN staged
    BY <1>n, <2>1
  <2>3. staged'[Name(c)].files = <<>>
    BY <1>0, <1>2, <2>2, CreateStages
  <2>4. copied[c] = 0
    BY <2>1 DEF CreatorInv
  <2>5. Copies(c)' = <<>>
    <3>1. {order[c].roles[i] : i \in 1..0} = {}
      OBVIOUS
    <3>2. Copies(c)' = [f \in {} |-> digest[c][f]]
      BY <2>1, <2>4, <3>1 DEF Copies
    <3> QED
      BY <3>2
  <2> QED
    BY <1>n, <2>1, <2>3, <2>5
<1>3. CASE Copy(c)
  <2>1. /\ step' = step /\ step[c] = "copying" /\ order' = order /\ Inside(c)
        /\ Name(c) \in DOMAIN staged
    BY <1>3 DEF Copy, MoreToCopy, Inside
  <2>2. order[c].kind = "deployment" => staged[Name(c)].files = Copies(c)
    BY <1>n, <2>1
  <2>3. order[c].kind = "deployment" => staged'[Name(c)].files = Copies(c)'
    BY <1>0, <1>3, <2>2, CopiesGrow
  <2> QED
    BY <1>n, <2>1, <2>3
<1>4. CASE TakeDigest(c) \/ Compare(c)
  <2>1. /\ step' = step /\ step[c] = "copying" /\ order' = order /\ Inside(c)
        /\ order[c].kind # "deployment"
    BY <1>4 DEF TakeDigest, Compare, MoreToCopy, Inside
  <2> QED
    BY <2>1
<1>5. CASE Seal(c)
  <2>1. /\ step'[c] = "installing" /\ step[c] = "copying" /\ order' = order /\ Inside(c)
        /\ copied[c] = Len(order[c].roles) /\ Name(c) \in DOMAIN staged
        /\ order[c].kind # "deployment" =>
             staged[Name(c)].files = Restrict(digest[c], Sources(c))
    BY <1>0, <1>5 DEF Seal, Inside
  <2>2. order[c] \in Order
    BY <2>1 DEF CreatorInv
  <2>3. order[c].kind = "deployment" => staged[Name(c)].files = Copies(c)
    BY <1>n, <2>1
  <2>4. staged[Name(c)].files = Restrict(digest[c], Sources(c))
    BY <2>1, <2>2, <2>3, CopiesAreListed
  <2>5. /\ staged'[Name(c)].files = Restrict(digest[c], Sources(c))
        /\ staged'[Name(c)].lists = Restrict(digest[c], Sources(c))
    BY <1>0, <1>5, <2>4, SealStages
  <2> QED
    BY <1>n, <2>1, <2>2, <2>5, SomethingIsListed
<1>6. CASE Fail(c)
  <2>1. step'[c] \in {"failed", "cleaning"}
    BY <1>0, <1>6 DEF Fail, OnFailure
  <2> QED
    BY <2>1
<1>7. CASE Ask(c) \/ FindDestinationFree(c) \/ Install(c) \/ CleanUp(c) \/ Kill(c) \/ Retry(c)
  <2>1. step'[c] \in {"checking", "hashing", "installed", "failed"}
    BY <1>0, <1>7 DEF Ask, FindDestinationFree, Install, CleanUp, Kill, Retry
  <2> QED
    BY <2>1 DEF Inside
<1> QED
  BY <1>1, <1>2, <1>3, <1>4, <1>5, <1>6, <1>7 DEF CreatorStep

-----------------------------------------------------------------------------
(* All creators                                                            *)

(* Whoever comes to share a name is noticed when he does.                  *)
LEMMA AloneKept ==
  ASSUME PackShape, NEW c \in Creator, CreatorInv(c), Ask(c) \/ CreatorStep(c),
         \A a, b \in Creator : a # b => AloneInv(a, b)
  PROVE  \A a, b \in Creator : a # b => AloneInv(a, b)'
<1>1. CreatorMoved(c)
  BY CreatorMoves
<1>2. \A a \in Creator \ {c} : /\ Name(a)' = Name(a) /\ (Inside(a)' <=> Inside(a))
                               /\ order'[a] = order[a]
  BY <1>1, OthersKeepTheirNames
<1>3. trespassed \subseteq trespassed'
  BY <1>1 DEF CreatorMoved
<1>4. ASSUME NEW d \in Creator \ {c}, Inside(c)', Inside(d)', Name(c)' = Name(d)'
      PROVE  order'[c].at \in trespassed' /\ order'[d].at \in trespassed'
  <2>1. CASE Inside(c)
    <3>1. Name(c)' = Name(c) /\ order'[c] = order[c]
      BY <2>1, KeepsItsName
    <3>2. AloneInv(c, d) /\ AloneInv(d, c)
      OBVIOUS
    <3> QED
      BY <1>2, <1>3, <1>4, <2>1, <3>1, <3>2 DEF AloneInv
  <2>2. CASE ~ Inside(c)
    <3>1. Prepare(c)
      BY <1>4, <2>2 DEF CreatorStep, Ask, FindDestinationFree, CreateStaging, TakeDigest, Copy,
         Compare, Seal, Install, Fail, CleanUp, Kill, Retry, MoreToCopy, Inside, At, PackShape,
         OnFailure
    <3>2. /\ order'[c] = order[c] /\ step[c] = "hashing"
          /\ (\E other \in Creator \ {c} : Inside(other) /\ Name(other) = Name(c))
               => order[c].at \in trespassed'
      BY <3>1 DEF Prepare
    <3>3. Name(c)' = Name(c)
      <4>1. order[c] \in Order
        BY <3>2 DEF CreatorInv
      <4>2. Pinned(c) \subseteq File
        BY <4>1, OrderFacts DEF Pinned, Sources
      <4>3. digest'[c] = [f \in File |-> IF f \in Pinned(c) THEN digest[c][f]
                            ELSE IF f = Executable /\ order[c].kind = "deployment" THEN disk[f]
                            ELSE None]
        BY <3>1 DEF Prepare, PackShape
      <4> QED
        BY <3>2, <4>2, <4>3, NameKept
    <3>4. Inside(d) /\ Name(d) = Name(c)
      BY <1>2, <1>4, <3>3
    <3>5. order[d].at = order[c].at
      BY <3>4, NameSaysWhere
    <3> QED
      BY <1>2, <3>2, <3>4, <3>5
  <2> QED
    BY <2>1, <2>2
<1>5. ASSUME NEW a \in Creator \ {c}, NEW b \in Creator \ {c}, a # b
      PROVE  AloneInv(a, b)'
  <2>1. AloneInv(a, b)
    BY <1>5
  <2> QED
    BY <1>2, <1>3, <2>1 DEF AloneInv
<1>6. ASSUME NEW d \in Creator \ {c}
      PROVE  AloneInv(c, d)' /\ AloneInv(d, c)'
  BY <1>4 DEF AloneInv
<1> QED
  BY <1>5, <1>6

(* A directory comes with a creator that is at it; it goes before that one *)
(* leaves, or is remembered as orphaned.                                   *)
LEMMA LeftoversKept ==
  ASSUME PackShape, NEW c \in Creator, CreatorInv(c), Ask(c) \/ CreatorStep(c), NoLeftovers
  PROVE  NoLeftovers' /\ orphaned' \subseteq DOMAIN staged'
<1>0. /\ CreatorMoved(c) /\ IsStaged(staged) /\ step \in [Creator -> Steps]
      /\ orphaned \subseteq DOMAIN staged
  BY CreatorMoves DEF PackShape, IsStaged
<1>1. \A d \in Creator \ {c} : Name(d)' = Name(d) /\ (Inside(d)' <=> Inside(d))
  BY <1>0, OthersKeepTheirNames
<1>2. Inside(c) => Name(c)' = Name(c)
  BY KeepsItsName
<1>3. ASSUME DOMAIN staged' = DOMAIN staged, orphaned' = orphaned, Inside(c) => Inside(c)'
      PROVE  NoLeftovers' /\ orphaned' \subseteq DOMAIN staged'
  BY <1>0, <1>1, <1>2, <1>3 DEF NoLeftovers
<1>4. CASE CreateStaging(c)
  <2>1. /\ DOMAIN staged' = DOMAIN staged \cup {Name(c)} /\ orphaned' = orphaned
        /\ Inside(c) /\ Inside(c)'
    BY <1>0, <1>4, CreateStages DEF CreateStaging, At, Inside
  <2> QED
    BY <1>0, <1>1, <1>2, <2>1 DEF NoLeftovers
<1>5. CASE Install(c) \/ CleanUp(c)
  <2>1. /\ staged' = Without(Name(c)) /\ orphaned' = orphaned \ {Name(c)}
    BY <1>5 DEF Install, CleanUp
  <2>2. DOMAIN staged' = DOMAIN staged \ {Name(c)}
    BY <1>0, <2>1, Removed
  <2> QED
    BY <1>0, <1>1, <2>1, <2>2 DEF NoLeftovers
<1>6. CASE Kill(c)
  <2>1. staged' = staged /\ orphaned' = orphaned \cup ({Name(c)} \cap DOMAIN staged)
    BY <1>6 DEF Kill
  <2> QED
    BY <1>0, <1>1, <2>1 DEF NoLeftovers
<1>7. CASE Copy(c)
  <2>1. DOMAIN staged' = DOMAIN staged /\ orphaned' = orphaned /\ Inside(c)'
    BY <1>0, <1>7, CopyStages DEF Copy, MoreToCopy, Inside
  <2> QED
    BY <1>3, <2>1
<1>8. CASE Seal(c)
  <2>1. DOMAIN staged' = DOMAIN staged /\ orphaned' = orphaned /\ Inside(c)'
    BY <1>0, <1>8, SealStages DEF Seal, At, Inside
  <2> QED
    BY <1>3, <2>1
<1>9. CASE Fail(c)
  <2>1. staged' = staged /\ orphaned' = orphaned /\ (Inside(c) => Inside(c)')
    BY <1>0, <1>9 DEF Fail, At, Inside, OnFailure
  <2> QED
    BY <1>3, <2>1
<1>10. CASE Ask(c) \/ FindDestinationFree(c) \/ Prepare(c) \/ TakeDigest(c) \/ Compare(c) \/ Retry(c)
  <2>1. staged' = staged /\ orphaned' = orphaned /\ (Inside(c) => Inside(c)')
    BY <1>10 DEF Ask, FindDestinationFree, Prepare, TakeDigest, Compare, Retry, Inside
  <2> QED
    BY <1>3, <2>1
<1> QED
  BY <1>4, <1>5, <1>6, <1>7, <1>8, <1>9, <1>10 DEF CreatorStep

(* What is installed is what has been sealed.                              *)
LEMMA PackagesKept ==
  ASSUME PackShape, NEW c \in Creator, CreatorInv(c), StagingInv(c),
         Ask(c) \/ CreatorStep(c), PublishedIsWhole
  PROVE  PublishedIsWhole'
<1>1. trespassed \subseteq trespassed'
  BY CreatorMoves DEF CreatorMoved
<1>2. CASE UNCHANGED packages
  BY <1>1, <1>2 DEF PublishedIsWhole, Destination
<1>3. CASE Install(c)
  <2> DEFINE d == order[c].at
             s == staged[Name(c)]
  <2>1. /\ packages' = [packages EXCEPT ![d] = s] /\ step[c] = "installing"
        /\ Name(c) \in DOMAIN staged /\ Inside(c)
    BY <1>3 DEF Install, Inside
  <2>2. d \notin trespassed => s.files = s.lists /\ s.files # <<>>
    BY <2>1 DEF StagingInv
  <2>3. \A at \in Destination : packages'[at] = IF at = d THEN s ELSE packages[at]
    BY <2>1 DEF PackShape
  <2> HIDE DEF d, s
  <2>4. ASSUME NEW at \in Destination, packages'[at] # None, at \notin trespassed'
        PROVE  packages'[at].files = packages'[at].lists /\ packages'[at].files # <<>>
    <3>1. at \notin trespassed
      BY <1>1, <2>4
    <3>2. CASE at = d
      BY <2>2, <2>3, <3>1, <3>2
    <3>3. CASE at # d
      <4>1. packages'[at] = packages[at]
        BY <2>3, <3>3
      <4> QED
        BY <2>4, <3>1, <4>1 DEF PublishedIsWhole
    <3> QED
      BY <3>2, <3>3
  <2>5. Destination' = Destination
    BY DEF Destination
  <2> QED
    BY <2>4, <2>5 DEF PublishedIsWhole
<1> QED
  BY <1>2, <1>3 DEF CreatorStep, Ask, FindDestinationFree, Prepare, CreateStaging, TakeDigest, Copy,
     Compare, Seal, Fail, CleanUp, Kill, Retry

(* A creator's step keeps the whole invariant.                             *)
LEMMA CreatorsKept ==
  ASSUME PackInv, NEW c \in Creator, Ask(c) \/ CreatorStep(c)
  PROVE  PackInv'
<1>0. /\ PackShape /\ CreatorInv(c) /\ StagingInv(c) /\ IsStaged(staged)
      /\ NoLeftovers /\ PublishedIsWhole
      /\ \A a, b \in Creator : a # b => AloneInv(a, b)
  BY DEF PackInv, PackShape, IsStaged
<1>1. CreatorMoved(c)
  BY <1>0, CreatorMoves
<1>2. /\ IsStaged(staged)'
      /\ \/ staged' = staged
         \/ /\ Inside(c)
            /\ \A m : m # Name(c) => /\ m \in DOMAIN staged' <=> m \in DOMAIN staged
                                     /\ m \in DOMAIN staged => staged'[m] = staged[m]
  BY <1>0, OnlyItsOwn
<1>3. NoLeftovers' /\ orphaned' \subseteq DOMAIN staged'
  BY <1>0, LeftoversKept
<1>4. PackShape'
  BY <1>1, <1>2, <1>3 DEF PackShape, CreatorMoved, IsStaged, Destination
<1>5. CreatorInv(c)' /\ StagingInv(c)'
  BY <1>0, OwnProgressKept, OwnStagingKept
<1>6. ASSUME NEW d \in Creator \ {c}
      PROVE  CreatorInv(d)' /\ StagingInv(d)'
  <2>1. CreatorInv(d) /\ StagingInv(d) /\ AloneInv(d, c)
    BY DEF PackInv
  <2> QED
    BY <1>1, <1>2, <2>1, OtherCreatorKept
<1>7. \A a, b \in Creator : a # b => AloneInv(a, b)'
  BY <1>0, AloneKept
<1>8. PublishedIsWhole'
  BY <1>0, PackagesKept
<1> QED
  BY <1>3, <1>4, <1>5, <1>6, <1>7, <1>8 DEF PackInv

(* Runs and editors have no hand in packages.                              *)
LEMMA StudiesKeepPackages ==
  ASSUME PackInv, UNCHANGED packVars
  PROVE  PackInv'
<1>1. /\ step' = step /\ order' = order /\ digest' = digest /\ copied' = copied
      /\ staged' = staged /\ packages' = packages /\ orphaned' = orphaned
      /\ trespassed' = trespassed
  BY DEF packVars
<1>2. ASSUME NEW c \in Creator
      PROVE  /\ Name(c)' = Name(c) /\ (Inside(c)' <=> Inside(c)) /\ Copies(c)' = Copies(c)
  BY <1>1 DEF Name, Pinned, Sources, Inside, Copies
<1>3. PackShape'
  BY <1>1 DEF PackInv, PackShape, Destination
<1>4. \A c \in Creator : CreatorInv(c)' /\ StagingInv(c)'
  BY <1>1, <1>2 DEF PackInv, CreatorInv, StagingInv
<1>5. \A c, d \in Creator : c # d => AloneInv(c, d)'
  BY <1>1, <1>2 DEF PackInv, AloneInv
<1>6. NoLeftovers'
  BY <1>1, <1>2 DEF PackInv, NoLeftovers
<1>7. PublishedIsWhole'
  BY <1>1 DEF PackInv, PublishedIsWhole, Destination
<1> QED
  BY <1>3, <1>4, <1>5, <1>6, <1>7 DEF PackInv

(* Nobody has begun, nothing is staged.                                    *)
LEMMA InitPackages ==
  ASSUME PackagingInit
  PROVE  PackInv
<1>1. PackShape
  <2>1. DOMAIN staged = {} /\ staged = [n \in DOMAIN staged |-> staged[n]]
    BY DEF PackagingInit
  <2> QED
    BY <2>1 DEF PackagingInit, PackShape, Steps
<1>2. ASSUME NEW c \in Creator
      PROVE  CreatorInv(c) /\ StagingInv(c) /\ ~ Inside(c)
  BY DEF PackagingInit, CreatorInv, StagingInv, Inside, NoFiles
<1>3. NoLeftovers /\ PublishedIsWhole
  BY DEF PackagingInit, NoLeftovers, PublishedIsWhole
<1> QED
  BY <1>1, <1>2, <1>3 DEF PackInv, AloneInv

-----------------------------------------------------------------------------
(* Theorems                                                                *)

(* A step of a delivery is a step of the runs or leaves them alone.        *)
LEMMA DeliveryIsPipeline == [DeliveryNext]_deliveryVars => [Next]_vars
BY DEF DeliveryNext, RunStudies, MakePackages, Next, deliveryVars

(* Creators only read what runs publish: whatever is proved of the runs    *)
(* and their files holds beside them.                                      *)
THEOREM DeliveryRunsPipeline == DeliverySpec => Spec
BY DeliveryIsPipeline, PTL DEF DeliverySpec, DeliveryInit, Spec

(* The invariant is inductive.                                             *)
LEMMA StepDelivery ==
  ASSUME DeliveryInv, [DeliveryNext]_deliveryVars
  PROVE  DeliveryInv'
<1>1. RunsInv'
  BY DeliveryIsPipeline, RunsKept DEF DeliveryInv
<1>2. PackInv'
  <2>1. ASSUME NEW c \in Creator, Ask(c) \/ CreatorStep(c)
        PROVE  PackInv'
    BY <2>1, CreatorsKept DEF DeliveryInv
  <2>2. CASE UNCHANGED packVars
    BY <2>2, StudiesKeepPackages DEF DeliveryInv
  <2> QED
    BY <2>1, <2>2 DEF DeliveryNext, RunStudies, MakePackages, deliveryVars
<1> QED
  BY <1>1, <1>2 DEF DeliveryInv

(* A creator alone under its staging name knows what lies in its directory.*)
THEOREM DeliveryInvariant == DeliverySpec => []DeliveryInv
<1>1. DeliveryInit => DeliveryInv
  BY InitPipeline, InitPackages DEF DeliveryInit, DeliveryInv, PipelineInv
<1>2. DeliveryInv /\ [DeliveryNext]_deliveryVars => DeliveryInv'
  BY StepDelivery
<1> QED
  BY <1>1, <1>2, PTL DEF DeliverySpec

(* Every variable keeps its type, those of the runs included.              *)
THEOREM DeliveryTypeCorrect == DeliverySpec => []DeliveryTypeOK
<1>1. ASSUME DeliveryInv
      PROVE  DeliveryTypeOK
  <2>1. TypeOK
    BY <1>1, RunsHaveTypes DEF DeliveryInv
  <2>2. ASSUME NEW c \in Creator
        PROVE  /\ step[c] # "idle" => order[c] \in Order
               /\ DOMAIN digest[c] = File
               /\ step[c] = "copying" => copied[c] \in 0..Len(order[c].roles)
    <3>1. CreatorInv(c) /\ copied[c] \in Nat
      BY <1>1 DEF DeliveryInv, PackInv, PackShape
    <3>2. DOMAIN digest[c] = File
      BY <3>1 DEF CreatorInv
    <3>3. step[c] # "idle" => order[c] \in Order /\ Len(order[c].roles) \in Nat
      BY <3>1, OrderFacts DEF CreatorInv
    <3> QED
      BY <3>1, <3>2, <3>3 DEF CreatorInv
  <2>3. PackShape
    BY <1>1 DEF DeliveryInv, PackInv
  <2> QED
    BY <2>1, <2>2, <2>3 DEF DeliveryTypeOK, PackShape, Steps
<1> QED
  BY <1>1, DeliveryInvariant, PTL

(* What is installed holds exactly what its manifest lists, whatever       *)
(* happens to the sources while they are copied, to other creators and in  *)
(* earlier attempts, unless two creators shared a staging name.            *)
THEOREM PublishedPackagesAreWhole == DeliverySpec => []PublishedIsWhole
<1>1. DeliveryInv => PublishedIsWhole
  BY DEF DeliveryInv, PackInv
<1> QED
  BY <1>1, DeliveryInvariant, PTL

(* A staging directory without a creator at it is one a kill has left.     *)
THEOREM FailuresLeaveNothing == DeliverySpec => []NoLeftovers
<1>1. DeliveryInv => NoLeftovers
  BY DEF DeliveryInv, PackInv
<1> QED
  BY <1>1, DeliveryInvariant, PTL

(* Beside creators of packages, too, a run publishes over nothing it has   *)
(* read or published and never over the executable.                        *)
THEOREM InputsSurviveDelivery == DeliverySpec => InputsSurvive
BY DeliveryRunsPipeline, InputsAlwaysSurvive

(* And what a manifest lists stands, or what a run told to overwrite has   *)
(* put in its place.                                                       *)
THEOREM RecordedOutputsStandDelivered ==
  ASSUME ProductsExist
  PROVE  DeliverySpec => []RecordedOutputsStand
BY DeliveryRunsPipeline, RecordedOutputsAlwaysStand

(* A manifest is still whole, and names what was computed from the inputs  *)
(* it records although packages are being made of the same files.          *)
THEOREM RecordsAreWholeDelivered ==
  ASSUME ProductsExist
  PROVE  DeliverySpec => []RecordIsWhole
BY DeliveryRunsPipeline, RecordsAreWhole

(* And has for each stage the evidence of the stages it depends on.        *)
THEOREM EvidenceIsCompleteDelivered == DeliverySpec => []EvidenceComesFromItsSource
BY DeliveryRunsPipeline, RecordedEvidenceIsComplete

(* And is made in one piece, by runs that are decided once.                *)
THEOREM DeliveryImplementsRecord ==
  ASSUME ProductsExist
  PROVE  DeliverySpec => AllOrNothing
BY DeliveryRunsPipeline, RunsImplementRecord

=============================================================================
