----------------------------- MODULE Packaging -----------------------------
(***************************************************************************)
(* Packages made of files while pipeline runs and editors may replace the  *)
(* files: deployments (galata deploy stage, stage-runtime), campaign and   *)
(* qualification dossiers (flighttest create, qualification create) and    *)
(* target evidence. The four do the same in slightly different orders:     *)
(* copy every source into a staging directory beside the destination,      *)
(* check each copy, write a manifest of digests and rename the directory.  *)
(* A digest is modelled by the bytes it is the digest of.                  *)
(***************************************************************************)
EXTENDS Pipeline

CONSTANTS
  Creator,       \* processes that make packages, again and again
  Order,         \* what they may be asked for: kind, destination, sources
  MaxStarted     \* bound: pipeline runs and creators that get going

Kind == {"deployment", "dossier", "target"}

ASSUME PackagingAssumption ==
  /\ MaxStarted \in Nat
  /\ \A o \in Order : o.kind \in Kind /\ o.roles \in Seq(File) /\ o.roles # <<>>

VARIABLES
  step,          \* next step of each creator
  order,         \* what it makes
  digest,        \* digests it has taken or been given, per source
  copied,        \* number of sources copied so far
  staged,        \* staging directories that exist: name -> manifest and files
  packages,      \* what is at each destination
  orphaned,      \* names of staging directories a killed creator was using
  trespassed     \* destinations for which two creators shared a staging name

packVars == <<step, order, digest, copied, staged, packages, orphaned, trespassed>>
local == <<digest, copied>>
deliveryVars == <<vars, packVars>>

Destination == {o.at : o \in Order}
Sources(c) == Range(order[c].roles)

(* The manifest of a deployment is compiled beforehand and pins the        *)
(* artifacts, but not the runtime binary.                                  *)
Pinned(c) == IF order[c].kind = "deployment" THEN Sources(c) \ {Executable} ELSE {}

(* The staging directory is named after the destination, and after the     *)
(* manifest where that exists already.                                     *)
Name(c) == [at |-> order[c].at, pinned |-> [f \in Pinned(c) |-> digest[c][f]]]

(* Between the check that its staging name is free and the rename.         *)
Inside(c) == step[c] \in {"creating", "copying", "installing", "cleaning"}

Room == Cardinality({r \in Run : pc[r] # "idle"} \cup {c \in Creator : step[c] # "idle"})
          < MaxStarted

PackagingInit ==
  /\ step = [c \in Creator |-> "idle"]
  /\ order = [c \in Creator |-> None]
  /\ digest = [c \in Creator |-> NoFiles]
  /\ copied = [c \in Creator |-> 0]
  /\ staged = <<>>
  /\ packages = [d \in Destination |-> None]
  /\ orphaned = {}
  /\ trespassed = {}

At(c, label) == step' = [step EXCEPT ![c] = label]

-----------------------------------------------------------------------------
(* A deployment comes with a manifest of what the artifacts once were.     *)
Ask(c) ==
  /\ step[c] = "idle"
  /\ \E o \in Order :
       /\ \A f \in Range(o.roles) : disk[f] # None
       /\ order' = [order EXCEPT ![c] = o]
       /\ digest' = [digest EXCEPT ![c] =
            [f \in File |-> IF /\ o.kind = "deployment"
                               /\ f \in Range(o.roles) \ {Executable}
                            THEN disk[f] ELSE None]]
  /\ At(c, "checking")
  /\ UNCHANGED <<copied, staged, packages, orphaned, trespassed>>

(* The destination must be new.                                            *)
FindDestinationFree(c) ==
  /\ step[c] = "checking"
  /\ packages[order[c].at] = None
  /\ At(c, "hashing")
  /\ UNCHANGED <<order, local, staged, packages, orphaned, trespassed>>

(* Sources there and still what the manifest says, staging name free; the  *)
(* digest of a runtime binary is taken here.                               *)
Prepare(c) ==
  /\ step[c] = "hashing"
  /\ \A f \in Sources(c) : disk[f] # None
  /\ \A f \in Pinned(c) : disk[f] = digest[c][f]
  /\ Name(c) \notin DOMAIN staged
  /\ digest' = [digest EXCEPT ![c] =
       [f \in File |-> IF f \in Pinned(c) THEN @[f]
                       ELSE IF f = Executable /\ order[c].kind = "deployment" THEN disk[f]
                       ELSE None]]
  /\ copied' = [copied EXCEPT ![c] = 0]
  /\ trespassed' = IF \E other \in Creator \ {c} : Inside(other) /\ Name(other) = Name(c)
                   THEN trespassed \cup {order[c].at} ELSE trespassed
  /\ At(c, "creating")
  /\ UNCHANGED <<order, staged, packages, orphaned>>

(* create_directories takes a directory that is there by now for its own.  *)
CreateStaging(c) ==
  /\ step[c] = "creating"
  /\ LET n == Name(c)
         files == IF n \in DOMAIN staged THEN staged[n].files ELSE <<>>
     IN staged' = [m \in DOMAIN staged \cup {n} |->
                     IF m = n THEN [lists |-> n.pinned, files |-> files] ELSE staged[m]]
  /\ At(c, "copying")
  /\ UNCHANGED <<order, local, packages, orphaned, trespassed>>

(* Sources are copied in the order of their roles.                         *)
NextSource(c) == order[c].roles[copied[c] + 1]
MoreToCopy(c) == step[c] = "copying" /\ copied[c] < Len(order[c].roles)

(* A dossier takes the digest of the source before it copies it.           *)
TakeDigest(c) ==
  /\ MoreToCopy(c)
  /\ order[c].kind = "dossier"
  /\ digest[c][NextSource(c)] = None
  /\ disk[NextSource(c)] # None
  /\ digest' = [digest EXCEPT ![c][NextSource(c)] = disk[NextSource(c)]]
  /\ UNCHANGED <<step, order, copied, staged, packages, orphaned, trespassed>>

IsTaken(c, bytes) == digest[c][NextSource(c)] # None
IsFaithful(c, bytes) == digest[c][NextSource(c)] = bytes

(* copy_file refuses a name that is taken; the copy must have the digest.  *)
Copy(c) ==
  /\ MoreToCopy(c)
  /\ Name(c) \in DOMAIN staged
  /\ NextSource(c) \notin DOMAIN staged[Name(c)].files
  /\ disk[NextSource(c)] # None
  /\ staged' = [staged EXCEPT ![Name(c)].files =
       [f \in DOMAIN @ \cup {NextSource(c)} |->
          IF f = NextSource(c) THEN disk[f] ELSE @[f]]]
  /\ IF order[c].kind = "target"
     THEN /\ digest' = [digest EXCEPT ![c][NextSource(c)] = disk[NextSource(c)]]
          /\ UNCHANGED copied
     ELSE /\ IsFaithful(c, disk[NextSource(c)])
          /\ copied' = [copied EXCEPT ![c] = @ + 1]
          /\ UNCHANGED digest
  /\ UNCHANGED <<step, order, packages, orphaned, trespassed>>

(* Target evidence reads the source again after it has copied it.          *)
Compare(c) ==
  /\ MoreToCopy(c)
  /\ order[c].kind = "target"
  /\ digest[c][NextSource(c)] # None
  /\ disk[NextSource(c)] = digest[c][NextSource(c)]
  /\ copied' = [copied EXCEPT ![c] = @ + 1]
  /\ UNCHANGED <<step, order, digest, staged, packages, orphaned, trespassed>>

(* The manifest, or the receipt with the runtime's digest, is written; the *)
(* evidence kinds then verify the directory against it, file by file and   *)
(* for files too many. A deployment rereads only its manifest.             *)
Seal(c) ==
  /\ step[c] = "copying"
  /\ copied[c] = Len(order[c].roles)
  /\ Name(c) \in DOMAIN staged
  /\ LET lists == Restrict(digest[c], Sources(c)) IN
       /\ order[c].kind # "deployment" => staged[Name(c)].files = lists
       /\ staged' = [staged EXCEPT ![Name(c)].lists = lists]
  /\ At(c, "installing")
  /\ UNCHANGED <<order, local, packages, orphaned, trespassed>>

Without(n) == Restrict(staged, DOMAIN staged \ {n})

(* rename does not replace a directory that has anything in it.            *)
Install(c) ==
  /\ step[c] = "installing"
  /\ Name(c) \in DOMAIN staged
  /\ packages[order[c].at] = None
  /\ packages' = [packages EXCEPT ![order[c].at] = staged[Name(c)]]
  /\ staged' = Without(Name(c))
  /\ orphaned' = orphaned \ {Name(c)}
  /\ At(c, "installed")
  /\ UNCHANGED <<order, local, trespassed>>

-----------------------------------------------------------------------------
OnFailureAtOnce(label) == IF label = "copying" THEN "cleaning" ELSE "failed"
OnFailure(label) == IF label \in {"checking", "hashing"} THEN "failed" ELSE "cleaning"

(* A check that does not hold, or an I/O error: once past the checks the   *)
(* staging directory goes, whoever made it.                                *)
Fail(c) ==
  /\ step[c] \in {"checking", "hashing", "creating", "copying", "installing"}
  /\ At(c, OnFailure(step[c]))
  /\ UNCHANGED <<order, local, staged, packages, orphaned, trespassed>>

CleanUp(c) ==
  /\ step[c] = "cleaning"
  /\ staged' = Without(Name(c))
  /\ orphaned' = orphaned \ {Name(c)}
  /\ At(c, "failed")
  /\ UNCHANGED <<order, local, packages, trespassed>>

Kill(c) ==
  /\ Inside(c)
  /\ orphaned' = orphaned \cup ({Name(c)} \cap DOMAIN staged)
  /\ At(c, "failed")
  /\ UNCHANGED <<order, local, staged, packages, trespassed>>

(* The same command again, with the same manifest.                         *)
Retry(c) ==
  /\ step[c] = "failed"
  /\ At(c, "checking")
  /\ UNCHANGED <<order, local, staged, packages, orphaned, trespassed>>

CreatorStep(c) ==
  \/ FindDestinationFree(c) \/ Prepare(c) \/ CreateStaging(c)
  \/ TakeDigest(c) \/ Copy(c) \/ Compare(c) \/ Seal(c) \/ Install(c)
  \/ Fail(c) \/ CleanUp(c) \/ Kill(c) \/ Retry(c)

DeliveryInit == Init /\ PackagingInit

RunStudies ==
  /\ \/ \E r \in Run : (Room /\ Load(r)) \/ Step(r) \/ Throw(r)
     \/ \E f \in Editable, bytes \in Given : Edit(f, bytes)
  /\ UNCHANGED packVars

MakePackages ==
  /\ \E c \in Creator : (Room /\ Ask(c)) \/ CreatorStep(c)
  /\ UNCHANGED vars

DeliveryNext == RunStudies \/ MakePackages

DeliverySpec == DeliveryInit /\ [][DeliveryNext]_deliveryVars

-----------------------------------------------------------------------------
DeliveryTypeOK ==
  /\ TypeOK
  /\ step \in [Creator -> {"idle", "checking", "hashing", "creating", "copying", "installing",
                           "cleaning", "failed", "installed"}]
  /\ \A c \in Creator :
       /\ step[c] # "idle" => order[c] \in Order
       /\ DOMAIN digest[c] = File
       /\ step[c] = "copying" => copied[c] \in 0..Len(order[c].roles)
  /\ DOMAIN packages = Destination
  /\ orphaned \subseteq DOMAIN staged
  /\ trespassed \subseteq Destination

(* What stands at a destination is complete: exactly the files its         *)
(* manifest lists, with the bytes it lists, whoever replaced the sources   *)
(* while they were being copied and whatever was tried and killed before.  *)
(* Only two creators with one staging name between them can break this.    *)
PublishedIsWhole ==
  \A d \in Destination : packages[d] # None =>
    \/ packages[d].files = packages[d].lists /\ packages[d].files # <<>>
    \/ d \in trespassed

(* A staging directory is there only while a creator is at it, or after    *)
(* one was killed at it: a failed create leaves none.                      *)
NoLeftovers ==
  \A n \in DOMAIN staged : n \in orphaned \/ \E c \in Creator : Inside(c) /\ Name(c) = n
=============================================================================
