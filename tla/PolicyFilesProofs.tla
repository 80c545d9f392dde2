------------------------- MODULE PolicyFilesProofs -------------------------
(***************************************************************************)
(* Proofs about PolicyFiles, for any number of servers, any files and      *)
(* manifests and any number of republications and reviews.  What one       *)
(* command knows of the others is stated in three parts: what documents    *)
(* can come into being (SoundInv), what a gate that saw no difference has  *)
(* read (GateInv), and how far the inferring command has got (InferInv).   *)
(***************************************************************************)
EXTENDS PolicyFiles, TLAPS

-----------------------------------------------------------------------------
(* Types.                                                                  *)

Document == [form : {"absent", "torn", "full", "base", "none"},
             bound : Version \cup {Unbound}, approved : SUBSET Version]

InferState == [pc : {"idle", "server", "dump", "fill", "reproject", "refill", "done"},
               verb : {"infer", "fleet_infer"}, emit : {"full", "base"},
               target : [Server -> File], at : Server, doc : Document,
               status : [Server -> {"none", "ok", "skipped", "error"}],
               basis : [Server -> Version \cup {NotRead}], wrote : SUBSET File,
               exit : {"none", "ok", "bad input", "raised", "killed"}]

GateState == [pc : {"idle", "first", "second", "compare", "done"},
              verb : {"verify", "fleet_verify"},
              manifest : Version \cup {NotRead}, policy : Document,
              verdict : {"none", "pass", "rug_pull", "error"}]

TypeOK ==
    /\ published \in [Server -> Version]
    /\ file \in [File -> Document]
    /\ editor \in [file : SUBSET File, doc : Document]
    /\ changes \in Nat
    /\ infer \in InferState
    /\ gate \in GateState
    /\ differed \in BOOLEAN

LEMMA OneIsServer == 1 \in Server
  BY BoundsAssumption DEF Server

LEMMA SelectedServers == infer \in InferState => Selected \subseteq Server /\ 1 \in Selected
  BY OneIsServer DEF Selected, InferState

LEMMA Documents ==
    /\ Absent \in Document /\ Torn \in Document /\ NoDoc \in Document
    /\ \A v \in Version : \A a \in SUBSET Version : Full(v, a) \in Document
    /\ \A a \in SUBSET Version : Base(a) \in Document
  BY DEF Absent, Torn, NoDoc, Full, Base, Document

(* What the transitions between the servers of a batch leave alone.        *)
SameTask(i, j) ==
    /\ j \in InferState
    /\ j.verb = i.verb /\ j.emit = i.emit /\ j.target = i.target
    /\ j.doc = i.doc /\ j.basis = i.basis

LEMMA EnvelopeTask ==
    ASSUME infer \in InferState, NEW i \in InferState, i.verb = infer.verb,
           NEW status \in {"ok", "skipped", "error"}
    PROVE  SameTask(i, Envelope(i, status)) /\ SameTask(i, Failed(i, status))
<1> DEFINE j == [i EXCEPT !.status[i.at] = status]
<1>1. SameTask(i, j) /\ j.at = i.at
  BY DEF SameTask, InferState
<1>2. SameTask(j, AfterEnvelope(j))
  <2>1. CASE j.at + 1 \in Selected
    BY <1>1, <2>1, SelectedServers DEF AfterEnvelope, SameTask, InferState
  <2>2. CASE j.at + 1 \notin Selected /\ j.emit = "base" /\ j.verb = "fleet_infer"
    BY <1>1, <2>2, OneIsServer DEF AfterEnvelope, SameTask, InferState
  <2>3. CASE j.at + 1 \notin Selected /\ ~ (j.emit = "base" /\ j.verb = "fleet_infer")
    BY <1>1, <2>3 DEF AfterEnvelope, SameTask, InferState, exit_code
  <2>4. QED BY <2>1, <2>2, <2>3
<1>3. SameTask(i, Envelope(i, status))
  BY <1>1, <1>2 DEF SameTask, Envelope
<1>4. SameTask(i, Raised(i))
  BY DEF SameTask, Raised, InferState
<1>5. QED BY <1>3, <1>4 DEF Failed

LEMMA AfterReprojectTask ==
    ASSUME infer \in InferState, NEW i \in InferState
    PROVE  SameTask(i, AfterReproject(i)) /\ SameTask(i, Raised(i))
<1>1. CASE i.at + 1 \in Selected
  BY <1>1, SelectedServers DEF AfterReproject, SameTask, InferState, Raised
<1>2. CASE i.at + 1 \notin Selected
  BY <1>2 DEF AfterReproject, SameTask, InferState, Raised, exit_code
<1>3. QED BY <1>1, <1>2

-----------------------------------------------------------------------------
(* Documents.  Whoever writes a policy file writes a document whose        *)
(* approvals were made on the manifest it is bound to, if it is bound.     *)

Sound(doc) == doc.bound # Unbound => doc.approved \subseteq {doc.bound}

SoundInv ==
    /\ \A f \in File : Sound(file[f])
    /\ Sound(editor.doc) /\ Sound(infer.doc) /\ Sound(gate.policy)

DocInv == TypeOK /\ SoundInv

LEMMA SoundDocuments ==
    /\ Sound(Absent) /\ Sound(Torn) /\ Sound(NoDoc)
    /\ \A v \in Version : Sound(Full(v, {})) /\ Sound(Full(v, {v}))
    /\ \A a : Sound(Base(a))
  BY DEF Sound, Absent, Torn, NoDoc, Full, Base

(* What a step of the inferring command can do to the state.               *)
InferCommand ==
    \/ BeginInfer \/ InferOne \/ Dump \/ Fill \/ Reproject \/ Refill \/ Killed
GateCommand  == BeginGate \/ LoadManifest \/ LoadPolicy \/ Compare
World        == Publish \/ OpenReview \/ SaveReview

LEMMA StepCases == Step <=> InferCommand \/ GateCommand \/ World
  BY DEF Step, InferCommand, GateCommand, World

KeepsDocs ==
    /\ infer' \in InferState /\ file' \in [File -> Document]
    /\ infer'.verb = infer.verb /\ infer'.emit = infer.emit /\ infer'.target = infer.target
    /\ Sound(infer'.doc) /\ \A f \in File : Sound(file'[f])
    /\ Elsewhere

LEMMA InferredSound == DocInv => Inferred \in Document /\ Sound(Inferred)
<1> SUFFICES ASSUME DocInv PROVE Inferred \in Document /\ Sound(Inferred)
  OBVIOUS
<1>1. published[Current] \in Version
  BY DEF DocInv, TypeOK, InferState, Current
<1>2. QED
  BY <1>1, Documents, SoundDocuments DEF Inferred

LEMMA InferKeepsDocs == DocInv /\ InferCommand => KeepsDocs
<1> SUFFICES ASSUME DocInv, InferCommand PROVE KeepsDocs
  OBVIOUS
<1>t. /\ infer \in InferState /\ file \in [File -> Document]
      /\ published \in [Server -> Version] /\ Target \in File /\ Current \in Server
      /\ Sound(infer.doc) /\ \A f \in File : Sound(file[f])
  BY DEF DocInv, TypeOK, SoundInv, InferState, Target, Current
<1>1. CASE BeginInfer
  BY <1>1, <1>t DEF BeginInfer, KeepsDocs, InferState
<1>2. CASE InferOne
  <2>1. CASE InferOk /\ UNCHANGED file /\ Elsewhere
    <3>1. published[Current] \in Version
      BY <1>t
    <3>2. infer' \in InferState /\ infer'.doc = Inferred
      BY <2>1, <3>1, <1>t, InferredSound DEF InferOk, InferState, Current
    <3>3. infer'.verb = infer.verb /\ infer'.emit = infer.emit /\ infer'.target = infer.target
      BY <2>1, <1>t DEF InferOk, InferState
    <3>4. QED BY <2>1, <3>2, <3>3, <1>t, InferredSound DEF KeepsDocs
  <2>2. ASSUME NEW status \in {"skipped", "error"}, infer' = Failed(infer, status),
               UNCHANGED file, Elsewhere
        PROVE  KeepsDocs
    <3>1. SameTask(infer, infer')
      BY <2>2, <1>t, EnvelopeTask
    <3>2. QED BY <2>2, <3>1, <1>t DEF KeepsDocs, SameTask
  <2>3. QED BY <1>2, <2>1, <2>2 DEF InferOne
<1>3. CASE Dump
  <2>1. CASE infer' = [infer EXCEPT !.pc = "fill"] /\ file' = [file EXCEPT ![Target] = Torn]
    BY <1>3, <2>1, <1>t, Documents, SoundDocuments DEF Dump, KeepsDocs, InferState
  <2>2. CASE infer' = Failed(infer, "error") /\ UNCHANGED file
    <3>1. SameTask(infer, infer')
      BY <2>2, <1>t, EnvelopeTask
    <3>2. QED BY <1>3, <2>2, <3>1, <1>t DEF Dump, KeepsDocs, SameTask
  <2>3. QED BY <1>3, <2>1, <2>2 DEF Dump
<1>4. CASE Fill
  <2> DEFINE i == [infer EXCEPT !.wrote = @ \cup {Target}]
  <2>1. i \in InferState /\ SameTask(infer, i)
    BY <1>t DEF InferState, SameTask
  <2>2. CASE file' = [file EXCEPT ![Target] = infer.doc] /\ infer' = Envelope(i, "ok")
    <3>1. SameTask(i, infer')
      BY <2>1, <2>2, <1>t, EnvelopeTask DEF SameTask
    <3>2. infer.doc \in Document
      BY <1>t DEF InferState
    <3>3. QED BY <1>4, <2>1, <2>2, <3>1, <3>2, <1>t DEF Fill, KeepsDocs, SameTask
  <2>3. CASE infer' = Failed(infer, "error") /\ UNCHANGED file
    <3>1. SameTask(infer, infer')
      BY <2>3, <1>t, EnvelopeTask
    <3>2. QED BY <1>4, <2>3, <3>1, <1>t DEF Fill, KeepsDocs, SameTask
  <2>4. QED BY <1>4, <2>2, <2>3 DEF Fill
<1>5. CASE Reproject
  <2>1. CASE infer' = AfterReproject(infer) /\ UNCHANGED file
    BY <1>5, <2>1, <1>t, AfterReprojectTask DEF Reproject, KeepsDocs, SameTask
  <2>2. CASE infer' = Raised(infer) /\ UNCHANGED file
    BY <1>5, <2>2, <1>t, AfterReprojectTask DEF Reproject, KeepsDocs, SameTask
  <2>3. CASE /\ infer' = [infer EXCEPT !.pc = "refill", !.doc = Base(file[Target].approved)]
             /\ file' = [file EXCEPT ![Target] = Torn]
    <3>1. Base(file[Target].approved) \in Document
      BY <1>t, Documents DEF Document
    <3>2. infer' \in InferState /\ Sound(infer'.doc)
      BY <2>3, <3>1, <1>t, SoundDocuments DEF InferState
    <3>3. infer'.verb = infer.verb /\ infer'.emit = infer.emit /\ infer'.target = infer.target
      BY <2>3, <1>t DEF InferState
    <3>4. file' \in [File -> Document] /\ \A f \in File : Sound(file'[f])
      BY <2>3, <1>t, Documents, SoundDocuments
    <3>5. QED BY <1>5, <3>2, <3>3, <3>4 DEF Reproject, KeepsDocs
  <2>4. QED BY <1>5, <2>1, <2>2, <2>3 DEF Reproject, Readable
<1>6. CASE Refill
  <2>1. infer.doc \in Document
    BY <1>t DEF InferState
  <2>2. QED
    BY <1>6, <2>1, <1>t, AfterReprojectTask DEF Refill, KeepsDocs, SameTask
<1>7. CASE Killed
  BY <1>7, <1>t DEF Killed, KeepsDocs, InferState
<1>8. QED BY <1>1, <1>2, <1>3, <1>4, <1>5, <1>6, <1>7 DEF InferCommand

LEMMA GateKeepsDocs ==
    ASSUME DocInv, GateCommand
    PROVE  gate' \in GateState /\ Sound(gate'.policy) /\ gate'.verb = gate.verb /\ Aside
<1>t. /\ gate \in GateState /\ published[Gated] \in Version
      /\ GatedFile \in Document /\ Sound(GatedFile) /\ Sound(gate.policy)
  BY OneIsServer DEF DocInv, TypeOK, SoundInv, InferState, Gated, GatedFile
<1>1. CASE BeginGate
  BY <1>1, <1>t DEF BeginGate, GateState
<1>2. CASE LoadManifest
  BY <1>2, <1>t DEF LoadManifest, NextPc, GateState
<1>3. CASE LoadPolicy
  BY <1>3, <1>t DEF LoadPolicy, NextPc, GateState
<1>4. CASE Compare
  BY <1>4, <1>t DEF Compare, GateState
<1>5. QED BY <1>1, <1>2, <1>3, <1>4 DEF GateCommand

KeepsWorldTypes ==
    /\ published' \in [Server -> Version]
    /\ editor' \in [file : SUBSET File, doc : Document] /\ Sound(editor'.doc)
    /\ file' \in [File -> Document] /\ \A f \in File : Sound(file'[f])
    /\ changes' \in Nat
    /\ UNCHANGED <<infer, gate>>

LEMMA WorldKeepsDocs == DocInv /\ World => KeepsWorldTypes
<1> SUFFICES ASSUME DocInv, World PROVE KeepsWorldTypes
  OBVIOUS
<1>t. /\ published \in [Server -> Version] /\ file \in [File -> Document] /\ changes \in Nat
      /\ editor \in [file : SUBSET File, doc : Document]
      /\ Sound(editor.doc) /\ \A f \in File : Sound(file[f])
  BY DEF DocInv, TypeOK, SoundInv
<1>1. CASE Publish
  BY <1>1, <1>t DEF Publish, KeepsWorldTypes
<1>2. CASE OpenReview
  BY <1>2, <1>t DEF OpenReview, KeepsWorldTypes
<1>3. CASE SaveReview
  <2> DEFINE saved == [editor.doc EXCEPT !.approved = @ \cup ({editor.doc.bound} \ {Unbound})]
  <2>1. saved \in Document /\ Sound(saved)
    BY <1>t DEF Document, Sound
  <2>2. NoDoc \in Document /\ Sound(NoDoc)
    BY Documents, SoundDocuments
  <2>3. file' \in [File -> Document] /\ \A f \in File : Sound(file'[f])
    BY <1>3, <1>t, <2>1 DEF SaveReview
  <2>4. editor' \in [file : SUBSET File, doc : Document] /\ Sound(editor'.doc)
    BY <1>3, <2>2 DEF SaveReview
  <2>5. QED BY <1>3, <1>t, <2>3, <2>4 DEF SaveReview, KeepsWorldTypes
<1>4. QED BY <1>1, <1>2, <1>3 DEF World

LEMMA DocInit == Init => DocInv
<1> SUFFICES ASSUME Init PROVE DocInv
  OBVIOUS
<1>1. file \in [File -> Document] /\ \A f \in File : Sound(file[f])
  <2>1. \A v \in Version : Full(v, {v}) \in Document /\ Sound(Full(v, {v}))
    BY Documents, SoundDocuments
  <2>2. \A doc \in {Absent, Torn} \cup {Full(v, {v}) : v \in Version} :
           doc \in Document /\ Sound(doc)
    BY <2>1, Documents, SoundDocuments
  <2>3. QED BY <2>2 DEF Init
<1>2. infer \in InferState /\ infer.doc = NoDoc
  BY OneIsServer, Documents DEF Init, InferState
<1>3. gate \in GateState /\ gate.policy = NoDoc
  BY Documents DEF Init, GateState
<1>4. editor \in [file : SUBSET File, doc : Document] /\ editor.doc = NoDoc
  BY Documents DEF Init
<1>5. QED
  BY <1>1, <1>2, <1>3, <1>4, SoundDocuments DEF Init, DocInv, TypeOK, SoundInv

LEMMA DocNext == DocInv /\ [Next]_vars => DocInv'
<1> SUFFICES ASSUME DocInv, [Next]_vars PROVE DocInv'
  OBVIOUS
<1>1. CASE UNCHANGED vars
  BY <1>1 DEF vars, DocInv, TypeOK, SoundInv, Sound
<1>2. CASE Next
  <2>1. differed' \in BOOLEAN
    BY <1>2 DEF Next, Watch, DocInv, TypeOK
  <2>2. CASE InferCommand
    BY <2>1, <2>2, InferKeepsDocs DEF KeepsDocs, Elsewhere, DocInv, TypeOK, SoundInv, Sound
  <2>3. CASE GateCommand
    BY <2>1, <2>3, GateKeepsDocs DEF Aside, DocInv, TypeOK, SoundInv, Sound
  <2>4. CASE World
    BY <2>1, <2>4, WorldKeepsDocs DEF KeepsWorldTypes, DocInv, TypeOK, SoundInv, Sound
  <2>5. QED BY <1>2, <2>2, <2>3, <2>4, StepCases DEF Next
<1>3. QED BY <1>1, <1>2

(* The documents are well formed and sound, whatever is interleaved.       *)
THEOREM DocumentsAreSound == Spec => []DocInv
  BY DocInit, DocNext, PTL DEF Spec

-----------------------------------------------------------------------------
(* The gate.  As long as it has seen no difference, what it has read of    *)
(* either side is what is published and what is on disk now.               *)

InProgress   == gate.pc \in {"first", "second", "compare"}
HasRead(what) == \/ gate.pc = "compare"
                 \/ gate.pc = "second" /\ Order(gate.verb)[1] = what

GateInv ==
    /\ HasRead("manifest") => gate.manifest \in Version
    /\ InProgress /\ ~ differed =>
          /\ ~ Differs
          /\ HasRead("manifest") => gate.manifest = published[Gated]
          /\ HasRead("policy")   => gate.policy.bound = published[Gated]
    /\ gate.pc # "done" => gate.verdict = "none"

GatesInv == DocInv /\ GateInv /\ VerdictIsEarned

LEMMA GateInit == Init => GatesInv
  BY DocInit DEF Init, GatesInv, GateInv, VerdictIsEarned, InProgress, HasRead

(* A step of the others: it changes the manifest or the policy file, not   *)
(* both, so that a pair that agrees after it is the pair from before.      *)
LEMMA OthersKeepGate ==
    ASSUME GatesInv, DocInv', Next, InferCommand \/ World
    PROVE  GateInv' /\ VerdictIsEarned'
<1>1. gate' = gate /\ infer'.target[Gated] = infer.target[Gated]
  <2>1. CASE InferCommand
    BY <2>1, InferKeepsDocs DEF GatesInv, KeepsDocs, Elsewhere
  <2>2. CASE World
    BY <2>2, WorldKeepsDocs DEF GatesInv, KeepsWorldTypes
  <2>3. QED BY <2>1, <2>2
<1>2. published' = published \/ file' = file
  BY DEF InferCommand, World, BeginInfer, InferOne, Dump, Fill, Reproject, Refill, Killed,
         Elsewhere, Publish, OpenReview, SaveReview
<1>3. differed' = (differed \/ (InProgress /\ Differs'))
  BY <1>1 DEF Next, Watch, InProgress
<1>4. ASSUME InProgress, ~ differed' PROVE published'[Gated] = published[Gated] /\ ~ Differs'
  <2>1. ~ differed /\ ~ Differs /\ ~ Differs'
    BY <1>3, <1>4 DEF GatesInv, GateInv, DocInv, TypeOK
  <2>2. QED BY <1>1, <1>2, <2>1 DEF Differs, GatedFile
<1>5. differed => differed'
  BY <1>3
<1>6. GateInv'
  BY <1>1, <1>4, <1>5 DEF GatesInv, GateInv, InProgress, HasRead
<1>7. VerdictIsEarned'
  BY <1>1, <1>5 DEF GatesInv, VerdictIsEarned
<1>8. QED BY <1>6, <1>7

LEMMA GateStepKeepsGate ==
    ASSUME GatesInv, DocInv', Next, GateCommand
    PROVE  GateInv' /\ VerdictIsEarned'
<1>t. /\ gate \in GateState /\ gate' \in GateState /\ differed \in BOOLEAN
      /\ published[Gated] \in Version /\ Sound(gate.policy)
      /\ gate'.verb = gate.verb /\ Aside
  BY GateKeepsDocs, OneIsServer DEF GatesInv, DocInv, TypeOK, SoundInv, Gated
<1>1. Differs' = Differs /\ published' = published
  BY <1>t DEF Aside, Differs, GatedFile
<1>2. differed' = (differed \/ (gate'.pc \in {"first", "second", "compare"} /\ Differs))
  BY <1>1 DEF Next, Watch
<1>o. \/ Order(gate.verb)[1] = "manifest" /\ Order(gate.verb)[2] = "policy"
      \/ Order(gate.verb)[1] = "policy" /\ Order(gate.verb)[2] = "manifest"
  BY DEF Order
<1>3. CASE BeginGate
  BY <1>3, <1>t, <1>1, <1>2 DEF BeginGate, GateState, GatesInv, GateInv, VerdictIsEarned,
     InProgress, HasRead
<1>4. CASE LoadManifest
  BY <1>4, <1>t, <1>1, <1>2, <1>o DEF LoadManifest, Reading, NextPc, GateState, GatesInv, GateInv,
     VerdictIsEarned, InProgress, HasRead
<1>5. CASE LoadPolicy
  BY <1>5, <1>t, <1>1, <1>2, <1>o DEF LoadPolicy, Reading, NextPc, GateState, GatesInv, GateInv,
     VerdictIsEarned, InProgress, HasRead, Differs
<1>6. CASE Compare
  <2>1. gate'.pc = "done" /\ gate'.policy = gate.policy /\ gate'.manifest = gate.manifest
    BY <1>6, <1>t DEF Compare, GateState
  <2>2. GateInv'
    BY <2>1 DEF GateInv, InProgress, HasRead
  <2>3. gate.manifest \in Version /\ gate.manifest # Unbound
    BY <1>6, VersionAssumption DEF Compare, GatesInv, GateInv, HasRead
  <2>4. CASE gate.policy.bound = gate.manifest
    BY <1>6, <1>t, <2>1, <2>2, <2>3, <2>4 DEF Compare, GateState, Sound, VerdictIsEarned
  <2>5. CASE gate.policy.bound # gate.manifest
    <3>1. differed
      BY <1>6, <2>5 DEF Compare, GatesInv, GateInv, InProgress, HasRead
    <3>2. QED BY <1>6, <1>t, <1>2, <2>2, <2>5, <3>1 DEF Compare, GateState, VerdictIsEarned
  <2>6. QED BY <2>4, <2>5
<1>7. QED BY <1>3, <1>4, <1>5, <1>6 DEF GateCommand

LEMMA GateNext == GatesInv /\ [Next]_vars => GatesInv'
<1> SUFFICES ASSUME GatesInv, [Next]_vars PROVE GatesInv'
  OBVIOUS
<1>1. DocInv'
  BY DocNext DEF GatesInv
<1>2. CASE UNCHANGED vars
  BY <1>1, <1>2 DEF vars, GatesInv, GateInv, VerdictIsEarned, InProgress, HasRead,
     Differs, GatedFile
<1>3. CASE Next
  BY <1>1, <1>3, StepCases, OthersKeepGate, GateStepKeepsGate DEF GatesInv, Next
<1>4. QED BY <1>2, <1>3

(* A gate reports a rug pull only when policy and manifest differed at a   *)
(* moment of its command, and passes only what was approved, as far as it  *)
(* was approved, on the manifest it read, whatever infer, reviewers and    *)
(* servers do meanwhile.  (_cmd_verify, Fleet._load_contract)              *)
THEOREM VerdictsAreEarned == Spec => []VerdictIsEarned
<1>1. GatesInv => VerdictIsEarned
  BY DEF GatesInv
<1>2. QED BY <1>1, GateInit, GateNext, PTL DEF Spec

-----------------------------------------------------------------------------
(* The inferring command.  Where it is between its servers, and what an    *)
(* envelope or the second pass makes of that.                              *)

Working == {"server", "dump", "fill", "reproject", "refill"}

PlaceInv ==
    /\ infer.pc = "idle" => infer.at = 1 /\ infer.status = [s \in Server |-> "none"]
    /\ infer.pc \in Working => infer.at \in Selected
    /\ infer.pc \in {"dump", "fill"} => infer.basis[infer.at] # NotRead
    /\ infer.pc \in {"reproject", "refill"} => infer.emit = "base" /\ infer.verb = "fleet_infer"
    /\ infer.pc # "done" => infer.exit = "none"

LEMMA LastSelected ==
    ASSUME infer \in InferState, NEW i \in Selected, i + 1 \notin Selected
    PROVE  \A s \in Selected : s <= i
  BY BoundsAssumption DEF Selected, Server

NextServer(i, j)  == /\ j.pc = "server" /\ j.at = i.at + 1 /\ j.at \in Selected
                     /\ j.exit = i.exit
SecondPass(i, j)  == /\ j.pc = "reproject" /\ j.at = 1 /\ j.exit = i.exit
                     /\ i.emit = "base" /\ i.verb = "fleet_infer" /\ i.at + 1 \notin Selected
BatchEnds(i, j)   == /\ j.pc = "done" /\ j.exit = exit_code(j.status)
                     /\ ~ (i.emit = "base" /\ i.verb = "fleet_infer") /\ i.at + 1 \notin Selected

LEMMA EnvelopeResult ==
    ASSUME NEW i \in InferState, NEW status, NEW j, j = Envelope(i, status)
    PROVE  /\ j.status = [i.status EXCEPT ![i.at] = status]
           /\ NextServer(i, j) \/ SecondPass(i, j) \/ BatchEnds(i, j)
<1> DEFINE k == [i EXCEPT !.status[i.at] = status]
<1>1. /\ k.status = [i.status EXCEPT ![i.at] = status] /\ k.at = i.at
      /\ k.exit = i.exit /\ k.emit = i.emit /\ k.verb = i.verb
  BY DEF InferState
<1>2. CASE k.at + 1 \in Selected
  BY <1>1, <1>2 DEF Envelope, AfterEnvelope, NextServer, InferState
<1>3. CASE k.at + 1 \notin Selected /\ k.emit = "base" /\ k.verb = "fleet_infer"
  BY <1>1, <1>3 DEF Envelope, AfterEnvelope, SecondPass, InferState
<1>4. CASE k.at + 1 \notin Selected /\ ~ (k.emit = "base" /\ k.verb = "fleet_infer")
  BY <1>1, <1>4 DEF Envelope, AfterEnvelope, BatchEnds, InferState
<1>5. QED BY <1>2, <1>3, <1>4

LEMMA RaisedResult ==
    ASSUME NEW i \in InferState
    PROVE  Raised(i).pc = "done" /\ Raised(i).exit = "raised" /\ Raised(i).status = i.status
  BY DEF Raised, InferState

NextReprojected(i, j) == j.pc = "reproject" /\ j.at = i.at + 1 /\ j.at \in Selected
                         /\ j.exit = i.exit
ReprojectEnds(i, j)   == j.pc = "done" /\ j.exit = exit_code(j.status) /\ i.at + 1 \notin Selected

LEMMA AfterReprojectResult ==
    ASSUME NEW i \in InferState, NEW j, j = AfterReproject(i)
    PROVE  /\ j.status = i.status
           /\ NextReprojected(i, j) \/ ReprojectEnds(i, j)
<1>1. CASE i.at + 1 \in Selected
  BY <1>1 DEF AfterReproject, NextReprojected, InferState
<1>2. CASE i.at + 1 \notin Selected
  BY <1>2 DEF AfterReproject, ReprojectEnds, InferState
<1>3. QED BY <1>1, <1>2

(* What the steps of the command have in common.                           *)
LEMMA InferFacts ==
    ASSUME DocInv, InferCommand
    PROVE  /\ infer \in InferState /\ infer' \in InferState
           /\ infer'.verb = infer.verb /\ infer'.emit = infer.emit
           /\ infer'.target = infer.target /\ Selected' = Selected
           /\ published \in [Server -> Version] /\ file \in [File -> Document]
           /\ Current \in Server /\ Target \in File /\ Elsewhere
  BY InferKeepsDocs DEF KeepsDocs, DocInv, TypeOK, InferState, Selected, Current, Target

LEMMA PlaceInit == Init => PlaceInv
  BY DEF Init, PlaceInv, Working

LEMMA PlaceAfterEnvelope ==
    ASSUME PlaceInv, infer \in InferState, NEW i \in InferState, SameTask(infer, i),
           i.at = infer.at, i.exit = "none", NEW status \in {"ok", "skipped", "error"},
           infer' = Envelope(i, status), Selected' = Selected, infer'.basis = infer.basis
    PROVE  PlaceInv'
<1>1. SameTask(i, infer')
  BY EnvelopeTask DEF SameTask
<1>2. NextServer(i, infer') \/ SecondPass(i, infer') \/ BatchEnds(i, infer')
  BY EnvelopeResult
<1>3. 1 \in Selected
  BY SelectedServers
<1>4. QED
  BY <1>1, <1>2, <1>3 DEF PlaceInv, NextServer, SecondPass, BatchEnds, SameTask, Working

LEMMA PlaceNext == DocInv /\ PlaceInv /\ [Next]_vars => PlaceInv'
<1> SUFFICES ASSUME DocInv, PlaceInv, [Next]_vars PROVE PlaceInv'
  OBVIOUS
<1>1. CASE infer' = infer
  BY <1>1 DEF PlaceInv, Selected
<1>2. CASE InferCommand
  <2>t. /\ infer \in InferState /\ infer' \in InferState
        /\ infer'.verb = infer.verb /\ infer'.emit = infer.emit
        /\ Selected' = Selected /\ 1 \in Selected
        /\ published \in [Server -> Version] /\ Current \in Server
    BY <1>2, InferFacts, SelectedServers
  <2>e. SameTask(infer, infer)
    BY <2>t DEF SameTask
  <2>f. ASSUME NEW status \in {"skipped", "error"}, infer' = Failed(infer, status),
               infer.pc \in Working
        PROVE  PlaceInv'
    <3>1. CASE infer.verb = "infer"
      BY <2>f, <3>1, <2>t, RaisedResult DEF Failed, PlaceInv, Working
    <3>2. CASE infer.verb # "infer"
      <4>1. infer' = Envelope(infer, status) /\ infer.exit = "none"
        BY <2>f, <3>2 DEF Failed, PlaceInv, Working
      <4>2. infer'.basis = infer.basis
        BY <2>f, <2>t, EnvelopeTask DEF SameTask
      <4>3. QED BY <4>1, <4>2, <2>t, <2>e, PlaceAfterEnvelope
    <3>3. QED BY <3>1, <3>2
  <2>1. CASE BeginInfer
    BY <2>1, <2>t DEF BeginInfer, InferAt, PlaceInv, Working, InferState
  <2>2. CASE InferOne
    <3>1. CASE InferOk
      <4>1. published[Current] # NotRead
        BY <2>t, VersionAssumption
      <4>2. /\ infer'.pc = "dump" /\ infer'.at = infer.at /\ infer'.exit = infer.exit
            /\ infer'.basis[infer.at] = published[Current]
        BY <3>1, <2>t DEF InferOk, InferState, Current
      <4>3. infer.pc = "server"
        BY <2>2 DEF InferOne, InferAt
      <4>4. QED BY <4>1, <4>2, <4>3, <2>t DEF PlaceInv, Working
    <3>2. CASE \E status \in {"skipped", "error"} : infer' = Failed(infer, status)
      BY <2>2, <3>2, <2>f DEF InferOne, InferAt, Working
    <3>3. QED BY <2>2, <3>1, <3>2 DEF InferOne
  <2>3. CASE Dump
    <3>1. CASE infer' = [infer EXCEPT !.pc = "fill"]
      BY <2>3, <3>1, <2>t DEF Dump, InferAt, PlaceInv, Working, InferState
    <3>2. CASE infer' = Failed(infer, "error")
      BY <2>3, <3>2, <2>f DEF Dump, InferAt, Working
    <3>3. QED BY <2>3, <3>1, <3>2 DEF Dump
  <2>4. CASE Fill
    <3> DEFINE i == [infer EXCEPT !.wrote = @ \cup {Target}]
    <3>1. CASE infer' = Envelope(i, "ok")
      <4>1. i \in InferState /\ SameTask(infer, i) /\ i.at = infer.at /\ i.exit = "none"
        BY <2>4, <1>2, <2>t, InferFacts
           DEF Fill, InferAt, InferState, SameTask, PlaceInv
      <4>2. infer'.basis = infer.basis
        BY <3>1, <4>1, <2>t, EnvelopeTask DEF SameTask
      <4>3. QED BY <3>1, <4>1, <4>2, <2>t, PlaceAfterEnvelope
    <3>2. CASE infer' = Failed(infer, "error")
      BY <2>4, <3>2, <2>f DEF Fill, InferAt, Working
    <3>3. QED BY <2>4, <3>1, <3>2 DEF Fill
  <2>5. CASE Reproject
    <3>1. CASE infer' = AfterReproject(infer)
      <4>1. NextReprojected(infer, infer') \/ ReprojectEnds(infer, infer')
        BY <3>1, <2>t, AfterReprojectResult
      <4>2. QED BY <2>5, <4>1, <2>t DEF Reproject, InferAt, PlaceInv, Working,
                NextReprojected, ReprojectEnds
    <3>2. CASE infer' = Raised(infer)
      BY <3>2, <2>t, RaisedResult DEF PlaceInv, Working
    <3>3. CASE infer' = [infer EXCEPT !.pc = "refill", !.doc = Base(file[Target].approved)]
      BY <2>5, <3>3, <2>t DEF Reproject, InferAt, PlaceInv, Working, InferState
    <3>4. QED BY <2>5, <3>1, <3>2, <3>3 DEF Reproject, Readable
  <2>6. CASE Refill
    <3>1. CASE infer' = AfterReproject(infer)
      <4>1. NextReprojected(infer, infer') \/ ReprojectEnds(infer, infer')
        BY <3>1, <2>t, AfterReprojectResult
      <4>2. QED BY <2>6, <4>1, <2>t DEF Refill, InferAt, PlaceInv, Working,
                NextReprojected, ReprojectEnds
    <3>2. CASE infer' = Raised(infer)
      BY <3>2, <2>t, RaisedResult DEF PlaceInv, Working
    <3>3. QED BY <2>6, <3>1, <3>2 DEF Refill
  <2>7. CASE Killed
    BY <2>7, <2>t DEF Killed, PlaceInv, Working, InferState
  <2>8. QED BY <1>2, <2>1, <2>2, <2>3, <2>4, <2>5, <2>6, <2>7 DEF InferCommand
<1>3. CASE GateCommand \/ World
  BY <1>1, <1>3, GateKeepsDocs, WorldKeepsDocs DEF Aside, KeepsWorldTypes
<1>4. CASE UNCHANGED vars
  BY <1>1, <1>4 DEF vars
<1>5. QED BY <1>2, <1>3, <1>4, StepCases DEF Next

(* A command that writes full policies changes no file but those of the    *)
(* servers whose manifest it has read: skipped and failed servers keep     *)
(* their policy and its approvals.  (Fleet._infer_one)                     *)
THEOREM FailuresAreContained == Spec => FailuresKeepTheirPolicy
<1>1. ASSUME DocInv, PlaceInv, [Next]_vars, InferStep, infer.emit = "full",
             NEW f \in File, file'[f] # file[f]
      PROVE  ~ NotInferred(f)
  <2>1. InferCommand
    BY <1>1, StepCases, GateKeepsDocs, WorldKeepsDocs
       DEF Next, vars, InferStep, Aside, KeepsWorldTypes
  <2>2. Target \in File /\ file \in [File -> Document]
    BY <1>1, <2>1, InferFacts
  <2>3. infer.pc \in {"dump", "fill"}
    BY <1>1, <2>1 DEF InferCommand, BeginInfer, InferOne, Reproject, Refill, Killed, Dump, Fill,
       InferAt, PlaceInv
  <2>4. f = Target
    BY <1>1, <2>1, <2>2, <2>3 DEF InferCommand, BeginInfer, InferOne, Reproject, Refill, Killed,
       Dump, Fill, InferAt
  <2>5. infer.at \in Selected /\ infer.basis[infer.at] # NotRead
    BY <1>1, <2>3 DEF PlaceInv, Working
  <2>6. QED BY <2>4, <2>5 DEF NotInferred, Target, Current
<1>2. DocInv /\ PlaceInv /\ [Next]_vars =>
        [InferStep /\ infer.emit = "full" =>
            \A f \in File : file'[f] # file[f] => ~ NotInferred(f)]_vars
  BY <1>1
<1>3. QED
  BY <1>2, DocInit, DocNext, PlaceInit, PlaceNext, PTL DEF Spec, FailuresKeepTheirPolicy

-----------------------------------------------------------------------------
(* The outcome of a batch nobody interferes with.  In the first pass the   *)
(* file of a server that is done holds what was written for it; in the     *)
(* second, that or its projection, and the projection once the pass has    *)
(* come by.                                                                *)

DoneLast(s)  == s \in Selected /\ infer.status[s] = "ok" /\ LastInto(s)
Written(s)   == IF infer.verb = "infer" /\ infer.emit = "base" THEN Base({})
                ELSE Full(infer.basis[s], {})
Asked(s)     == IF infer.emit = "full" THEN Full(infer.basis[s], {}) ELSE Base({})
Passed(s)    == \E t \in Selected : t < infer.at /\ infer.target[t] = infer.target[s]

FirstPassInv ==
    /\ infer.pc \in {"server", "dump", "fill"} =>
          \A s \in Selected : /\ s >= infer.at => infer.status[s] = "none"
                              /\ DoneLast(s) => file[infer.target[s]] = Written(s)
    /\ infer.pc \in {"dump", "fill"} => infer.doc = Written(infer.at)

SecondPassInv ==
    /\ infer.pc \in {"reproject", "refill"} => \A s \in Selected :
          DoneLast(s) /\ ~ (infer.pc = "refill" /\ infer.target[s] = Target) =>
              /\ file[infer.target[s]] \in {Written(s), Base({})}
              /\ Passed(s) => file[infer.target[s]] = Base({})
    /\ infer.pc = "refill" => \A s \in Selected :
          DoneLast(s) /\ infer.target[s] = Target => infer.doc = Base({})

EndInv ==
    /\ infer.exit = "ok" => \A s \in Selected : infer.status[s] = "ok"
    /\ infer.exit \in {"ok", "bad input"} =>
          \A s \in Selected : DoneLast(s) => file[infer.target[s]] = Asked(s)

OutcomeInv == changes = 0 => editor.file = {} /\ FirstPassInv /\ SecondPassInv /\ EndInv

BatchInv == DocInv /\ PlaceInv /\ OutcomeInv

LEMMA OutcomeInit == Init => OutcomeInv
<1>1. Init => infer.pc = "idle" /\ infer.exit = "none" /\ editor.file = {}
  BY DEF Init
<1>2. QED BY <1>1 DEF OutcomeInv, FirstPassInv, SecondPassInv, EndInv

(* What is asked for, by the end of the pass that ends the batch.          *)
LEMMA AskedIsWritten ==
    ASSUME infer \in InferState, ~ (infer.emit = "base" /\ infer.verb = "fleet_infer"), NEW s
    PROVE  Asked(s) = Written(s)
  BY DEF Asked, Written, InferState

(* The server at hand is filed with a status, its file is in order.        *)
LEMMA OutcomeAfterEnvelope ==
    ASSUME DocInv, PlaceInv, infer.pc \in {"server", "dump", "fill"},
           infer' \in InferState, infer'.verb = infer.verb, infer'.emit = infer.emit,
           infer'.target = infer.target, infer'.basis = infer.basis,
           NEW status \in {"ok", "skipped", "error"},
           infer'.status = [infer.status EXCEPT ![infer.at] = status],
           NextServer(infer, infer') \/ SecondPass(infer, infer') \/ BatchEnds(infer, infer'),
           \A s \in Selected : s >= infer.at => infer.status[s] = "none",
           \A s \in Selected : infer.status[s] = "ok" /\ LastInto(s) =>
               file'[infer.target[s]] = Written(s),
           status = "ok" => file'[Target] = Written(infer.at)
    PROVE  FirstPassInv' /\ SecondPassInv' /\ EndInv'
<1>t. /\ infer \in InferState /\ infer.at \in Selected /\ infer.exit = "none"
      /\ Selected \subseteq Server /\ Server \subseteq Nat
      /\ Selected' = Selected /\ \A s : LastInto(s)' <=> LastInto(s)
  BY SelectedServers DEF DocInv, TypeOK, PlaceInv, Working, Selected, Server, LastInto
<1>w. \A s : Written(s)' = Written(s) /\ Asked(s)' = Asked(s)
  BY DEF Written, Asked
<1>1. \A s \in Selected : infer'.status[s] = IF s = infer.at THEN status ELSE infer.status[s]
  BY <1>t DEF InferState
<1>2. \A s \in Selected : DoneLast(s)' => file'[infer.target[s]] = Written(s)
  BY <1>1, <1>t DEF DoneLast, Target, Current
<1>3. CASE NextServer(infer, infer')
  <2>1. ASSUME NEW s \in Selected, s >= infer'.at PROVE infer'.status[s] = "none"
    <3>1. s \in Nat /\ infer.at \in Nat /\ infer'.at = infer.at + 1
      BY <1>3, <1>t DEF NextServer
    <3>2. s >= infer.at /\ s # infer.at
      BY <2>1, <3>1
    <3>3. QED BY <1>1, <3>2
  <2>2. infer'.pc = "server" /\ infer'.exit = "none"
    BY <1>3, <1>t DEF NextServer
  <2>3. FirstPassInv'
    BY <2>1, <2>2, <1>2, <1>t, <1>w DEF FirstPassInv
  <2>4. SecondPassInv' /\ EndInv'
    BY <2>2 DEF SecondPassInv, EndInv
  <2>5. QED BY <2>3, <2>4
<1>4. CASE SecondPass(infer, infer')
  <2>1. infer'.pc = "reproject" /\ infer'.at = 1 /\ infer'.exit = "none"
    BY <1>4, <1>t DEF SecondPass
  <2>2. \A s \in Selected : ~ Passed(s)'
    BY <2>1, <1>t DEF Passed, Server
  <2>3. SecondPassInv'
    BY <2>1, <2>2, <1>2, <1>t, <1>w DEF SecondPassInv
  <2>4. FirstPassInv' /\ EndInv'
    BY <2>1 DEF FirstPassInv, EndInv
  <2>5. QED BY <2>3, <2>4
<1>5. CASE BatchEnds(infer, infer')
  <2>1. infer'.pc = "done" /\ infer'.exit = exit_code(infer'.status)
    BY <1>5 DEF BatchEnds
  <2>2. infer'.exit = "ok" => \A s \in Selected : infer'.status[s] = "ok"
    BY <2>1 DEF exit_code
  <2>3. \A s : Asked(s) = Written(s)
    BY <1>5, <1>t, AskedIsWritten DEF BatchEnds
  <2>4. EndInv'
    BY <2>2, <2>3, <1>2, <1>t, <1>w DEF EndInv
  <2>5. FirstPassInv' /\ SecondPassInv'
    BY <2>1 DEF FirstPassInv, SecondPassInv
  <2>6. QED BY <2>4, <2>5
<1>6. QED BY <1>3, <1>4, <1>5

(* A command that is over without a verdict owes nothing.                  *)
LEMMA OutcomeOver ==
    ASSUME infer'.pc = "done", infer'.exit \notin {"ok", "bad input"}
    PROVE  FirstPassInv' /\ SecondPassInv' /\ EndInv'
  BY DEF FirstPassInv, SecondPassInv, EndInv

(* The second pass goes on from the server at hand, or ends.               *)
LEMMA OutcomeAfterReproject ==
    ASSUME DocInv, PlaceInv, infer.pc \in {"reproject", "refill"},
           infer' \in InferState, infer'.verb = infer.verb, infer'.emit = infer.emit,
           infer'.target = infer.target, infer'.basis = infer.basis,
           infer'.status = infer.status,
           NextReprojected(infer, infer') \/ ReprojectEnds(infer, infer'),
           \A s \in Selected : DoneLast(s) =>
               /\ file'[infer.target[s]] \in {Written(s), Base({})}
               /\ Passed(s) \/ infer.target[s] = Target => file'[infer.target[s]] = Base({})
    PROVE  FirstPassInv' /\ SecondPassInv' /\ EndInv'
<1>t. /\ infer \in InferState /\ infer.at \in Selected /\ infer.exit = "none"
      /\ infer.emit = "base" /\ Selected \subseteq Nat
      /\ Selected' = Selected
  BY SelectedServers DEF DocInv, TypeOK, PlaceInv, Working, Selected, Server
<1>d. \A s : /\ DoneLast(s)' <=> DoneLast(s)
             /\ Written(s)' = Written(s) /\ Asked(s)' = Base({})
  BY <1>t DEF DoneLast, LastInto, Written, Asked
<1>1. CASE NextReprojected(infer, infer')
  <2>1. infer'.pc = "reproject" /\ infer'.at = infer.at + 1 /\ infer'.exit = "none"
    BY <1>1, <1>t DEF NextReprojected
  <2>2. \A s \in Selected : Passed(s)' => Passed(s) \/ infer.target[s] = Target
    <3>1. SUFFICES ASSUME NEW s \in Selected, NEW t \in Selected, t < infer.at + 1,
                          infer.target[t] = infer.target[s]
                   PROVE  Passed(s) \/ infer.target[s] = Target
      BY <2>1, <1>t DEF Passed
    <3>2. t < infer.at \/ t = infer.at
      BY <3>1, <1>t
    <3>3. QED BY <3>1, <3>2 DEF Passed, Target, Current
  <2>3. SecondPassInv'
    BY <2>1, <2>2, <1>t, <1>d DEF SecondPassInv
  <2>4. FirstPassInv' /\ EndInv'
    BY <2>1 DEF FirstPassInv, EndInv
  <2>5. QED BY <2>3, <2>4
<1>2. CASE ReprojectEnds(infer, infer')
  <2>1. infer'.pc = "done" /\ infer'.exit = exit_code(infer'.status)
    BY <1>2 DEF ReprojectEnds
  <2>2. \A s \in Selected : Passed(s) \/ infer.target[s] = Target
    <3>1. SUFFICES ASSUME NEW s \in Selected PROVE Passed(s) \/ infer.target[s] = Target
      OBVIOUS
    <3>2. s <= infer.at
      BY <1>2, <1>t, LastSelected DEF ReprojectEnds
    <3>3. s < infer.at \/ s = infer.at
      BY <3>2, <1>t
    <3>4. QED BY <3>3 DEF Passed, Target, Current
  <2>3. EndInv'
    BY <2>1, <2>2, <1>t, <1>d DEF EndInv, exit_code
  <2>4. FirstPassInv' /\ SecondPassInv'
    BY <2>1 DEF FirstPassInv, SecondPassInv
  <2>5. QED BY <2>3, <2>4
<1>3. QED BY <1>1, <1>2

(* In the first pass nothing is written into the file of a server that is  *)
(* done and whose file no later server has.                                *)
LEMMA DoneElsewhere ==
    ASSUME DocInv, PlaceInv, FirstPassInv, infer.pc \in {"server", "dump", "fill"},
           NEW s \in Selected, infer.status[s] = "ok", LastInto(s)
    PROVE  infer.target[s] # Target /\ s # infer.at
<1>1. infer.at \in Selected /\ infer.at \in Nat /\ s \in Nat
  BY SelectedServers DEF DocInv, TypeOK, PlaceInv, Working, Server
<1>2. ~ (s >= infer.at)
  BY DEF FirstPassInv
<1>3. infer.at > s
  BY <1>1, <1>2
<1>4. QED BY <1>1, <1>3 DEF LastInto, Target, Current

LEMMA SecondPassForms ==
    ASSUME DocInv, PlaceInv, SecondPassInv, infer.pc = "reproject",
           NEW s \in Selected, DoneLast(s), infer.target[s] = Target
    PROVE  Readable(file[Target]) /\ file[Target].approved = {}
<1>1. infer.verb # "infer" /\ file[Target] \in {Written(s), Base({})}
  BY DEF PlaceInv, SecondPassInv
<1>2. QED BY <1>1 DEF Written, Full, Base, Readable

LEMMA OutcomeInferStep ==
    ASSUME BatchInv, InferCommand, changes = 0
    PROVE  FirstPassInv' /\ SecondPassInv' /\ EndInv'
<1>t. /\ infer \in InferState /\ infer' \in InferState
      /\ infer'.verb = infer.verb /\ infer'.emit = infer.emit /\ infer'.target = infer.target
      /\ Selected' = Selected /\ 1 \in Selected /\ Selected \subseteq Server
      /\ published \in [Server -> Version] /\ file \in [File -> Document]
      /\ Current \in Server /\ Target \in File
      /\ DocInv /\ PlaceInv /\ FirstPassInv /\ SecondPassInv /\ EndInv
  BY InferFacts, SelectedServers DEF BatchInv, OutcomeInv
<1>f. ASSUME NEW status \in {"skipped", "error"}, infer' = Failed(infer, status),
             UNCHANGED file, infer.pc \in {"server", "dump", "fill"}
      PROVE  FirstPassInv' /\ SecondPassInv' /\ EndInv'
  <2>1. CASE infer.verb = "infer"
    BY <1>f, <2>1, <1>t, RaisedResult, OutcomeOver DEF Failed
  <2>2. CASE infer.verb # "infer"
    <3>1. infer' = Envelope(infer, status)
      BY <1>f, <2>2 DEF Failed
    <3>2. infer'.basis = infer.basis
      BY <3>1, <1>t, EnvelopeTask DEF SameTask
    <3>3. /\ infer'.status = [infer.status EXCEPT ![infer.at] = status]
          /\ \/ NextServer(infer, infer') \/ SecondPass(infer, infer')
             \/ BatchEnds(infer, infer')
      BY <3>1, <1>t, EnvelopeResult
    <3>4. \A s \in Selected : s >= infer.at => infer.status[s] = "none"
      BY <1>f, <1>t DEF FirstPassInv
    <3>5. \A s \in Selected : infer.status[s] = "ok" /\ LastInto(s) =>
             file'[infer.target[s]] = Written(s)
      BY <1>f, <1>t DEF FirstPassInv, DoneLast
    <3>6. QED BY <1>f, <3>2, <3>3, <3>4, <3>5, <1>t, OutcomeAfterEnvelope
  <2>3. QED BY <2>1, <2>2
<1>1. CASE BeginInfer
  <2>1. infer.at = 1 /\ infer.exit = "none" /\ \A s \in Selected : infer.status[s] = "none"
    BY <1>1, <1>t DEF BeginInfer, InferAt, PlaceInv
  <2>2. \A s \in Selected : infer'.status[s] = "none" /\ ~ DoneLast(s)'
    BY <1>1, <2>1, <1>t DEF BeginInfer, InferState, DoneLast
  <2>3. infer'.pc \in {"server", "done"} /\ infer'.exit # "ok"
    BY <1>1, <2>1, <1>t DEF BeginInfer, InferState
  <2>4. QED BY <2>2, <2>3, <1>t DEF FirstPassInv, SecondPassInv, EndInv
<1>2. CASE InferOne
  <2>1. CASE InferOk /\ UNCHANGED file
    <3>1. /\ infer'.pc = "dump" /\ infer'.at = infer.at /\ infer'.exit = infer.exit
          /\ infer'.status = infer.status /\ infer'.doc = Inferred
          /\ infer'.basis = [infer.basis EXCEPT ![infer.at] = published[infer.at]]
          /\ infer.pc = "server" /\ infer.exit = "none"
      BY <1>2, <2>1, <1>t DEF InferOne, InferAt, InferOk, InferState, Current, PlaceInv
    <3>2. Inferred = Written(infer.at)'
      BY <3>1, <1>t DEF Inferred, Written, Current, InferState
    <3>3. \A s \in Selected : DoneLast(s)' =>
             file'[infer'.target[s]] = Written(s)' /\ DoneLast(s)
      <4>1. SUFFICES ASSUME NEW s \in Selected, DoneLast(s)'
                     PROVE  file'[infer'.target[s]] = Written(s)' /\ DoneLast(s)
        OBVIOUS
      <4>2. DoneLast(s)
        BY <4>1, <3>1, <1>t DEF DoneLast, LastInto
      <4>3. s # infer.at
        BY <4>2, <3>1, <1>t, DoneElsewhere DEF DoneLast
      <4>4. Written(s)' = Written(s)
        BY <4>3, <3>1, <1>t DEF Written, InferState
      <4>5. QED BY <2>1, <4>2, <4>4, <3>1, <1>t DEF FirstPassInv
    <3>4. FirstPassInv'
      BY <3>1, <3>2, <3>3, <1>t DEF FirstPassInv
    <3>5. SecondPassInv' /\ EndInv'
      BY <3>1 DEF SecondPassInv, EndInv
    <3>6. QED BY <3>4, <3>5
  <2>2. CASE UNCHANGED file /\
             \E status \in {"skipped", "error"} : infer' = Failed(infer, status)
    BY <1>2, <2>2, <1>f DEF InferOne, InferAt
  <2>3. QED BY <1>2, <2>1, <2>2 DEF InferOne
<1>3. CASE Dump
  <2>1. CASE infer' = [infer EXCEPT !.pc = "fill"] /\ file' = [file EXCEPT ![Target] = Torn]
    <3>1. /\ infer'.pc = "fill" /\ infer'.at = infer.at /\ infer'.exit = infer.exit
          /\ infer'.status = infer.status /\ infer'.doc = infer.doc
          /\ infer'.basis = infer.basis /\ infer.pc = "dump" /\ infer.exit = "none"
      BY <1>3, <2>1, <1>t DEF Dump, InferAt, InferState, PlaceInv
    <3>2. \A s : (DoneLast(s)' <=> DoneLast(s)) /\ Written(s)' = Written(s)
      BY <3>1, <1>t DEF DoneLast, LastInto, Written
    <3>3. \A s \in Selected : DoneLast(s) => file'[infer.target[s]] = Written(s)
      <4>1. SUFFICES ASSUME NEW s \in Selected, DoneLast(s)
                     PROVE  file'[infer.target[s]] = Written(s)
        OBVIOUS
      <4>2. infer.target[s] # Target
        BY <4>1, <3>1, <1>t, DoneElsewhere DEF DoneLast
      <4>3. file[infer.target[s]] = Written(s)
        BY <4>1, <3>1, <1>t DEF FirstPassInv
      <4>4. infer.target[s] \in File
        BY <1>t DEF InferState
      <4>5. QED BY <2>1, <4>2, <4>3, <4>4, <1>t
    <3>4. FirstPassInv'
      BY <3>1, <3>2, <3>3, <1>t DEF FirstPassInv
    <3>5. SecondPassInv' /\ EndInv'
      BY <3>1 DEF SecondPassInv, EndInv
    <3>6. QED BY <3>4, <3>5
  <2>2. CASE infer' = Failed(infer, "error") /\ UNCHANGED file
    BY <1>3, <2>2, <1>f DEF Dump, InferAt
  <2>3. QED BY <1>3, <2>1, <2>2 DEF Dump
<1>4. CASE Fill
  <2> DEFINE i == [infer EXCEPT !.wrote = @ \cup {Target}]
  <2>1. CASE file' = [file EXCEPT ![Target] = infer.doc] /\ infer' = Envelope(i, "ok")
    <3>1. /\ i \in InferState /\ SameTask(infer, i) /\ i.at = infer.at
          /\ i.exit = infer.exit /\ i.status = infer.status /\ infer.pc = "fill"
      BY <1>4, <1>t DEF Fill, InferAt, InferState, SameTask
    <3>2. infer'.basis = infer.basis
      BY <2>1, <3>1, <1>t, EnvelopeTask DEF SameTask
    <3> HIDE DEF i
    <3>3. /\ infer'.status = [infer.status EXCEPT ![infer.at] = "ok"]
          /\ NextServer(i, infer') \/ SecondPass(i, infer') \/ BatchEnds(i, infer')
      BY <2>1, <3>1, EnvelopeResult
    <3>4. NextServer(infer, infer') \/ SecondPass(infer, infer') \/ BatchEnds(infer, infer')
      BY <3>1, <3>3 DEF NextServer, SecondPass, BatchEnds, SameTask
    <3>5. file'[Target] = Written(infer.at)
      BY <2>1, <3>1, <1>t DEF FirstPassInv
    <3>6. \A s \in Selected : infer.status[s] = "ok" /\ LastInto(s) =>
             file'[infer.target[s]] = Written(s)
      <4>1. SUFFICES ASSUME NEW s \in Selected, infer.status[s] = "ok", LastInto(s)
                     PROVE  file'[infer.target[s]] = Written(s)
        OBVIOUS
      <4>2. infer.target[s] # Target
        BY <4>1, <3>1, <1>t, DoneElsewhere
      <4>3. file[infer.target[s]] = Written(s)
        BY <4>1, <3>1, <1>t DEF FirstPassInv, DoneLast
      <4>4. infer.target[s] \in File
        BY <1>t DEF InferState
      <4>5. QED BY <2>1, <4>2, <4>3, <4>4, <1>t
    <3>7. \A s \in Selected : s >= infer.at => infer.status[s] = "none"
      BY <3>1, <1>t DEF FirstPassInv
    <3>8. QED BY <3>1, <3>2, <3>3, <3>4, <3>5, <3>6, <3>7, <1>t, OutcomeAfterEnvelope
  <2>2. CASE infer' = Failed(infer, "error") /\ UNCHANGED file
    BY <1>4, <2>2, <1>f DEF Fill, InferAt
  <2>3. QED BY <1>4, <2>1, <2>2 DEF Fill
<1>5. CASE Reproject
  <2>0. infer.pc = "reproject" /\ infer.exit = "none"
    BY <1>5 DEF Reproject, InferAt, PlaceInv, BatchInv
  <2>p. \A s \in Selected : DoneLast(s) =>
           /\ file[infer.target[s]] \in {Written(s), Base({})}
           /\ Passed(s) => file[infer.target[s]] = Base({})
    BY <2>0, <1>t DEF SecondPassInv
  <2>1. CASE /\ file[Target].form = "absent" /\ infer' = AfterReproject(infer)
             /\ UNCHANGED file
    <3>1. /\ infer'.status = infer.status
          /\ NextReprojected(infer, infer') \/ ReprojectEnds(infer, infer')
      BY <2>1, <1>t, AfterReprojectResult
    <3>2. infer'.basis = infer.basis
      BY <2>1, <1>t, AfterReprojectTask DEF SameTask
    <3>3. \A s \in Selected : DoneLast(s) => infer.target[s] # Target
      BY <2>0, <2>1, <1>t, SecondPassForms DEF Readable
    <3>4. QED BY <2>0, <2>1, <2>p, <3>1, <3>2, <3>3, <1>t, OutcomeAfterReproject
  <2>2. CASE infer' = Raised(infer)
    BY <2>2, <1>t, RaisedResult, OutcomeOver
  <2>3. CASE /\ infer' = [infer EXCEPT !.pc = "refill", !.doc = Base(file[Target].approved)]
             /\ file' = [file EXCEPT ![Target] = Torn]
    <3>1. /\ infer'.pc = "refill" /\ infer'.at = infer.at /\ infer'.exit = infer.exit
          /\ infer'.status = infer.status /\ infer'.basis = infer.basis
          /\ infer'.doc = Base(file[Target].approved)
      BY <2>3, <1>t DEF InferState
    <3>2. \A s \in Selected : DoneLast(s) /\ infer.target[s] = Target => infer'.doc = Base({})
      BY <2>0, <3>1, <1>t, SecondPassForms
    <3>3. \A s \in Selected : infer.target[s] # Target =>
             file'[infer.target[s]] = file[infer.target[s]]
      BY <2>3, <1>t DEF InferState
    <3>4. SecondPassInv'
      <4>1. \A s \in Selected : DoneLast(s)' /\ infer'.target[s] # Target' =>
               /\ file'[infer'.target[s]] \in {Written(s)', Base({})}
               /\ Passed(s)' => file'[infer'.target[s]] = Base({})
        BY <2>p, <3>1, <3>3, <1>t DEF DoneLast, LastInto, Written, Passed, Target, Current
      <4>2. \A s \in Selected : DoneLast(s)' /\ infer'.target[s] = Target' =>
               infer'.doc = Base({})
        BY <3>1, <3>2, <1>t DEF DoneLast, LastInto, Target, Current
      <4>3. QED BY <4>1, <4>2, <3>1, <1>t DEF SecondPassInv
    <3>5. FirstPassInv' /\ EndInv'
      BY <2>0, <3>1 DEF FirstPassInv, EndInv
    <3>6. QED BY <3>4, <3>5
  <2>4. QED BY <1>5, <2>1, <2>2, <2>3 DEF Reproject
<1>6. CASE Refill
  <2>0. infer.pc = "refill"
    BY <1>6 DEF Refill, InferAt
  <2>1. CASE infer' = AfterReproject(infer) /\ file' = [file EXCEPT ![Target] = infer.doc]
    <3>1. /\ infer'.status = infer.status
          /\ NextReprojected(infer, infer') \/ ReprojectEnds(infer, infer')
      BY <2>1, <1>t, AfterReprojectResult
    <3>2. infer'.basis = infer.basis
      BY <2>1, <1>t, AfterReprojectTask DEF SameTask
    <3>3. \A s \in Selected : infer.target[s] # Target =>
             file'[infer.target[s]] = file[infer.target[s]]
      BY <2>1, <1>t DEF InferState
    <3>4. \A s \in Selected : DoneLast(s) /\ infer.target[s] = Target =>
             file'[infer.target[s]] = Base({})
      BY <2>0, <2>1, <1>t DEF SecondPassInv
    <3>5. \A s \in Selected : DoneLast(s) =>
             /\ file'[infer.target[s]] \in {Written(s), Base({})}
             /\ Passed(s) \/ infer.target[s] = Target => file'[infer.target[s]] = Base({})
      BY <2>0, <3>3, <3>4, <1>t DEF SecondPassInv
    <3>6. QED BY <2>0, <3>1, <3>2, <3>5, <1>t, OutcomeAfterReproject
  <2>2. CASE infer' = Raised(infer)
    BY <2>2, <1>t, RaisedResult, OutcomeOver
  <2>3. QED BY <1>6, <2>1, <2>2 DEF Refill
<1>7. CASE Killed
  BY <1>7, <1>t, OutcomeOver DEF Killed, InferState
<1>8. QED BY <1>1, <1>2, <1>3, <1>4, <1>5, <1>6, <1>7 DEF InferCommand

LEMMA OutcomeNext == BatchInv /\ [Next]_vars => OutcomeInv'
<1> SUFFICES ASSUME BatchInv, [Next]_vars, changes' = 0
             PROVE  editor'.file = {} /\ FirstPassInv' /\ SecondPassInv' /\ EndInv'
  BY DEF OutcomeInv
<1>1. CASE InferCommand
  BY <1>1, InferFacts, OutcomeInferStep DEF BatchInv, OutcomeInv, Elsewhere
<1>2. CASE GateCommand \/ UNCHANGED vars
  <2>1. UNCHANGED <<published, file, editor, changes, infer>>
    BY <1>2, GateKeepsDocs DEF BatchInv, Aside, vars
  <2>2. QED
    BY <2>1 DEF BatchInv, OutcomeInv, FirstPassInv, SecondPassInv, EndInv, DoneLast, LastInto,
       Written, Asked, Passed, Selected, Target, Current
<1>3. CASE World
  <2>1. changes \in Nat
    BY DEF BatchInv, DocInv, TypeOK
  <2>2. SaveReview /\ changes = 0
    BY <1>3, <2>1 DEF World, Publish, OpenReview, SaveReview
  <2>3. QED BY <2>2 DEF SaveReview, BatchInv, OutcomeInv
<1>4. QED BY <1>1, <1>2, <1>3, StepCases DEF Next

(* When nobody interferes, every server an inferring command reports as ok *)
(* has a policy inferred from the manifest that was read, bound to it and  *)
(* in the form asked for, unless a later server has the same file.         *)
(* (Fleet._infer_one, _cmd_fleet_infer, _reproject_written_base)           *)
THEOREM BatchLeavesItsPolicies == Spec => []InferLeavesItsPolicy
<1>1. BatchInv => InferLeavesItsPolicy
  BY DEF BatchInv, OutcomeInv, EndInv, DoneLast, Asked, InferLeavesItsPolicy
<1>2. Init => BatchInv
  BY DocInit, PlaceInit, OutcomeInit DEF BatchInv
<1>3. BatchInv /\ [Next]_vars => BatchInv'
  BY DocNext, PlaceNext, OutcomeNext DEF BatchInv
<1>4. QED BY <1>1, <1>2, <1>3, PTL DEF Spec
=============================================================================
