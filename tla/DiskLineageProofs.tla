------------------------- MODULE DiskLineageProofs -------------------------
(***************************************************************************)
(* For any number of VMs, disks, units and writes, and with calls failing  *)
(* halfway: where the director attaches one disk at a time, the fixed hint *)
(* is right on every VM on which no call has failed.  The argument: on     *)
(* such a VM the director's belief, /tmp/env.json and the VM's iso agree,  *)
(* and no unit but the first has a device.  That no child in use loses its *)
(* parent needs no such limit: attached once, a disk has one child.        *)
(***************************************************************************)
EXTENDS DiskLineage, FiniteSetTheorems, TLAPS

OneUp == \A v, w \in VMs : vm[v] = "up" /\ vm[w] = "up" => v = w

Attached == \A d \in Disks : where[d] # Nowhere =>
  vm[where[d]] = "up" /\ d \in disks /\ attaches[d] # 0

Untouched == \A d \in Disks : attaches[d] = 0 =>
  last[d] = 0 /\ d \notin envJson /\ \A v \in VMs : d \notin iso[v]

NotBorn == \A v \in VMs : vm[v] = "none" => iso[v] = {}

Agreed == \A v \in VMs : Sound(v) => iso[v] = envJson /\ envJson = AttachedTo(v)

Single == \A v \in VMs : Sound(v) =>
  \A d, e \in Disks : where[d] = v /\ where[e] = v => d = e

OnlyFirst == \A v \in VMs : Sound(v) =>
  \A u \in Units : dev[v][u] # NoChild => u = Hint /\ where[dev[v][u].parent] = v

FirstThere == \A v \in VMs : Sound(v) =>
  \A d \in Disks : where[d] = v =>
    /\ dev[v][Hint] # NoChild
    /\ attaches[d] = 1 => dev[v][Hint].data = last[d]

LineageInv == /\ TypeOK /\ OneUp /\ Attached /\ Untouched /\ NotBorn
              /\ Agreed /\ Single /\ OnlyFirst /\ FirstThere

(* NewEnv either succeeds or makes the VM one on which a call has failed.  *)
LEMMA EnvOutcome ==
  ASSUME TypeOK, NEW v \in VMs, NEW d \in Disks, NEW w \in {v, Nowhere},
         NEW ds \in SUBSET Disks, NewEnv(v, ds, d, w)
  PROVE  /\ envJson' \in {envJson, ds}
         /\ iso' \in {iso, [iso EXCEPT ![v] = ds]}
         /\ where' \in {[where EXCEPT ![d] = v], [where EXCEPT ![d] = w]}
         /\ unsure' \in {unsure, unsure \cup {v}}
         /\ v \notin unsure' => /\ unsure' = unsure /\ envJson' = ds
                                /\ iso' = [iso EXCEPT ![v] = ds]
                                /\ where' = [where EXCEPT ![d] = w]
BY DEF NewEnv

(* Types hold, whatever fails and however many disks are attached.         *)
LEMMA LineageTypes == TypeOK /\ [Next]_vars => TypeOK'
<1> SUFFICES ASSUME TypeOK, [Next]_vars PROVE TypeOK'
  OBVIOUS
<1> USE LineageAssumption
<1>1. ASSUME NEW v \in VMs, CreateVM(v) PROVE TypeOK'
  BY <1>1 DEF CreateVM, TypeOK, host, agent, NoDevices
<1>2. ASSUME NEW d \in Disks, CreateDisk(d) \/ DeleteDisk(d) PROVE TypeOK'
  BY <1>2 DEF CreateDisk, DeleteDisk, TypeOK, host, agent, NoDevices
<1>3. ASSUME NEW v \in VMs, DeleteVM(v) PROVE TypeOK'
  <2>1. NoDevices \in [Units -> Child \cup {NoChild}]
    BY DEF NoDevices
  <2>2. /\ vm' \in [VMs -> {"none", "up", "torn", "gone"}]
        /\ dev' \in [VMs -> [Units -> Child \cup {NoChild}]]
        /\ left' \in [VMs -> SUBSET Child]
        /\ where' \in [Disks -> VMs \cup {Nowhere}]
    BY <1>3, <2>1 DEF DeleteVM, Loose, TypeOK
  <2>3. \A w \in VMs : /\ vm'[w] # "up" => dev'[w] = NoDevices
                       /\ vm'[w] \in {"none", "gone"} => left'[w] = {}
    BY <1>3 DEF DeleteVM, TypeOK
  <2>4. UNCHANGED <<disks, iso, envJson, attaches, last, written, unsure>>
    BY <1>3 DEF DeleteVM, agent
  <2> QED BY <2>2, <2>3, <2>4 DEF TypeOK
<1>4. ASSUME NEW v \in VMs, NEW d \in Disks, AttachDisk(v, d) PROVE TypeOK'
  <2>1. PICK u \in Units : dev' = [dev EXCEPT ![v][u] = NewChild(d)]
    BY <1>4 DEF AttachDisk
  <2>2. NewChild(d) \in Child
    BY DEF NewChild, Child
  <2>3. dev' \in [VMs -> [Units -> Child \cup {NoChild}]]
    BY <2>1, <2>2 DEF TypeOK
  <2>4. NewEnv(v, envJson \cup {d}, d, v) /\ envJson \cup {d} \in SUBSET Disks
    BY <1>4 DEF AttachDisk, TypeOK
  <2>5. /\ envJson' \in {envJson, envJson \cup {d}}
        /\ iso' \in {iso, [iso EXCEPT ![v] = envJson \cup {d}]}
        /\ where' = [where EXCEPT ![d] = v]
        /\ unsure' \in {unsure, unsure \cup {v}}
    BY <2>4, EnvOutcome
  <2>6. \A w \in VMs : vm[w] # "up" => dev'[w] = NoDevices
    BY <1>4, <2>1 DEF AttachDisk, TypeOK
  <2> QED BY <1>4, <2>3, <2>5, <2>6 DEF AttachDisk, TypeOK, agent
<1>5. ASSUME NEW v \in VMs, NEW d \in Disks, DetachDisk(v, d) PROVE TypeOK'
  <2>1. PICK u \in Units : /\ dev[v][u] # NoChild
                           /\ dev' = [dev EXCEPT ![v][u] = NoChild]
                           /\ left' = [left EXCEPT ![v] = @ \cup {dev[v][u]}]
    BY <1>5 DEF DetachDisk, IsDiskDevice, Matching
  <2>2. dev' \in [VMs -> [Units -> Child \cup {NoChild}]]
    BY <2>1 DEF TypeOK
  <2>3. left' \in [VMs -> SUBSET Child]
    BY <2>1 DEF TypeOK
  <2>4. NewEnv(v, envJson \ {d}, d, Nowhere) /\ envJson \ {d} \in SUBSET Disks
    BY <1>5 DEF DetachDisk, TypeOK
  <2>5. /\ envJson' \in {envJson, envJson \ {d}}
        /\ iso' \in {iso, [iso EXCEPT ![v] = envJson \ {d}]}
        /\ where' \in {[where EXCEPT ![d] = v], [where EXCEPT ![d] = Nowhere]}
        /\ unsure' \in {unsure, unsure \cup {v}}
    BY <2>4, EnvOutcome
  <2>6. \A w \in VMs : /\ vm[w] # "up" => dev'[w] = NoDevices
                       /\ vm[w] \in {"none", "gone"} => left'[w] = {}
    BY <1>5, <2>1 DEF DetachDisk, TypeOK
  <2>7. envJson' \subseteq Disks /\ iso' \in [VMs -> SUBSET Disks]
    BY <2>4, <2>5 DEF TypeOK
  <2>8. where' \in [Disks -> VMs \cup {Nowhere}] /\ unsure' \subseteq VMs
    BY <2>5 DEF TypeOK
  <2>9. UNCHANGED <<vm, disks, attaches, last, written>>
    BY <1>5 DEF DetachDisk, agent
  <2> QED BY <2>2, <2>3, <2>6, <2>7, <2>8, <2>9 DEF TypeOK
<1>6. ASSUME NEW v \in VMs, NEW d \in Disks, AgentWrite(v, d) PROVE TypeOK'
  <2>1. dev[v][Hint] \in Child /\ written + 1 \in 0..MaxWrites
    BY <1>6 DEF AgentWrite, TypeOK
  <2>2. [dev[v][Hint] EXCEPT !.data = written + 1] \in Child
    BY <2>1 DEF Child
  <2>3. dev' = [dev EXCEPT ![v] = [dev[v] EXCEPT
                             ![Hint] = [dev[v][Hint] EXCEPT !.data = written + 1]]]
    BY <1>6 DEF AgentWrite
  <2>4. dev' \in [VMs -> [Units -> Child \cup {NoChild}]]
    BY <2>2, <2>3 DEF TypeOK
  <2>5. last' \in [Disks -> 0..written']
    BY <1>6, <2>1 DEF AgentWrite, TypeOK
  <2>6. \A w \in VMs : vm[w] # "up" => dev'[w] = NoDevices
    BY <1>6, <2>3 DEF AgentWrite, TypeOK
  <2> QED BY <1>6, <2>1, <2>4, <2>5, <2>6 DEF AgentWrite, TypeOK
<1>7. CASE UNCHANGED vars
  BY <1>7 DEF vars, host, agent, TypeOK, NoDevices
<1> QED BY <1>1, <1>2, <1>3, <1>4, <1>5, <1>6, <1>7 DEF Next

(* Every variable stays in its type; VMs that are not there have nothing.  *)
THEOREM LineageTypeCorrect == Spec => []TypeOK
<1>1. Init => TypeOK
  BY LineageAssumption DEF Init, TypeOK, NoDevices
<1> QED BY <1>1, LineageTypes, PTL DEF Spec

(* The steps that leave the host and the director's belief alone.          *)
LEMMA OtherStepsKeep ==
  ASSUME LineageInv, TypeOK',
         \/ \E d \in Disks : CreateDisk(d) \/ DeleteDisk(d)
         \/ UNCHANGED vars
  PROVE  LineageInv'
<1> USE DEF LineageInv, Sound, AttachedTo
<1>1. UNCHANGED <<vm, dev, iso, envJson, where, attaches, last, unsure>>
  BY DEF CreateDisk, DeleteDisk, vars, host, agent
<1>2. \A d \in Disks : where[d] # Nowhere /\ d \in disks => d \in disks'
  BY DEF CreateDisk, DeleteDisk, vars
<1>3. OneUp' /\ Untouched' /\ NotBorn' /\ Agreed' /\ Single' /\ OnlyFirst' /\ FirstThere'
  BY <1>1 DEF OneUp, Untouched, NotBorn, Agreed, Single, OnlyFirst, FirstThere
<1>4. Attached'
  BY <1>1, <1>2 DEF Attached
<1> QED BY <1>3, <1>4

(* A new VM starts without disks, and /tmp/env.json is its own.            *)
LEMMA CreateVMKeeps ==
  ASSUME LineageInv, TypeOK', NEW v \in VMs, CreateVM(v)
  PROVE  LineageInv'
<1> USE LineageAssumption DEF LineageInv
<1>1. /\ vm[v] = "none" /\ vm' = [vm EXCEPT ![v] = "up"] /\ envJson' = {}
      /\ UNCHANGED <<disks, dev, iso, where, attaches, last, unsure>>
  BY DEF CreateVM, host, agent
<1>2. \A w \in VMs : vm[w] # "up"
  BY DEF CreateVM
<1>3. \A w \in VMs : vm'[w] = "up" => w = v
  BY <1>1, <1>2 DEF TypeOK
<1>4. \A d \in Disks : where[d] = Nowhere
  BY <1>2 DEF Attached, TypeOK
<1>5. iso[v] = {} /\ \A u \in Units : dev[v][u] = NoChild
  BY <1>1 DEF NotBorn, TypeOK, NoDevices
<1>6. OneUp' /\ Attached' /\ Untouched' /\ NotBorn'
  BY <1>1, <1>3, <1>4 DEF OneUp, Attached, Untouched, NotBorn, TypeOK
<1>7. Agreed' /\ Single' /\ OnlyFirst' /\ FirstThere'
  BY <1>1, <1>3, <1>4, <1>5 DEF Agreed, Single, OnlyFirst, FirstThere, Sound, AttachedTo
<1> QED BY <1>6, <1>7

(* A deleted VM has no disks; no other VM is up that could be affected.    *)
LEMMA DeleteVMKeeps ==
  ASSUME LineageInv, TypeOK', NEW v \in VMs, DeleteVM(v)
  PROVE  LineageInv'
<1> USE LineageAssumption DEF LineageInv
<1>1. /\ vm[v] \in {"up", "torn"}
      /\ vm' \in {[vm EXCEPT ![v] = "gone"], [vm EXCEPT ![v] = "torn"]}
      /\ dev' = [dev EXCEPT ![v] = NoDevices]
      /\ where' = [d \in Disks |-> IF where[d] = v THEN Nowhere ELSE where[d]]
      /\ UNCHANGED <<disks, iso, envJson, attaches, last, unsure>>
  BY DEF DeleteVM, Loose, agent
<1>2. /\ vm'[v] # "up" /\ vm'[v] # "none"
      /\ \A w \in VMs : w # v => vm'[w] = vm[w] /\ dev'[w] = dev[w]
  BY <1>1 DEF TypeOK
<1>3. \A d \in Disks, w \in VMs : where'[d] = w <=> where[d] = w /\ w # v
  BY <1>1 DEF TypeOK
<1>4. OneUp' /\ NotBorn' /\ Untouched'
  BY <1>1, <1>2 DEF OneUp, NotBorn, Untouched, TypeOK
<1>5. Attached'
  BY <1>1, <1>2 DEF Attached, TypeOK
<1>6. ASSUME NEW w \in VMs, Sound(w)'
      PROVE  Sound(w) /\ w # v /\ AttachedTo(w)' = AttachedTo(w)
  BY <1>1, <1>2, <1>3, <1>6 DEF Sound, AttachedTo
<1>7. Agreed'
  BY <1>1, <1>6 DEF Agreed
<1>8. Single'
  BY <1>3, <1>6 DEF Single
<1>9. OnlyFirst'
  <2> SUFFICES ASSUME NEW w \in VMs, Sound(w)', NEW u \in Units, dev'[w][u] # NoChild
               PROVE  u = Hint /\ where'[dev'[w][u].parent] = w
    BY DEF OnlyFirst
  <2>1. Sound(w) /\ w # v /\ dev'[w] = dev[w]
    BY <1>2, <1>6
  <2>2. u = Hint /\ where[dev[w][u].parent] = w /\ dev[w][u].parent \in Disks
    BY <2>1 DEF OnlyFirst, TypeOK, Child
  <2> QED BY <1>3, <2>1, <2>2
<1>10. FirstThere'
  BY <1>1, <1>2, <1>3, <1>6 DEF FirstThere
<1> QED BY <1>4, <1>5, <1>7, <1>8, <1>9, <1>10

(* What the agent writes it writes to the disk its environment names.      *)
LEMMA AgentWriteKeeps ==
  ASSUME LineageInv, TypeOK', NEW v \in VMs, NEW d \in Disks, AgentWrite(v, d)
  PROVE  LineageInv'
<1> USE LineageAssumption DEF LineageInv
<1>1. /\ vm[v] = "up" /\ d \in iso[v] /\ dev[v][Hint] # NoChild
      /\ dev' = [dev EXCEPT ![v] = [dev[v] EXCEPT
                    ![Hint] = [dev[v][Hint] EXCEPT !.data = written + 1]]]
      /\ last' = [last EXCEPT ![d] = written + 1]
      /\ UNCHANGED <<vm, disks, iso, envJson, where, attaches, unsure>>
  BY DEF AgentWrite
<1>2. OneUp' /\ Attached' /\ NotBorn' /\ Agreed' /\ Single'
  BY <1>1 DEF OneUp, Attached, NotBorn, Agreed, Single, Sound, AttachedTo
<1>3. Untouched'
  BY <1>1 DEF Untouched, TypeOK
<1>4. dev[v][Hint] \in Child
  BY <1>1 DEF TypeOK
<1>5. /\ dev'[v][Hint] # NoChild /\ dev'[v][Hint].parent = dev[v][Hint].parent
      /\ dev'[v][Hint].data = written + 1
      /\ \A u \in Units : u # Hint => dev'[v][u] = dev[v][u]
      /\ \A w \in VMs : w # v => dev'[w] = dev[w]
  <2> DEFINE new == [dev[v][Hint] EXCEPT !.data = written + 1]
  <2>1. dev'[v] = [dev[v] EXCEPT ![Hint] = new] /\ dev[v] \in [Units -> Child \cup {NoChild}]
    BY <1>1 DEF TypeOK
  <2> HIDE DEF new
  <2>2. dev'[v][Hint] = new
    BY <2>1
  <2>3. dev'[v][Hint] = [dev[v][Hint] EXCEPT !.data = written + 1]
    BY <2>2 DEF new
  <2>4. dev'[v][Hint].parent = dev[v][Hint].parent /\ dev'[v][Hint].data = written + 1
    BY <1>4, <2>3 DEF Child
  <2>5. dev'[v][Hint] \in Child
    BY <1>4, <2>3 DEF Child, TypeOK, AgentWrite
  <2>6. \A u \in Units : u # Hint => dev'[v][u] = dev[v][u]
    BY <2>1
  <2>7. \A w \in VMs : w # v => dev'[w] = dev[w]
    BY <1>1 DEF TypeOK
  <2> QED BY <2>4, <2>5, <2>6, <2>7
<1>6. OnlyFirst'
  <2> SUFFICES ASSUME NEW w \in VMs, Sound(w)', NEW u \in Units, dev'[w][u] # NoChild
               PROVE  u = Hint /\ where'[dev'[w][u].parent] = w
    BY DEF OnlyFirst
  <2>1. Sound(w) /\ where' = where
    BY <1>1 DEF Sound
  <2>2. dev[w][u] # NoChild /\ dev'[w][u].parent = dev[w][u].parent
    BY <1>1, <1>5
  <2> QED BY <2>1, <2>2 DEF OnlyFirst
<1>7. FirstThere'
  <2> SUFFICES ASSUME NEW w \in VMs, Sound(w)', NEW e \in Disks, where'[e] = w
               PROVE  /\ dev'[w][Hint] # NoChild
                      /\ attaches'[e] = 1 => dev'[w][Hint].data = last'[e]
    BY DEF FirstThere
  <2>1. Sound(w) /\ where[e] = w /\ w = v
    BY <1>1 DEF Sound, OneUp
  <2>2. e = d
    BY <1>1, <2>1 DEF Agreed, Single, AttachedTo
  <2>3. last'[e] = written + 1
    BY <1>1, <2>2 DEF TypeOK
  <2> QED BY <1>5, <2>1, <2>3
<1> QED BY <1>2, <1>3, <1>6, <1>7

(* A VM without disks on which nothing failed has its first unit free.     *)
LEMMA AttachDiskKeeps ==
  ASSUME LineageInv, TypeOK', MaxAttached = 1,
         NEW v \in VMs, NEW d \in Disks, AttachDisk(v, d)
  PROVE  LineageInv'
<1> USE LineageAssumption DEF LineageInv
<1>1. /\ vm[v] = "up" /\ d \in disks /\ where[d] \in {Nowhere, v}
      /\ Sound(v) => where[d] = Nowhere /\ Cardinality(AttachedTo(v)) < 1
      /\ NewEnv(v, envJson \cup {d}, d, v)
      /\ attaches' = [attaches EXCEPT ![d] = IF @ = 0 THEN 1 ELSE 2]
      /\ UNCHANGED <<vm, disks, last>>
  BY DEF AttachDisk, Sound, agent
<1>2. PICK u \in Units : IsNewUnit(v, u) /\ dev' = [dev EXCEPT ![v][u] = NewChild(d)]
  BY DEF AttachDisk
<1>3. /\ envJson' \in {envJson, envJson \cup {d}}
      /\ iso' \in {iso, [iso EXCEPT ![v] = envJson \cup {d}]}
      /\ where' = [where EXCEPT ![d] = v]
      /\ unsure' \in {unsure, unsure \cup {v}}
      /\ v \notin unsure' => /\ unsure' = unsure /\ envJson' = envJson \cup {d}
                             /\ iso' = [iso EXCEPT ![v] = envJson \cup {d}]
  BY <1>1, EnvOutcome DEF TypeOK
<1>4. ASSUME Sound(v) PROVE AttachedTo(v) = {}
  <2>1. IsFiniteSet(AttachedTo(v))
    BY FS_Subset DEF AttachedTo
  <2>2. Cardinality(AttachedTo(v)) = 0
    BY <1>1, <1>4, <2>1, FS_CardinalityType
  <2> QED BY <2>1, <2>2, FS_EmptySet
<1>5. ASSUME NEW w \in VMs, Sound(w)'
      PROVE  /\ w = v /\ Sound(v) /\ v \notin unsure'
             /\ \A e \in Disks : where'[e] = v <=> e = d
  <2>1. w = v /\ Sound(v) /\ v \notin unsure'
    BY <1>1, <1>3, <1>5 DEF Sound, OneUp
  <2>2. \A e \in Disks : where[e] # v
    BY <1>4, <2>1 DEF AttachedTo
  <2> QED BY <1>3, <2>1, <2>2 DEF TypeOK
<1>6. attaches'[d] # 0 /\ \A e \in Disks : e # d => attaches'[e] = attaches[e]
  BY <1>1 DEF TypeOK
<1>7. OneUp' /\ NotBorn'
  BY <1>1, <1>3 DEF OneUp, NotBorn, TypeOK
<1>8. Attached'
  BY <1>1, <1>3, <1>6 DEF Attached, TypeOK
<1>9. Untouched'
  <2> SUFFICES ASSUME NEW e \in Disks, attaches'[e] = 0
               PROVE  last'[e] = 0 /\ e \notin envJson' /\ \A w \in VMs : e \notin iso'[w]
    BY DEF Untouched
  <2>1. e # d /\ attaches[e] = 0
    BY <1>6
  <2>2. last[e] = 0 /\ e \notin envJson /\ \A w \in VMs : e \notin iso[w]
    BY <2>1 DEF Untouched
  <2> QED BY <1>1, <1>3, <2>1, <2>2 DEF TypeOK
<1>10. Agreed'
  <2> SUFFICES ASSUME NEW w \in VMs, Sound(w)'
               PROVE  iso'[w] = envJson' /\ envJson' = AttachedTo(w)'
    BY DEF Agreed
  <2>1. AttachedTo(w)' = {d}
    BY <1>5 DEF AttachedTo
  <2>2. envJson \cup {d} = {d}
    BY <1>4, <1>5 DEF Agreed
  <2>3. iso'[w] = envJson \cup {d} /\ envJson' = envJson \cup {d}
    BY <1>3, <1>5 DEF TypeOK
  <2> QED BY <2>1, <2>2, <2>3
<1>11. Single'
  BY <1>5 DEF Single
<1>12. ASSUME Sound(v)
       PROVE  /\ dev'[v][Hint] = NewChild(d)
              /\ \A w \in Units : w # Hint => dev'[v][w] = NoChild
  <2>1. ASSUME NEW w \in Units PROVE dev[v][w] = NoChild
    <3> SUFFICES ASSUME dev[v][w] # NoChild PROVE FALSE
      OBVIOUS
    <3>1. dev[v][w].parent \in Disks /\ where[dev[v][w].parent] = v
      BY <1>12 DEF OnlyFirst, TypeOK, Child
    <3> QED BY <1>4, <1>12, <3>1 DEF AttachedTo
  <2>2. u = Hint
    BY <1>2, <2>1 DEF IsNewUnit, FreeUnits, Hint
  <2> QED BY <1>2, <2>1, <2>2 DEF TypeOK
<1>13. NewChild(d) # NoChild /\ NewChild(d).parent = d /\ NewChild(d).data = 0
  BY DEF NewChild, Child
<1>14. OnlyFirst'
  BY <1>5, <1>12, <1>13 DEF OnlyFirst
<1>15. FirstThere'
  <2> SUFFICES ASSUME NEW w \in VMs, Sound(w)', NEW e \in Disks, where'[e] = w
               PROVE  /\ dev'[w][Hint] # NoChild
                      /\ attaches'[e] = 1 => dev'[w][Hint].data = last'[e]
    BY DEF FirstThere
  <2>1. w = v /\ e = d /\ dev'[v][Hint] = NewChild(d)
    BY <1>5, <1>12
  <2>2. attaches'[d] = 1 => last'[d] = 0
    BY <1>1 DEF Untouched, TypeOK
  <2> QED BY <1>13, <2>1, <2>2
<1> QED BY <1>7, <1>8, <1>9, <1>10, <1>11, <1>14, <1>15

(* detach_disk empties the first unit of a VM on which nothing failed.     *)
LEMMA DetachDiskKeeps ==
  ASSUME LineageInv, TypeOK', NEW v \in VMs, NEW d \in Disks, DetachDisk(v, d)
  PROVE  LineageInv'
<1> USE LineageAssumption DEF LineageInv
<1>1. /\ vm[v] = "up" /\ where[d] = v
      /\ NewEnv(v, envJson \ {d}, d, Nowhere)
      /\ UNCHANGED <<vm, disks, attaches, last>>
  BY DEF DetachDisk, agent
<1>2. PICK u \in Units : /\ IsDiskDevice(v, d, u)
                         /\ dev' = [dev EXCEPT ![v][u] = NoChild]
  BY DEF DetachDisk
<1>3. /\ envJson' \in {envJson, envJson \ {d}}
      /\ iso' \in {iso, [iso EXCEPT ![v] = envJson \ {d}]}
      /\ where' \in {where, [where EXCEPT ![d] = Nowhere]}
      /\ unsure' \in {unsure, unsure \cup {v}}
      /\ v \notin unsure' => /\ unsure' = unsure /\ envJson' = envJson \ {d}
                             /\ iso' = [iso EXCEPT ![v] = envJson \ {d}]
                             /\ where' = [where EXCEPT ![d] = Nowhere]
  <2>1. [where EXCEPT ![d] = v] = where
    BY <1>1 DEF TypeOK
  <2> QED BY <1>1, <2>1, EnvOutcome DEF TypeOK
<1>4. ASSUME NEW w \in VMs, Sound(w)'
      PROVE  /\ w = v /\ Sound(v) /\ v \notin unsure'
             /\ \A e \in Disks : where'[e] # v
  <2>1. w = v /\ Sound(v) /\ v \notin unsure'
    BY <1>1, <1>3, <1>4 DEF Sound, OneUp
  <2>2. \A e \in Disks : where[e] = v => e = d
    BY <1>1, <2>1 DEF Single
  <2> QED BY <1>3, <2>1, <2>2 DEF TypeOK
<1>5. OneUp' /\ NotBorn'
  BY <1>1, <1>3 DEF OneUp, NotBorn, TypeOK
<1>6. Attached'
  BY <1>1, <1>3 DEF Attached, TypeOK
<1>7. Untouched'
  <2> SUFFICES ASSUME NEW e \in Disks, attaches'[e] = 0
               PROVE  last'[e] = 0 /\ e \notin envJson' /\ \A w \in VMs : e \notin iso'[w]
    BY DEF Untouched
  <2>1. last[e] = 0 /\ e \notin envJson /\ \A w \in VMs : e \notin iso[w]
    BY <1>1 DEF Untouched
  <2> QED BY <1>1, <1>3, <2>1 DEF TypeOK
<1>8. Agreed'
  <2> SUFFICES ASSUME NEW w \in VMs, Sound(w)'
               PROVE  iso'[w] = envJson' /\ envJson' = AttachedTo(w)'
    BY DEF Agreed
  <2>1. AttachedTo(w)' = {}
    BY <1>4 DEF AttachedTo
  <2>2. envJson \ {d} = {}
    BY <1>1, <1>4 DEF Agreed, Single, AttachedTo
  <2>3. iso'[w] = envJson \ {d} /\ envJson' = envJson \ {d}
    BY <1>3, <1>4 DEF TypeOK
  <2> QED BY <2>1, <2>2, <2>3
<1>9. Single' /\ FirstThere'
  BY <1>4 DEF Single, FirstThere
<1>10. OnlyFirst'
  <2> SUFFICES ASSUME NEW w \in VMs, Sound(w)', NEW x \in Units PROVE dev'[w][x] = NoChild
    BY DEF OnlyFirst
  <2>1. w = v /\ u = Hint
    BY <1>2, <1>4 DEF OnlyFirst, IsDiskDevice, Matching
  <2> QED BY <1>2, <1>4, <2>1 DEF OnlyFirst, TypeOK
<1> QED BY <1>5, <1>6, <1>7, <1>8, <1>9, <1>10

(* What the invariant is for.                                              *)
LEMMA LineageImplies == LineageInv => AgentHasItsDisk
<1> SUFFICES ASSUME LineageInv PROVE AgentHasItsDisk
  OBVIOUS
<1> USE LineageAssumption DEF LineageInv
<1>1. ASSUME NEW v \in VMs, NEW d \in iso[v], Sound(v)
      PROVE  /\ dev[v][Hint] # NoChild /\ dev[v][Hint].parent = d
             /\ attaches[d] = 1 => dev[v][Hint].data = last[d]
  <2>1. d \in Disks /\ where[d] = v
    BY <1>1 DEF Agreed, AttachedTo
  <2>2. /\ dev[v][Hint] # NoChild
        /\ attaches[d] = 1 => dev[v][Hint].data = last[d]
    BY <1>1, <2>1 DEF FirstThere
  <2>3. dev[v][Hint].parent \in Disks /\ where[dev[v][Hint].parent] = v
    BY <1>1, <2>2 DEF OnlyFirst, TypeOK, Child
  <2> QED BY <1>1, <2>1, <2>2, <2>3 DEF Single
<1> QED BY <1>1 DEF AgentHasItsDisk

(* With one disk at a time the hint is right, for every number of VMs,     *)
(* disks and writes.                                                       *)
THEOREM HintIsRight ==
  ASSUME MaxAttached = 1
  PROVE  Spec => []AgentHasItsDisk
<1>1. Init => LineageInv
  BY LineageAssumption DEF Init, LineageInv, TypeOK, NoDevices, OneUp, Attached,
     Untouched, NotBorn, Agreed, Single, OnlyFirst, FirstThere, Sound, AttachedTo
<1>2. LineageInv /\ [Next]_vars => LineageInv'
  <2> SUFFICES ASSUME LineageInv, [Next]_vars PROVE LineageInv'
    OBVIOUS
  <2>1. TypeOK'
    BY LineageTypes DEF LineageInv
  <2> QED BY <2>1, OtherStepsKeep, CreateVMKeeps, DeleteVMKeeps, AttachDiskKeeps,
             DetachDiskKeeps, AgentWriteKeeps DEF Next
<1> QED BY <1>1, <1>2, LineageImplies, PTL DEF Spec

-----------------------------------------------------------------------------
(* However many disks are attached: on a VM on which no call has failed    *)
(* a child is of a disk that the director has attached there, and the only *)
(* one of that disk, for the director attaches no disk twice.              *)
Behind == \A v \in VMs, u \in Units :
  Sound(v) /\ dev[v][u] # NoChild => where[dev[v][u].parent] = v

OneChild == \A v \in VMs, u, w \in Units :
  /\ Sound(v) /\ dev[v][u] # NoChild /\ dev[v][w] # NoChild
  /\ dev[v][u].parent = dev[v][w].parent
  => u = w

ParentInv == TypeOK /\ OneUp /\ Attached /\ Behind /\ OneChild

(* Steps that bring no child and move no disk of a sound VM.               *)
LEMMA OthersKeepParents ==
  ASSUME ParentInv, TypeOK',
         \/ \E d \in Disks : CreateDisk(d) \/ DeleteDisk(d)
         \/ \E v \in VMs : CreateVM(v) \/ DeleteVM(v)
         \/ UNCHANGED vars
  PROVE  ParentInv'
<1> USE LineageAssumption DEF ParentInv
<1>1. CASE (\E d \in Disks : CreateDisk(d) \/ DeleteDisk(d)) \/ UNCHANGED vars
  <2>1. UNCHANGED <<vm, dev, where, attaches, unsure>>
    BY <1>1 DEF CreateDisk, DeleteDisk, vars, host
  <2>2. \A d \in Disks : where[d] # Nowhere /\ d \in disks => d \in disks'
    BY <1>1 DEF CreateDisk, DeleteDisk, vars
  <2> QED BY <2>1, <2>2 DEF OneUp, Attached, Behind, OneChild, Sound
<1>2. ASSUME NEW v \in VMs, CreateVM(v) PROVE ParentInv'
  <2>1. /\ vm' = [vm EXCEPT ![v] = "up"] /\ \A w \in VMs : vm[w] # "up"
        /\ dev[v] = NoDevices /\ UNCHANGED <<disks, dev, where, attaches, unsure>>
    BY <1>2 DEF CreateVM, host, TypeOK
  <2>2. \A w \in VMs : Sound(w)' => w = v
    BY <2>1 DEF Sound, TypeOK
  <2>3. \A u \in Units : dev[v][u] = NoChild
    BY <2>1 DEF NoDevices
  <2> QED BY <2>1, <2>2, <2>3 DEF OneUp, Attached, Behind, OneChild, TypeOK
<1>3. ASSUME NEW v \in VMs, DeleteVM(v) PROVE ParentInv'
  <2>1. /\ vm' \in {[vm EXCEPT ![v] = "gone"], [vm EXCEPT ![v] = "torn"]}
        /\ dev' = [dev EXCEPT ![v] = NoDevices]
        /\ where' = [d \in Disks |-> IF where[d] = v THEN Nowhere ELSE where[d]]
        /\ UNCHANGED <<disks, attaches, unsure>>
    BY <1>3 DEF DeleteVM, Loose
  <2>2. \A w \in VMs : vm'[w] = "up" => w # v /\ vm[w] = "up" /\ dev'[w] = dev[w]
    BY <2>1 DEF TypeOK
  <2>3. ASSUME NEW w \in VMs, Sound(w)', NEW u \in Units, dev'[w][u] # NoChild
        PROVE  where'[dev'[w][u].parent] = w
    <3>1. Sound(w) /\ w # v /\ dev'[w] = dev[w]
      BY <2>1, <2>2, <2>3 DEF Sound
    <3>2. where[dev[w][u].parent] = w /\ dev[w][u].parent \in Disks
      BY <2>3, <3>1 DEF Behind, TypeOK, Child
    <3> QED BY <2>1, <3>1, <3>2
  <2>4. OneUp' /\ Behind' /\ OneChild'
    BY <2>1, <2>2, <2>3 DEF OneUp, Behind, OneChild, Sound
  <2>5. Attached'
    BY <2>1, <2>2 DEF Attached, TypeOK
  <2> QED BY <2>4, <2>5
<1> QED BY <1>1, <1>2, <1>3

(* A disk is attached where it has no child, ...                           *)
LEMMA AttachKeepsParents ==
  ASSUME ParentInv, TypeOK', NEW v \in VMs, NEW d \in Disks, AttachDisk(v, d)
  PROVE  ParentInv'
<1> USE LineageAssumption DEF ParentInv
<1>1. /\ vm[v] = "up" /\ d \in disks /\ where[d] \in {Nowhere, v}
      /\ Sound(v) => where[d] = Nowhere
      /\ NewEnv(v, envJson \cup {d}, d, v)
      /\ attaches' = [attaches EXCEPT ![d] = IF @ = 0 THEN 1 ELSE 2]
      /\ UNCHANGED <<vm, disks>>
  BY DEF AttachDisk, Sound
<1>2. PICK u \in Units : dev' = [dev EXCEPT ![v][u] = NewChild(d)]
  BY DEF AttachDisk
<1>3. where' = [where EXCEPT ![d] = v] /\ unsure' \in {unsure, unsure \cup {v}}
  BY <1>1, EnvOutcome DEF TypeOK
<1>4. OneUp' /\ Attached'
  BY <1>1, <1>3 DEF OneUp, Attached, TypeOK
<1>5. NewChild(d) # NoChild /\ NewChild(d).parent = d
  BY DEF NewChild, Child
<1>6. ASSUME NEW w \in VMs, Sound(w)'
      PROVE  /\ w = v /\ Sound(v) /\ where[d] = Nowhere
             /\ dev'[v][u] = NewChild(d)
             /\ \A x \in Units : x # u => dev'[v][x] = dev[v][x]
             /\ \A x \in Units : dev[v][x] # NoChild =>
                  where[dev[v][x].parent] = v /\ dev[v][x].parent \in Disks
  <2>1. w = v /\ Sound(v)
    BY <1>1, <1>3, <1>6 DEF Sound, OneUp
  <2> QED BY <1>1, <1>2, <2>1 DEF Behind, TypeOK, Child
<1>7. ASSUME NEW w \in VMs, Sound(w)', NEW x \in Units, dev'[w][x] # NoChild
      PROVE  /\ w = v /\ dev'[w][x].parent \in Disks
             /\ dev'[w][x].parent = d <=> x = u
             /\ x # u => /\ dev[v][x] # NoChild /\ dev'[w][x] = dev[v][x]
                         /\ where[dev[v][x].parent] = v
  <2>1. w = v /\ where[d] = Nowhere
    BY <1>6, <1>7
  <2>2. CASE x = u
    BY <1>5, <1>6, <1>7, <2>1, <2>2
  <2>3. CASE x # u
    <3>1. dev'[v][x] = dev[v][x] /\ dev[v][x] # NoChild
      BY <1>6, <1>7, <2>1, <2>3
    <3>2. where[dev[v][x].parent] = v /\ dev[v][x].parent \in Disks
      BY <1>6, <1>7, <3>1
    <3> QED BY <2>1, <2>3, <3>1, <3>2
  <2> QED BY <2>2, <2>3
<1>8. Behind'
  BY <1>3, <1>7 DEF Behind, TypeOK
<1>9. OneChild'
  <2> SUFFICES ASSUME NEW w \in VMs, NEW x \in Units, NEW y \in Units, Sound(w)',
                      dev'[w][x] # NoChild, dev'[w][y] # NoChild,
                      dev'[w][x].parent = dev'[w][y].parent
               PROVE  x = y
    BY DEF OneChild
  <2>1. CASE x = u \/ y = u
    BY <1>7, <2>1
  <2>2. CASE x # u /\ y # u
    BY <1>6, <1>7, <2>2 DEF OneChild
  <2> QED BY <2>1, <2>2
<1> QED BY <1>4, <1>8, <1>9

(* ... and detached from the one that it has.                              *)
LEMMA DetachKeepsParents ==
  ASSUME ParentInv, TypeOK', NEW v \in VMs, NEW d \in Disks, DetachDisk(v, d)
  PROVE  ParentInv'
<1> USE LineageAssumption DEF ParentInv
<1>1. /\ vm[v] = "up" /\ where[d] = v
      /\ NewEnv(v, envJson \ {d}, d, Nowhere)
      /\ UNCHANGED <<vm, disks, attaches>>
  BY DEF DetachDisk
<1>2. PICK u \in Units : /\ dev[v][u] # NoChild /\ dev[v][u].parent = d
                         /\ dev' = [dev EXCEPT ![v][u] = NoChild]
  BY DEF DetachDisk, IsDiskDevice, Matching
<1>3. /\ where' \in {where, [where EXCEPT ![d] = Nowhere]}
      /\ unsure' \in {unsure, unsure \cup {v}}
  <2>1. [where EXCEPT ![d] = v] = where
    BY <1>1 DEF TypeOK
  <2>2. envJson \ {d} \in SUBSET Disks
    BY DEF TypeOK
  <2>3. where' \in {[where EXCEPT ![d] = v], [where EXCEPT ![d] = Nowhere]}
    BY <1>1, <2>2, EnvOutcome
  <2>4. unsure' \in {unsure, unsure \cup {v}}
    BY <1>1, <2>2, EnvOutcome
  <2> QED BY <2>1, <2>3, <2>4
<1>4. OneUp' /\ Attached'
  BY <1>1, <1>3 DEF OneUp, Attached, TypeOK
<1>5. ASSUME NEW w \in VMs, Sound(w)', NEW x \in Units, dev'[w][x] # NoChild
      PROVE  /\ w = v /\ Sound(v) /\ dev'[w][x] = dev[v][x] /\ dev[v][x] # NoChild
             /\ where[dev[v][x].parent] = v /\ dev[v][x].parent \in Disks \ {d}
  <2>1. w = v /\ Sound(v)
    BY <1>1, <1>3, <1>5 DEF Sound, OneUp
  <2>2. x # u /\ dev'[v][x] = dev[v][x]
    BY <1>2, <1>5, <2>1 DEF TypeOK
  <2>3. where[dev[v][x].parent] = v /\ dev[v][x].parent \in Disks
    BY <1>5, <2>1, <2>2 DEF Behind, TypeOK, Child
  <2>4. dev[v][x].parent # d
    BY <1>2, <1>5, <2>1, <2>2 DEF OneChild
  <2> QED BY <1>5, <2>1, <2>2, <2>3, <2>4
<1>6. Behind'
  BY <1>3, <1>5 DEF Behind, TypeOK
<1>7. OneChild'
  BY <1>5 DEF OneChild
<1> QED BY <1>4, <1>6, <1>7

(* What an agent writes stays in the child it has.                         *)
LEMMA WriteKeepsParents ==
  ASSUME ParentInv, TypeOK', NEW v \in VMs, NEW d \in Disks, AgentWrite(v, d)
  PROVE  ParentInv'
<1> USE LineageAssumption DEF ParentInv
<1>1. /\ dev[v][Hint] # NoChild
      /\ dev' = [dev EXCEPT ![v] = [dev[v] EXCEPT
                    ![Hint] = [dev[v][Hint] EXCEPT !.data = written + 1]]]
      /\ UNCHANGED <<vm, disks, where, attaches, unsure>>
  BY DEF AgentWrite
<1>2. \A w \in VMs, u \in Units : dev'[w][u] # NoChild =>
        dev[w][u] # NoChild /\ dev'[w][u].parent = dev[w][u].parent
  <2>1. dev[v][Hint] \in Child
    BY <1>1 DEF TypeOK
  <2>2. [dev[v][Hint] EXCEPT !.data = written + 1].parent = dev[v][Hint].parent
    BY <2>1 DEF Child
  <2>3. \A w \in VMs, u \in Units : ~(w = v /\ u = Hint) => dev'[w][u] = dev[w][u]
    BY <1>1 DEF TypeOK
  <2>4. dev'[v][Hint] = [dev[v][Hint] EXCEPT !.data = written + 1]
    BY <1>1 DEF TypeOK
  <2> QED BY <1>1, <2>2, <2>3, <2>4
<1>3. OneUp' /\ Attached'
  BY <1>1 DEF OneUp, Attached
<1>4. Behind' /\ OneChild'
  BY <1>1, <1>2 DEF Behind, OneChild, Sound
<1> QED BY <1>3, <1>4

(* No delete_disk takes the parent from a child in use on a VM on which no *)
(* call has failed, however many disks the director attaches at a time.    *)
THEOREM ParentsAreKept == Spec => []ParentsKept
<1>1. Init => ParentInv
  BY LineageAssumption DEF Init, ParentInv, TypeOK, NoDevices, OneUp, Attached,
     Behind, OneChild, Sound
<1>2. ParentInv /\ [Next]_vars => ParentInv'
  <2> SUFFICES ASSUME ParentInv, [Next]_vars PROVE ParentInv'
    OBVIOUS
  <2>1. TypeOK'
    BY LineageTypes DEF ParentInv
  <2> QED BY <2>1, OthersKeepParents, AttachKeepsParents, DetachKeepsParents,
             WriteKeepsParents DEF Next
<1>3. ParentInv => ParentsKept
  BY LineageAssumption DEF ParentInv, ParentsKept, Behind, Attached, TypeOK, Child
<1> QED BY <1>1, <1>2, <1>3, PTL DEF Spec

-----------------------------------------------------------------------------
(* Nothing that an agent wrote is lost while its VM is there, however many *)
(* disks are attached and whatever fails.                                  *)
THEOREM FilesAreKept == Spec => WrittenFilesKept
<1> DEFINE Kept(v) == {f \in Files(v) : f.data # 0} \subseteq Files(v)'
<1>1. ASSUME TypeOK, [Next]_vars, NEW v \in VMs, vm'[v] = "up", written' = written
      PROVE  Files(v) \subseteq Files(v)'
  <2> USE <1>1 DEF TypeOK, Files
  <2>1. CASE UNCHANGED <<dev, left>>
    BY <2>1
  <2>2. ASSUME NEW w \in VMs, DeleteVM(w) PROVE w # v /\ dev'[v] = dev[v] /\ left'[v] = left[v]
    BY <2>2 DEF DeleteVM
  <2>3. ASSUME NEW w \in VMs, NEW d \in Disks, AttachDisk(w, d)
        PROVE  Files(v) \subseteq Files(v)'
    <3>1. PICK u \in Units : dev[w][u] = NoChild /\ dev' = [dev EXCEPT ![w][u] = NewChild(d)]
      BY <2>3 DEF AttachDisk, IsNewUnit, FreeUnits
    <3>2. \A x \in Units : dev[v][x] # NoChild => dev'[v][x] = dev[v][x]
      BY <3>1
    <3> QED BY <2>3, <3>2 DEF AttachDisk
  <2>4. ASSUME NEW w \in VMs, NEW d \in Disks, DetachDisk(w, d)
        PROVE  Files(v) \subseteq Files(v)'
    <3>1. PICK u \in Units : /\ dev' = [dev EXCEPT ![w][u] = NoChild]
                             /\ left' = [left EXCEPT ![w] = @ \cup {dev[w][u]}]
      BY <2>4 DEF DetachDisk
    <3>2. \A x \in Units : dev'[v][x] = dev[v][x] \/ dev[v][x] \in left'[v]
      BY <3>1
    <3>3. left[v] \subseteq left'[v]
      BY <3>1
    <3> QED BY <3>2, <3>3
  <2>5. ASSUME NEW w \in VMs, NEW d \in Disks, AgentWrite(w, d) PROVE FALSE
    BY <2>5 DEF AgentWrite
  <2>6. ASSUME \/ \E w \in VMs : CreateVM(w)
               \/ \E d \in Disks : CreateDisk(d) \/ DeleteDisk(d)
               \/ UNCHANGED vars
        PROVE  UNCHANGED <<dev, left>>
    BY <2>6 DEF CreateVM, CreateDisk, DeleteDisk, vars, host
  <2> QED BY <2>1, <2>2, <2>3, <2>4, <2>5, <2>6 DEF Next
<1>2. TypeOK /\ [Next]_vars =>
        [\A v \in VMs : vm'[v] = "up" /\ written' = written => Kept(v)]_vars
  BY <1>1
<1> QED BY <1>2, LineageTypeCorrect, PTL DEF Spec, WrittenFilesKept
=============================================================================
