----------------------------- MODULE RecordLemmas ------------------------------
(* What the mutations of Records.tla preserve; cited by StoreProofs,            *)
(* ClientsProofs and InstancesProofs.                                           *)
EXTENDS Records, TLAPS

(* Every mutation of well-typed records gives well-typed records. *)
LEMMA MutationsTyped ==
    ASSUME NEW d \in Data, NEW n \in Names, NEW cn \in CNs
    PROVE  /\ \A rec \in InstanceRecs : WithInstance(d, n, rec) \in Data
           /\ WithoutInstance(d, n) \in Data
           /\ \A rec \in ClientRecs : WithClient(d, n, cn, rec) \in Data
           /\ WithoutClient(d, n, cn) \in Data
  BY DEF Data, WithInstance, WithoutInstance, WithClient, WithoutClient

LEMMA InstanceMutationsTyped ==
    ASSUME NEW d \in Data, NEW n \in Names
    PROVE  /\ \A rec \in InstanceRecs : WithInstance(d, n, rec) \in Data
           /\ WithoutInstance(d, n) \in Data
  BY DEF Data, WithInstance, WithoutInstance

LEMMA EmptyTyped == Empty \in Data /\ Rooted(Empty)
  BY DEF Empty, Data, Rooted

(* What Mutated(d) holds, mutation by mutation. *)
LEMMA MutatedHas ==
    ASSUME NEW d \in Data, NEW n \in Names
    PROVE  /\ \A rec \in InstanceRecs : WithInstance(d, n, rec) \in Mutated(d)
           /\ WithoutInstance(d, n) \in Mutated(d)
           /\ Known(d, n) => \A cn \in CNs, rec \in ClientRecs :
                                WithClient(d, n, cn, rec) \in Mutated(d)
           /\ \A cn \in CNs : WithoutClient(d, n, cn) \in Mutated(d)
  BY DEF Mutated

(* No mutation leaves a client without its instance: putting an instance or  *)
(* removing a client takes no instance away, removing an instance takes its  *)
(* clients with it, and a client is only put under a known instance.         *)
LEMMA MutationsRooted ==
    ASSUME NEW d \in Data, Rooted(d), NEW n \in Names
    PROVE  /\ \A rec \in InstanceRecs : Rooted(WithInstance(d, n, rec))
           /\ Rooted(WithoutInstance(d, n))
           /\ Known(d, n) => \A cn \in CNs, rec \in ClientRecs :
                                Rooted(WithClient(d, n, cn, rec))
           /\ \A cn \in CNs : Rooted(WithoutClient(d, n, cn))
  <1>1. ASSUME NEW rec \in InstanceRecs
        PROVE  Rooted(WithInstance(d, n, rec))
    BY <1>1, AbsentAssumption DEF Rooted, Known, Data, WithInstance
  <1>2. Rooted(WithoutInstance(d, n))
    BY DEF Rooted, Known, Data, WithoutInstance
  <1>3. ASSUME Known(d, n), NEW cn \in CNs, NEW rec \in ClientRecs
        PROVE  Rooted(WithClient(d, n, cn, rec))
    BY <1>3 DEF Rooted, Known, Data, WithClient
  <1>4. ASSUME NEW cn \in CNs
        PROVE  Rooted(WithoutClient(d, n, cn))
    BY <1>4 DEF Rooted, Known, Data, WithoutClient
  <1> QED BY <1>1, <1>2, <1>3, <1>4
================================================================================
