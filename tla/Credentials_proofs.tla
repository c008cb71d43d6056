-------------------------- MODULE Credentials_proofs --------------------------
(***************************************************************************)
(* Theorems about Credentials, for any commands, jobs, keys and homes.     *)
(*                                                                         *)
(* A `set` writes the Vault's secret as it has read it.  The invariant     *)
(* says that what it has read is what is there, unless it is unlucky or    *)
(* may have been overlapped.  A job fills the credentials file in one      *)
(* write: what a home holds, and what an installer has found there, is     *)
(* what some job of that home has read, and reads no more.                 *)
(*                                                                         *)
(* That all of it was given in one `set` needs more: what the keyring      *)
(* holds between the keys of a `set`, of a `delete` and of a job.  While   *)
(* nothing is excused, one of them runs at a time: the fields are those of *)
(* one `set` and gaps, up to the key that a running `set` has come to, and *)
(* a job has read them as they are.                                        *)
(***************************************************************************)
EXTENDS Credentials, TLAPS

SetStages == {"store", "fetch", "write"}
JobStages == {"read", "open", "fill", "install"}

\* Whose stages they are, and the key that each of them is at
StageInv ==
  \A u \in Users :
    /\ stage[u] = "idle" => next[u] = 1
    /\ stage[u] \in SetStages => u \in Sets /\ next[u] \in 1 .. Len(Fields) + 1
    /\ stage[u] = "delete" => u \in Deletes /\ next[u] \in 1 .. Len(Deletable)
    /\ stage[u] \in JobStages => u \in Jobs
    /\ stage[u] = "read" => next[u] \in 1 .. Len(Fields) /\ Len(got[u]) = next[u] - 1
    /\ stage[u] = "idle" /\ u \in Jobs => got[u] = <<>>

Exclusive ==
  \A u, v \in Users : u # v /\ Running(u) /\ Running(v) => {u, v} \cap Overlapping # {}

Disturbed == \E c \in Sets \cap (Overlapping \cup Unlucky) : stage[c] # "idle"

SeenInv == \A c \in Sets : stage[c] = "write" => seen[c] = vault \/ Disturbed

HasRead(j, h, values) ==
  home[j] = h /\ got[j] = values /\ stage[j] \notin {"idle", "read"}

FileInv ==
  /\ \A h \in Homes : file[h] # <<>> => \E j \in Jobs : HasRead(j, h, file[h])
  /\ \A i \in Jobs : used[i] # <<>> => \E j \in Jobs : HasRead(j, home[i], used[i])

IInv == TypeOK /\ StageInv /\ Exclusive /\ SeenInv /\ FileInv

-----------------------------------------------------------------------------
\* The keys are the fields, and the pull secret after them.
LEMMA KeysAreFieldsAndOne ==
  /\ Len(Fields) \in Nat \ {0}
  /\ Len(Deletable) \in Nat \ {0}
  /\ DOMAIN Keys = 1 .. Len(Fields) + 1
  /\ DOMAIN Fields = 1 .. Len(Fields)
  /\ DOMAIN Deletable = 1 .. Len(Deletable)
  /\ \A i \in DOMAIN Keys : Keys[i] \in KeySet
  /\ \A i \in DOMAIN Fields : Fields[i] \in KeySet
<1>1. Fields \in Seq(KeySet) /\ Fields # <<>> BY KeysAssumption
<1>2. /\ Deletable \in Seq({Deletable[i] : i \in DOMAIN Deletable})
      /\ Deletable # <<>>
  BY KeysAssumption
<1>3. Len(Fields) \in Nat \ {0} /\ DOMAIN Fields = 1 .. Len(Fields) BY <1>1
<1>4. Len(Deletable) \in Nat \ {0} /\ DOMAIN Deletable = 1 .. Len(Deletable) BY <1>2
<1>5. DOMAIN Keys = 1 .. Len(Fields) + 1 BY <1>1, <1>3 DEF Keys
<1>6. \A i \in DOMAIN Keys : Keys[i] \in KeySet BY DEF KeySet
<1>7. \A i \in DOMAIN Fields : Fields[i] \in KeySet BY <1>1, <1>3
<1>8. QED BY <1>3, <1>4, <1>5, <1>6, <1>7

\* Nothing is stored, read or used at first.
LEMMA InitIInv == Init => IInv
<1> USE KeysAreFieldsAndOne DEF Init
<1>1. Init => TypeOK
  BY DEF TypeOK, Secrets, Empty, Values, Stages
<1>2. Init => StageInv BY DEF StageInv, SetStages, JobStages, Users
<1>3. Init => Exclusive /\ SeenInv BY DEF Exclusive, Running, SeenInv, Users
<1>4. Init => FileInv BY DEF FileInv
<1>5. QED BY <1>1, <1>2, <1>3, <1>4 DEF IInv

-----------------------------------------------------------------------------
\* The types, and the key each command is at.
LEMMA NextTypeOK ==
  ASSUME TypeOK, StageInv, [Next]_vars
  PROVE  TypeOK' /\ StageInv'
<1> USE UsersAssumption, KeysAreFieldsAndOne
    DEF TypeOK, StageInv, Users, Stages, Over, SetStages, JobStages, Secrets, Goto, Running
<1>1. CASE UNCHANGED vars BY <1>1 DEF vars
<1>2. ASSUME NEW c \in Sets, NEW s \in {"store", "fetch"}, Begin(c, s) PROVE TypeOK' /\ StageInv'
  BY <1>2 DEF Begin
<1>3. ASSUME NEW c \in Deletes, Begin(c, "delete") PROVE TypeOK' /\ StageInv'
  BY <1>3 DEF Begin
<1>4. ASSUME NEW c \in Jobs, Begin(c, "read") PROVE TypeOK' /\ StageInv'
  BY <1>4 DEF Begin
<1>5. ASSUME NEW u \in Users, Fail(u) PROVE TypeOK' /\ StageInv'
  BY <1>5 DEF Fail
<1>6. ASSUME NEW c \in Sets, StoreKey(c) PROVE TypeOK' /\ StageInv'
  <2>1. TypeOK'
    <3>1. /\ stage' \in [Users -> Stages] /\ next[c] \in 1 .. Len(Fields) + 1
          /\ next' \in {[next EXCEPT ![c] = next[c] + 1], [next EXCEPT ![c] = 1]}
          /\ next[c] <= Len(Fields) \/ next' = [next EXCEPT ![c] = 1]
      BY <1>6 DEF StoreKey, KeyStored
    <3>2. next' \in [Users -> DOMAIN Keys \cup DOMAIN Deletable]
      <4>1. 1 \in DOMAIN Keys /\ (next[c] <= Len(Fields) => next[c] + 1 \in DOMAIN Keys)
        BY <3>1
      <4>2. QED BY <3>1, <4>1
    <3>3. keyring' \in Secrets BY <1>6 DEF StoreKey, KeyOf
    <3>4. QED BY <1>6, <3>1, <3>2, <3>3 DEF StoreKey, Empty
  <2>2. StageInv' BY <1>6, SMTT(20) DEF StoreKey, KeyStored, KeyOf
  <2>3. QED BY <2>1, <2>2
<1>7. ASSUME NEW c \in Sets, ReadVault(c) PROVE TypeOK' /\ StageInv'
  BY <1>7 DEF ReadVault, Empty
<1>8. ASSUME NEW c \in Sets, WriteVault(c) PROVE TypeOK' /\ StageInv'
  <2>1. TypeOK'
    <3>1. /\ stage' \in [Users -> Stages] /\ next[c] \in 1 .. Len(Fields) + 1
          /\ next' \in {[next EXCEPT ![c] = next[c] + 1], [next EXCEPT ![c] = 1]}
          /\ next[c] <= Len(Fields) \/ next' = [next EXCEPT ![c] = 1]
      BY <1>8 DEF WriteVault, KeyStored
    <3>2. next' \in [Users -> DOMAIN Keys \cup DOMAIN Deletable]
      <4>1. 1 \in DOMAIN Keys /\ (next[c] <= Len(Fields) => next[c] + 1 \in DOMAIN Keys)
        BY <3>1
      <4>2. QED BY <3>1, <4>1
    <3>3. vault' \in Secrets BY <1>8 DEF WriteVault, KeyOf
    <3>4. QED BY <1>8, <3>1, <3>2, <3>3 DEF WriteVault, Empty
  <2>2. StageInv' BY <1>8 DEF WriteVault, KeyStored, KeyOf, Empty
  <2>3. QED BY <2>1, <2>2
<1>9. ASSUME NEW c \in Deletes, DeleteKey(c) PROVE TypeOK' /\ StageInv'
  <2>1. TypeOK'
    <3>1. next' \in [Users -> DOMAIN Keys \cup DOMAIN Deletable] BY <1>9 DEF DeleteKey
    <3>2. keyring' \in Secrets BY <1>9 DEF DeleteKey
    <3>3. QED BY <1>9, <3>1, <3>2 DEF DeleteKey
  <2>2. StageInv' BY <1>9 DEF DeleteKey
  <2>3. QED BY <2>1, <2>2
<1>10. ASSUME NEW j \in Jobs, ReadKey(j) PROVE TypeOK' /\ StageInv'
  <2>1. Append(got[j], keyring[Fields[next[j]]]) \in Values
    BY <1>10 DEF ReadKey, Values
  <2>2. Len(Append(got[j], keyring[Fields[next[j]]])) = Len(got[j]) + 1
    BY DEF Values
  <2>3. TypeOK'
    <3>1. next' \in [Users -> DOMAIN Keys \cup DOMAIN Deletable]
      <4>1. /\ 1 \in DOMAIN Keys /\ stage[j] = "read"
            /\ next[j] < Len(Fields) => next[j] + 1 \in DOMAIN Keys
        BY <1>10 DEF ReadKey
      <4>2. \/ next' = [next EXCEPT ![j] = 1]
            \/ next[j] < Len(Fields) /\ next' = [next EXCEPT ![j] = next[j] + 1]
        BY <1>10 DEF ReadKey
      <4>3. QED BY <4>1, <4>2
    <3>2. got' \in [Jobs -> Values] BY <1>10, <2>1 DEF ReadKey
    <3>3. QED BY <1>10, <3>1, <3>2 DEF ReadKey
  <2>4. StageInv' BY <1>10, <2>2 DEF ReadKey
  <2>5. QED BY <2>3, <2>4
<1>11. ASSUME NEW j \in Jobs, OpenFile(j) PROVE TypeOK' /\ StageInv'
  BY <1>11 DEF OpenFile, FileOf, Values
<1>12. ASSUME NEW j \in Jobs, FillFile(j) PROVE TypeOK' /\ StageInv'
  BY <1>12 DEF FillFile, FileOf
<1>13. ASSUME NEW j \in Jobs, Install(j) PROVE TypeOK' /\ StageInv'
  BY <1>13 DEF Install
<1>14. QED
  BY <1>1, <1>2, <1>3, <1>4, <1>5, <1>6, <1>7, <1>8, <1>9, <1>10, <1>11, <1>12, <1>13
  DEF Next, Set, Delete, Job

\* Who runs has begun, and nobody is idle again.
LEMMA Moves ==
  ASSUME TypeOK, [Next]_vars, NEW u \in Users
  PROVE  /\ stage[u] # "idle" => stage'[u] # "idle"
         /\ Running(u)' => Running(u) \/ \E s \in Stages : Begin(u, s)
         /\ u \in Jobs /\ stage[u] \notin {"idle", "read"} =>
              stage'[u] \notin {"idle", "read"} /\ got'[u] = got[u]
<1> DEFINE Goal == /\ stage[u] # "idle" => stage'[u] # "idle"
                   /\ Running(u)' => Running(u) \/ \E s \in Stages : Begin(u, s)
                   /\ u \in Jobs /\ stage[u] \notin {"idle", "read"} =>
                        stage'[u] \notin {"idle", "read"} /\ got'[u] = got[u]
<1> USE DEF TypeOK, Users, Stages, Over, Goto, Running
<1>1. CASE UNCHANGED vars BY <1>1 DEF vars
<1>2. ASSUME NEW v \in Users, NEW s \in Stages \ {"idle"}, Begin(v, s) PROVE Goal
  BY <1>2 DEF Begin
<1>3. ASSUME NEW v \in Users, Fail(v) PROVE Goal
  BY <1>3 DEF Fail
<1>4. ASSUME NEW c \in Sets, StoreKey(c) PROVE Goal BY <1>4 DEF StoreKey, KeyStored
<1>5. ASSUME NEW c \in Sets, ReadVault(c) PROVE Goal BY <1>5 DEF ReadVault
<1>6. ASSUME NEW c \in Sets, WriteVault(c) PROVE Goal BY <1>6 DEF WriteVault, KeyStored
<1>7. ASSUME NEW c \in Deletes, DeleteKey(c) PROVE Goal BY <1>7 DEF DeleteKey
<1>8. ASSUME NEW j \in Jobs, ReadKey(j) PROVE Goal BY <1>8 DEF ReadKey
<1>9. ASSUME NEW j \in Jobs, OpenFile(j) \/ FillFile(j) \/ Install(j) PROVE Goal
  BY <1>9 DEF OpenFile, FillFile, Install
<1>10. QED BY <1>1, <1>2, <1>3, <1>4, <1>5, <1>6, <1>7, <1>8, <1>9
  DEF Next, Set, Delete, Job

\* Only what may overlap begins while something runs.
LEMMA NextExclusive ==
  ASSUME TypeOK, Exclusive, [Next]_vars
  PROVE  Exclusive'
<1>1. ASSUME NEW u \in Users, NEW v \in Users, u # v, Running(u)', Running(v)',
             NEW s \in Stages, Begin(u, s)
      PROVE  {u, v} \cap Overlapping # {}
  <2>1. Running(v) BY <1>1 DEF Begin, Goto, TypeOK, Running
  <2>2. QED BY <1>1, <2>1 DEF Begin
<1>2. QED BY <1>1, Moves DEF Exclusive

\* The Vault's secret does not change under a `set` that is alone.
LEMMA NextSeenInv ==
  ASSUME IInv, [Next]_vars
  PROVE  SeenInv'
<1> USE DEF IInv, TypeOK, Users, Stages, Over, Goto
<1>1. Disturbed => Disturbed' BY Moves DEF Disturbed
<1>2. CASE vault' = vault /\ seen' = seen /\ \A c \in Sets : stage'[c] = "write" => stage[c] = "write"
  BY <1>1, <1>2 DEF SeenInv
<1>3. ASSUME NEW c \in Sets, ReadVault(c) PROVE SeenInv'
  <2>1. c \in Unlucky \/ seen' = [seen EXCEPT ![c] = vault]
    BY <1>3 DEF ReadVault
  <2>2. c \in Unlucky => Disturbed' BY <1>3 DEF ReadVault, Disturbed
  <2>3. QED BY <1>1, <1>3, <2>1, <2>2 DEF ReadVault, SeenInv
<1>4. ASSUME NEW c \in Sets, WriteVault(c) PROVE SeenInv'
  <2>1. ASSUME NEW d \in Sets, stage'[d] = "write" PROVE Disturbed'
    <3>1. d # c /\ stage[d] = "write" /\ stage[c] = "write"
      BY <1>4, <2>1 DEF WriteVault, KeyStored
    <3>2. {c, d} \cap Overlapping # {} BY <3>1 DEF Exclusive, Running
    <3>3. QED BY <1>1, <3>1, <3>2 DEF Disturbed
  <2>2. QED BY <2>1 DEF SeenInv
<1>5. CASE UNCHANGED vars BY <1>2, <1>5 DEF vars
<1>6. ASSUME NEW u \in Users, NEW s \in Stages \ {"write"}, Begin(u, s) PROVE SeenInv'
  BY <1>2, <1>6 DEF Begin
<1>7. ASSUME NEW u \in Users, Fail(u) PROVE SeenInv'
  BY <1>2, <1>7 DEF Fail
<1>8. ASSUME NEW c \in Sets, StoreKey(c) PROVE SeenInv'
  BY <1>2, <1>8 DEF StoreKey, KeyStored
<1>9. ASSUME NEW c \in Deletes, DeleteKey(c) PROVE SeenInv'
  BY <1>2, <1>9 DEF DeleteKey
<1>10. ASSUME NEW j \in Jobs, ReadKey(j) PROVE SeenInv'
  BY <1>2, <1>10 DEF ReadKey
<1>11. ASSUME NEW j \in Jobs, OpenFile(j) \/ FillFile(j) \/ Install(j) PROVE SeenInv'
  BY <1>2, <1>11 DEF OpenFile, FillFile, Install
<1>12. QED
  BY <1>3, <1>4, <1>5, <1>6, <1>7, <1>8, <1>9, <1>10, <1>11 DEF Next, Set, Delete, Job

\* Files and installers hold what a job of their home has read.
LEMMA NextFileInv ==
  ASSUME IInv, [Next]_vars
  PROVE  FileInv'
<1> USE DEF IInv, TypeOK, Users, Stages, Over, Goto
<1>1. home' = home
  BY DEF Next, Set, Delete, Job, Begin, Fail, StoreKey, ReadVault, WriteVault, DeleteKey,
         ReadKey, OpenFile, FillFile, Install, vars
<1>2. ASSUME NEW j \in Jobs, NEW h, NEW values, HasRead(j, h, values)
      PROVE  HasRead(j, h, values)'
  BY <1>1, <1>2, Moves DEF HasRead
<1>3. CASE file' = file /\ used' = used
  BY <1>1, <1>2, <1>3 DEF FileInv
<1>4. ASSUME NEW j \in Jobs, OpenFile(j) PROVE FileInv'
  BY <1>1, <1>2, <1>4 DEF OpenFile, FileInv
<1>5. ASSUME NEW j \in Jobs, FillFile(j) PROVE FileInv'
  <2>1. HasRead(j, home[j], got[j]) BY <1>5 DEF FillFile, HasRead
  <2>2. file' = [file EXCEPT ![home[j]] = got[j]] /\ used' = used
    BY <1>5 DEF FillFile, FileOf
  <2>3. QED BY <1>1, <1>2, <2>1, <2>2 DEF FileInv
<1>6. ASSUME NEW j \in Jobs, Install(j) PROVE FileInv'
  <2>1. used' = [used EXCEPT ![j] = file[home[j]]] /\ file' = file
    BY <1>6 DEF Install
  <2>2. QED BY <1>1, <1>2, <2>1 DEF FileInv
<1>7. QED
  BY <1>3, <1>4, <1>5, <1>6
  DEF Next, Set, Delete, Job, Begin, Fail, StoreKey, ReadVault, WriteVault, DeleteKey, ReadKey,
      vars

\* The invariant is inductive.
LEMMA NextIInv == IInv /\ [Next]_vars => IInv'
  BY NextTypeOK, NextExclusive, NextSeenInv, NextFileInv DEF IInv

\* The inductive invariant holds throughout.
THEOREM Inductive == Spec => []IInv
  BY InitIInv, NextIInv, PTL DEF Spec

\* Type correctness of every variable, for all constants.
THEOREM TypeCorrect == Spec => []TypeOK
<1>1. IInv => TypeOK BY DEF IInv
<1>2. QED BY Inductive, <1>1, PTL

\* An installer that does not use what its own job has read uses what a job of the
\* same account has read (cloud_credentials.py 40-45, 64-67).
THEOREM Own == Spec => []OwnCredentials
<1>1. IInv => OwnCredentials
  <2> SUFFICES ASSUME IInv, NEW i \in Jobs, used[i] # <<>>, used[i] # got[i]
               PROVE  \E j \in Jobs \ {i} : home[j] = home[i] /\ used[i] = got[j]
      BY DEF OwnCredentials
  <2>1. PICK j \in Jobs : HasRead(j, home[i], used[i]) BY DEF IInv, FileInv
  <2>2. QED BY <2>1 DEF HasRead
<1>2. QED BY Inductive, <1>1, PTL

\* A `set` in Vault changes its own key only, unless its read failed or another
\* `set` came between (secrets.py 68-81).
THEOREM Keeps == Spec => VaultKeepsOthers
<1> DEFINE A == \A k \in KeySet : vault'[k] # vault[k] =>
                  \/ \E c \in Sets : stage[c] = "write" /\ KeyOf(c) = k
                  \/ \E c \in Sets \cap (Overlapping \cup Unlucky) : stage[c] # "idle"
<1>1. ASSUME IInv, [Next]_vars PROVE A
  <2>1. ASSUME NEW c \in Sets, WriteVault(c) PROVE A
    <3>1. stage[c] = "write" /\ vault' = [seen[c] EXCEPT ![KeyOf(c)] = c]
      BY <2>1 DEF WriteVault, KeyStored, Goto
    <3>2. seen[c] = vault \/ Disturbed BY <1>1, <3>1 DEF IInv, SeenInv
    <3>3. seen[c] \in Secrets BY <1>1 DEF IInv, TypeOK
    <3>4. QED BY <3>1, <3>2, <3>3 DEF Disturbed, Secrets
  <2>2. CASE vault' = vault BY <2>2
  <2>3. QED
    BY <1>1, <2>1, <2>2
    DEF Next, Set, Delete, Job, Begin, Fail, StoreKey, ReadVault, DeleteKey, ReadKey, OpenFile,
        FillFile, Install, vars
<1>2. QED BY Inductive, <1>1, PTL DEF Spec, VaultKeepsOthers

-----------------------------------------------------------------------------
(* One `set` *)

Excused == Overlapped \/ \E c \in Sets : stage[c] = "failed"

Uniform(values) == \A i, k \in DOMAIN values : values[i] = values[k]

\* Whole, and of one `set` unless that is excused
Good(values) ==
  Len(values) = Len(Fields) /\ Complete(values) /\ (Uniform(values) \/ Excused)

\* The fields that a running `set` has come past are its own, the others are
\* those of one `set`, or missing.
Passed(i) == \E c \in Sets : stage[c] = "store" /\ i < next[c]
KeyringInv ==
  /\ \A c \in Sets, i \in DOMAIN Fields :
       stage[c] = "store" /\ i < next[c] => keyring[Fields[i]] = c
  /\ \E c \in Sets \cup {NoOne} : \A i \in DOMAIN Fields :
       Passed(i) \/ keyring[Fields[i]] \in {c, NoOne}

ReadInv ==
  \A j \in Jobs : stage[j] = "read" => \A i \in DOMAIN got[j] : got[j][i] = keyring[Fields[i]]

StagedInv ==
  /\ \A j \in Jobs : stage[j] \in {"open", "fill", "install"} => Good(got[j])
  /\ \A h \in Homes : file[h] # <<>> => Good(file[h])
  /\ \A j \in Jobs : used[j] # <<>> => Good(used[j])

OneSetInv == StagedInv /\ (Excused \/ (KeyringInv /\ ReadInv))


\* A key that is at another place is another key.
LEMMA FieldsDiffer ==
  /\ \A i \in DOMAIN Fields : i \in DOMAIN Keys /\ Keys[i] = Fields[i]
  /\ \A i \in DOMAIN Fields, k \in DOMAIN Keys : Fields[i] = Keys[k] => i = k
<1>1. Fields \in Seq(KeySet) BY KeysAssumption
<1>2. \A i \in DOMAIN Fields : i \in DOMAIN Keys /\ Keys[i] = Fields[i]
  BY <1>1, KeysAreFieldsAndOne DEF Keys
<1>3. QED BY <1>2, KeysAssumption

\* What is excused stays excused: nobody is idle again, and a `set` that has failed
\* is not run again.
LEMMA ExcusedStays ==
  ASSUME IInv, [Next]_vars, Excused
  PROVE  Excused'
<1> USE DEF IInv, TypeOK, Users, Stages, Over, Goto
<1>1. CASE Overlapped
  <2>1. PICK u \in Overlapping : stage[u] # "idle" BY <1>1 DEF Overlapped
  <2>2. u \in Users BY UsersAssumption
  <2>3. stage'[u] # "idle" BY <2>1, <2>2, Moves
  <2>4. QED BY <2>3 DEF Overlapped, Excused
<1>2. ASSUME NEW c \in Sets, stage[c] = "failed" PROVE stage'[c] = "failed"
  <2>1. ASSUME NEW u \in Users, NEW s \in Stages, Begin(u, s) \/ Fail(u) PROVE stage'[c] = "failed"
    BY <1>2, <2>1 DEF Begin, Fail, Running
  <2>2. ASSUME NEW d \in Sets, StoreKey(d) \/ ReadVault(d) \/ WriteVault(d) PROVE stage'[c] = "failed"
    BY <1>2, <2>2 DEF StoreKey, ReadVault, WriteVault, KeyStored
  <2>3. ASSUME NEW d \in Deletes, DeleteKey(d) PROVE stage'[c] = "failed"
    BY <1>2, <2>3 DEF DeleteKey
  <2>4. ASSUME NEW j \in Jobs, ReadKey(j) PROVE stage'[c] = "failed"
    BY <1>2, <2>4 DEF ReadKey
  <2>5. ASSUME NEW j \in Jobs, OpenFile(j) \/ FillFile(j) \/ Install(j) PROVE stage'[c] = "failed"
    BY <1>2, <2>5 DEF OpenFile, FillFile, Install
  <2>6. CASE UNCHANGED vars BY <1>2, <2>6 DEF vars
  <2>7. QED BY <2>1, <2>2, <2>3, <2>4, <2>5, <2>6 DEF Next, Set, Delete, Job
<1>3. QED BY <1>1, <1>2 DEF Excused

\* While nothing is excused, one command or job runs at a time.
LEMMA Alone ==
  ASSUME IInv, ~Excused, NEW u \in Users, NEW v \in Users, Running(u), Running(v)
  PROVE  u = v
<1> SUFFICES ASSUME u # v PROVE FALSE
    OBVIOUS
<1>1. {u, v} \cap Overlapping # {} BY DEF IInv, Exclusive
<1>2. QED BY <1>1 DEF Running, Excused, Overlapped

\* What the keyring holds after a step that nothing excuses (credentials.py 45-57,
\* 66-91).
LEMMA NextKeyringInv ==
  ASSUME IInv, [Next]_vars, KeyringInv, ~Excused, ~Excused'
  PROVE  KeyringInv'
<1> USE UsersAssumption, KeysAreFieldsAndOne
    DEF IInv, TypeOK, Users, Stages, Over, Goto
<1>1. PICK given \in Sets \cup {NoOne} :
        \A i \in DOMAIN Fields : Passed(i) \/ keyring[Fields[i]] \in {given, NoOne}
  BY DEF KeyringInv
<1>2. CASE /\ keyring' = keyring
           /\ \A c \in Sets : (stage'[c] = "store") <=> (stage[c] = "store")
           /\ \A c \in Sets : stage[c] = "store" => next'[c] = next[c]
  <2>1. \A i : Passed(i)' <=> Passed(i) BY <1>2 DEF Passed
  <2>2. QED BY <1>1, <1>2, <2>1 DEF KeyringInv
<1>3. ASSUME NEW c \in Sets, Begin(c, "store") PROVE KeyringInv'
  <2>1. /\ keyring' = keyring /\ next' = next /\ next[c] = 1 /\ stage[c] = "idle"
        /\ stage' = [stage EXCEPT ![c] = "store"]
    BY <1>3 DEF Begin, StageInv
  <2>2. \A i \in DOMAIN Fields : Passed(i)' <=> Passed(i) BY <2>1 DEF Passed
  <2>3. \A d \in Sets, i \in DOMAIN Fields : 
          stage'[d] = "store" /\ i < next'[d] => stage[d] = "store" /\ i < next[d]
    BY <2>1
  <2>4. QED BY <1>1, <2>1, <2>2, <2>3 DEF KeyringInv
<1>4. ASSUME NEW c \in Sets, StoreKey(c) PROVE KeyringInv'
  <2>1. /\ stage[c] = "store" /\ next[c] \in 1 .. Len(Fields) + 1
        /\ keyring' = [keyring EXCEPT ![Keys[next[c]]] = c]
    BY <1>4 DEF StoreKey, KeyStored, KeyOf, StageInv, SetStages
  <2>2. \A d \in Sets : stage[d] = "store" => d = c
    BY <2>1, Alone DEF Running
  <2>3. ASSUME NEW i \in DOMAIN Fields
        PROVE  keyring'[Fields[i]] = IF i = next[c] THEN c ELSE keyring[Fields[i]]
    BY <2>1, FieldsDiffer DEF Secrets
  <2>4. \A i \in DOMAIN Fields : i <= next[c] => keyring'[Fields[i]] = c
    BY <2>1, <2>3 DEF KeyringInv
  <2>5. CASE next[c] <= Len(Fields) /\ stage' = stage /\ next' = [next EXCEPT ![c] = next[c] + 1]
    <3>1. \A i \in DOMAIN Fields : Passed(i)' <=> i <= next[c]
      BY <2>1, <2>2, <2>5 DEF Passed
    <3>2. \A i \in DOMAIN Fields : Passed(i) => i < next[c]
      BY <2>2 DEF Passed
    <3>3. \A i \in DOMAIN Fields : Passed(i)' \/ keyring'[Fields[i]] \in {given, NoOne}
      BY <1>1, <2>1, <2>3, <3>1, <3>2
    <3>4. \A d \in Sets, i \in DOMAIN Fields :
            stage'[d] = "store" /\ i < next'[d] => keyring'[Fields[i]] = d
      BY <2>1, <2>2, <2>4, <2>5
    <3>5. QED BY <3>3, <3>4 DEF KeyringInv
  <2>6. CASE next[c] >= Len(Fields) /\ stage' = [stage EXCEPT ![c] = "done"]
    <3>1. \A d \in Sets : stage'[d] # "store" BY <2>2, <2>6
    <3>2. \A i \in DOMAIN Fields : keyring'[Fields[i]] = c BY <2>1, <2>4, <2>6
    <3>3. QED BY <3>1, <3>2 DEF KeyringInv
  <2>7. stage' = stage \/ stage' = [stage EXCEPT ![c] = "done"]
    BY <1>4 DEF StoreKey, KeyStored
  <2>8. QED BY <1>4, <2>1, <2>5, <2>6 DEF StoreKey, KeyStored
<1>5. ASSUME NEW c \in Deletes, DeleteKey(c) PROVE KeyringInv'
  <2>1. \A d \in Sets : stage[d] # "store"
    BY <1>5, Alone DEF DeleteKey, Running
  <2>2. \A d \in Sets : stage'[d] = stage[d]
    BY <1>5 DEF DeleteKey
  <2>3. \A i \in DOMAIN Fields : keyring'[Fields[i]] \in {keyring[Fields[i]], NoOne}
    BY <1>5 DEF DeleteKey
  <2>4. QED BY <1>1, <2>1, <2>2, <2>3 DEF KeyringInv, Passed
<1>6. ASSUME NEW u \in Users, Fail(u) PROVE KeyringInv'
  <2>1. u \notin Sets BY <1>6 DEF Fail, Excused
  <2>2. QED BY <1>2, <1>6, <2>1 DEF Fail
<1>7. ASSUME NEW u \in Users, NEW s \in Stages \ {"store"}, Begin(u, s) PROVE KeyringInv'
  BY <1>2, <1>7 DEF Begin
<1>8. ASSUME NEW c \in Sets, ReadVault(c) PROVE KeyringInv'
  BY <1>2, <1>8 DEF ReadVault
<1>9. ASSUME NEW c \in Sets, WriteVault(c) PROVE KeyringInv'
  BY <1>2, <1>9 DEF WriteVault, KeyStored
<1>10. ASSUME NEW j \in Jobs, ReadKey(j) PROVE KeyringInv'
  BY <1>2, <1>10 DEF ReadKey
<1>11. ASSUME NEW j \in Jobs, OpenFile(j) \/ FillFile(j) \/ Install(j) PROVE KeyringInv'
  BY <1>2, <1>11 DEF OpenFile, FillFile, Install
<1>12. CASE UNCHANGED vars BY <1>2, <1>12 DEF vars
<1>13. QED
  BY <1>3, <1>4, <1>5, <1>6, <1>7, <1>8, <1>9, <1>10, <1>11, <1>12 DEF Next, Set, Delete, Job

\* What a job has read is still there while it reads the rest (cloud_credentials.py
\* 57-67).
LEMMA NextReadInv ==
  ASSUME IInv, [Next]_vars, ReadInv, ~Excused
  PROVE  ReadInv'
<1> USE UsersAssumption, KeysAreFieldsAndOne
    DEF IInv, TypeOK, Users, Stages, Over, Goto
<1>1. CASE /\ \A j \in Jobs : stage'[j] = "read" => stage[j] = "read" /\ got'[j] = got[j]
           /\ keyring' = keyring \/ \A j \in Jobs : stage[j] # "read"
  BY <1>1 DEF ReadInv
<1>2. ASSUME NEW j \in Jobs, Begin(j, "read") PROVE ReadInv'
  <2>1. got' = got /\ keyring' = keyring /\ got[j] = <<>>
    BY <1>2 DEF Begin, StageInv
  <2>2. \A i \in Jobs : stage'[i] = "read" => i = j \/ stage[i] = "read"
    BY <1>2 DEF Begin
  <2>3. QED BY <2>1, <2>2 DEF ReadInv
<1>3. ASSUME NEW j \in Jobs, ReadKey(j) PROVE ReadInv'
  <2> DEFINE values == Append(got[j], keyring[Fields[next[j]]])
  <2>1. /\ stage[j] = "read" /\ keyring' = keyring /\ got' = [got EXCEPT ![j] = values]
        /\ \A i \in Jobs : stage'[i] = "read" => stage[i] = "read"
    BY <1>3 DEF ReadKey
  <2>2. Len(got[j]) = next[j] - 1 /\ got[j] \in Seq(Sets \cup {NoOne})
    BY <2>1 DEF StageInv, Values
  <2>3. ASSUME NEW i \in DOMAIN values PROVE values[i] = keyring[Fields[i]]
    <3>1. i \in DOMAIN got[j] \/ i = next[j] BY <2>2
    <3>2. CASE i \in DOMAIN got[j]
      <4>1. values[i] = got[j][i] BY <2>2, <3>2
      <4>2. QED BY <2>1, <3>2, <4>1 DEF ReadInv
    <3>3. CASE i = next[j] BY <2>2, <3>3
    <3>4. QED BY <3>1, <3>2, <3>3
  <2>4. QED BY <2>1, <2>3 DEF ReadInv
<1>4. ASSUME NEW c \in Sets, StoreKey(c) PROVE ReadInv'
  <2>1. \A j \in Jobs : stage[j] # "read"
    BY <1>4, Alone DEF StoreKey, KeyStored, Running
  <2>2. \A j \in Jobs : stage'[j] = stage[j]
    BY <1>4 DEF StoreKey, KeyStored
  <2>3. QED BY <2>1, <2>2 DEF ReadInv
<1>5. ASSUME NEW c \in Deletes, DeleteKey(c) PROVE ReadInv'
  <2>1. \A j \in Jobs : stage[j] # "read"
    BY <1>5, Alone DEF DeleteKey, Running
  <2>2. \A j \in Jobs : stage'[j] = stage[j]
    BY <1>5 DEF DeleteKey
  <2>3. QED BY <2>1, <2>2 DEF ReadInv
<1>6. ASSUME NEW u \in Users, Fail(u) PROVE ReadInv'
  BY <1>1, <1>6 DEF Fail
<1>7. ASSUME NEW u \in Users, NEW s \in Stages \ {"read"}, Begin(u, s) PROVE ReadInv'
  BY <1>1, <1>7 DEF Begin
<1>8. ASSUME NEW c \in Sets, ReadVault(c) PROVE ReadInv'
  BY <1>1, <1>8 DEF ReadVault
<1>9. ASSUME NEW c \in Sets, WriteVault(c) PROVE ReadInv'
  BY <1>1, <1>9 DEF WriteVault, KeyStored
<1>10. ASSUME NEW j \in Jobs, OpenFile(j) \/ FillFile(j) \/ Install(j) PROVE ReadInv'
  BY <1>1, <1>10 DEF OpenFile, FillFile, Install
<1>11. CASE UNCHANGED vars BY <1>1, <1>11 DEF vars
<1>12. QED
  BY <1>2, <1>3, <1>4, <1>5, <1>6, <1>7, <1>8, <1>9, <1>10, <1>11 DEF Next, Set, Delete, Job

\* A job that has found every key has found those of one `set` (cloud_credentials.py
\* 57-63).
LEMMA AllRead ==
  ASSUME IInv, OneSetInv, [Next]_vars, NEW j \in Jobs, ReadKey(j), stage'[j] = "open"
  PROVE  Good(got[j])'
<1> USE KeysAreFieldsAndOne DEF IInv, TypeOK, Users, Stages, Over, Goto
<1> DEFINE values == Append(got[j], keyring[Fields[next[j]]])
<1>1. /\ stage[j] = "read" /\ got'[j] = values /\ next[j] \in DOMAIN Fields
      /\ ~(next[j] < Len(Fields)) /\ Complete(values)
  BY DEF ReadKey, Present, StageInv
<1>2. got[j] \in Seq(Sets \cup {NoOne}) /\ Len(got[j]) = next[j] - 1
  BY <1>1 DEF StageInv, Values
<1>3. Len(values) = Len(Fields) /\ DOMAIN values = DOMAIN Fields
  <2>1. Len(Fields) \in Nat /\ next[j] = Len(Fields) BY <1>1
  <2>2. keyring[Fields[next[j]]] \in Sets \cup {NoOne} BY <1>1 DEF Secrets
  <2>3. values \in Seq(Sets \cup {NoOne}) /\ Len(values) = Len(got[j]) + 1
    BY <1>2, <2>2
  <2> HIDE DEF values
  <2>4. Len(values) = Len(Fields)
    <3>1. Len(got[j]) + 1 = Len(Fields)
      <4>1. \A n \in Nat : (n - 1) + 1 = n OBVIOUS
      <4>2. QED BY <1>2, <2>1, <4>1, Zenon
    <3>2. QED BY <2>3, <3>1, Zenon
  <2>5. DOMAIN values = 1 .. Len(values) BY <2>3
  <2>6. QED BY <2>4, <2>5
<1>4. ASSUME ~Excused' PROVE Uniform(values)
  <2>1. ~Excused BY <1>4, ExcusedStays
  <2>2. KeyringInv /\ ReadInv BY <2>1 DEF OneSetInv
  <2>3. \A i : ~Passed(i)
    BY <1>1, <2>1, Alone, UsersAssumption DEF Passed, Running
  <2>4. PICK given \in Sets \cup {NoOne} :
          \A i \in DOMAIN Fields : keyring[Fields[i]] \in {given, NoOne}
    BY <2>2, <2>3 DEF KeyringInv
  <2>5. \A i \in DOMAIN values : values[i] = keyring[Fields[i]]
    BY <1>1, <1>2, <2>2 DEF ReadInv
  <2>6. \A i \in DOMAIN values : values[i] = given
    BY <1>1, <1>3, <2>4, <2>5 DEF Complete
  <2>7. QED BY <2>6 DEF Uniform
<1>5. QED BY <1>1, <1>3, <1>4 DEF Good, Uniform, Complete

\* The file and the installer get what one job has read, in one piece
\* (cloud_credentials.py 57-67).
LEMMA NextStagedInv ==
  ASSUME IInv, OneSetInv, [Next]_vars
  PROVE  StagedInv'
<1> USE DEF IInv, TypeOK, Users, Stages, Over, Goto
<1>1. StagedInv BY DEF OneSetInv
<1>2. ASSUME NEW values, Good(values) PROVE Good(values)'
  BY <1>2, ExcusedStays DEF Good, Complete, Uniform
<1> DEFINE Staged(j) == stage[j] \in {"open", "fill", "install"}
<1>3. CASE /\ file' = file /\ used' = used
           /\ \A j \in Jobs : Staged(j)' => Staged(j) /\ got'[j] = got[j]
  BY <1>1, <1>2, <1>3 DEF StagedInv, Good
<1>4. ASSUME NEW j \in Jobs, ReadKey(j) PROVE StagedInv'
  <2>1. /\ file' = file /\ used' = used
        /\ \A i \in Jobs : Staged(i)' => (i = j /\ stage'[j] = "open") \/ (Staged(i) /\ got'[i] = got[i])
    BY <1>4 DEF ReadKey
  <2>2. stage'[j] = "open" => Good(got[j])' BY <1>4, AllRead
  <2>3. QED BY <1>1, <1>2, <2>1, <2>2 DEF StagedInv, Good
<1>5. ASSUME NEW j \in Jobs, OpenFile(j) PROVE StagedInv'
  <2>1. /\ used' = used /\ got' = got /\ file' = [file EXCEPT ![home[j]] = <<>>]
        /\ \A i \in Jobs : Staged(i)' => Staged(i)
    BY <1>5 DEF OpenFile, FileOf
  <2>2. QED BY <1>1, <1>2, <2>1 DEF StagedInv, Good
<1>6. ASSUME NEW j \in Jobs, FillFile(j) PROVE StagedInv'
  <2>1. /\ used' = used /\ got' = got /\ file' = [file EXCEPT ![home[j]] = got[j]]
        /\ Staged(j) /\ \A i \in Jobs : Staged(i)' => Staged(i)
    BY <1>6 DEF FillFile, FileOf
  <2>2. QED BY <1>1, <1>2, <2>1 DEF StagedInv, Good
<1>7. ASSUME NEW j \in Jobs, Install(j) PROVE StagedInv'
  <2>1. /\ file' = file /\ got' = got /\ used' = [used EXCEPT ![j] = file[home[j]]]
        /\ \A i \in Jobs : Staged(i)' => Staged(i)
    BY <1>7 DEF Install
  <2>2. QED BY <1>1, <1>2, <2>1 DEF StagedInv, Good
<1>8. ASSUME NEW u \in Users, NEW s \in {"store", "fetch", "delete", "read"}, Begin(u, s)
      PROVE  StagedInv'
  BY <1>3, <1>8 DEF Begin
<1>9. ASSUME NEW u \in Users, Fail(u) PROVE StagedInv'
  BY <1>3, <1>9 DEF Fail
<1>10. ASSUME NEW c \in Sets, StoreKey(c) \/ ReadVault(c) \/ WriteVault(c) PROVE StagedInv'
  BY <1>3, <1>10 DEF StoreKey, ReadVault, WriteVault, KeyStored
<1>11. ASSUME NEW c \in Deletes, DeleteKey(c) PROVE StagedInv'
  BY <1>3, <1>11 DEF DeleteKey
<1>12. CASE UNCHANGED vars BY <1>3, <1>12 DEF vars
<1>13. QED
  BY <1>4, <1>5, <1>6, <1>7, <1>8, <1>9, <1>10, <1>11, <1>12 DEF Next, Set, Delete, Job

\* What an installer signs in with is whole and of one `set`, for any commands, jobs
\* and keys, unless a `set` stopped half-way or something overlapped
\* (credentials.py 45-48, cloud_credentials.py 57-67).
THEOREM One == Spec => []OneSet
<1>1. Init => OneSetInv
  <2>1. Init => StagedInv BY DEF Init, StagedInv, Users
  <2>2. Init => KeyringInv /\ ReadInv
    BY KeysAreFieldsAndOne, UsersAssumption
    DEF Init, KeyringInv, ReadInv, Users, Empty
  <2>3. QED BY <2>1, <2>2 DEF OneSetInv
<1>2. IInv /\ OneSetInv /\ [Next]_vars => OneSetInv'
  BY NextStagedInv, NextKeyringInv, NextReadInv, ExcusedStays DEF OneSetInv
<1>3. OneSetInv => OneSet
  BY DEF OneSetInv, StagedInv, Good, Uniform, Excused, OneSet
<1>4. QED BY Inductive, <1>1, <1>2, <1>3, PTL DEF Spec
===============================================================================
