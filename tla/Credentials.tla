----------------------------- MODULE Credentials -----------------------------
(***************************************************************************)
(* The credentials of one cloud platform: `credentials set` and `delete`   *)
(* (cli/credentials.py) over the keyring or the team's Vault               *)
(* (secrets.py), and the install jobs, which copy what the keyring holds   *)
(* to a file in the home directory of the bastion's user, where the        *)
(* installer looks for it (cloud_credentials.py).  A set of credentials is *)
(* one thing for the cloud; here it is stored, deleted and read one key at *)
(* a time.                                                                 *)
(*                                                                         *)
(* A value is named by the `set` that stored it.  The keyring keeps one    *)
(* value a key; the Vault keeps one secret with all the keys, which is     *)
(* read, changed and written back.  The keyring, the Vault, the bastion's  *)
(* files and the installer are outside the program.                        *)
(***************************************************************************)
EXTENDS Integers, Sequences

CONSTANTS
  Sets, Deletes, Jobs,   \* commands and install jobs, each run once
  Overlapping,           \* those that may begin while others run
  Unlucky,               \* commands that may fail, or whose Vault reads may
  Fields,                \* the platform's keys, in the order of _cloud_fields
  PullSecret,            \* the key that may be stored after them
  Deletable,             \* the keys that `delete` names, whatever the platform
  Homes,                 \* home directories of bastions' users
  NoOne

Users == Sets \cup Deletes \cup Jobs
Keys == Fields \o <<PullSecret>>
KeySet == {Keys[i] : i \in DOMAIN Keys}

ASSUME UsersAssumption ==
  /\ Sets \cap Deletes = {} /\ Sets \cap Jobs = {} /\ Deletes \cap Jobs = {}
  /\ Overlapping \cup Unlucky \subseteq Users
  /\ NoOne \notin Sets
ASSUME KeysAssumption ==
  /\ Fields \in Seq(KeySet) /\ Fields # <<>>
  /\ Deletable \in Seq({Deletable[i] : i \in DOMAIN Deletable}) /\ Deletable # <<>>
  /\ \A i, k \in DOMAIN Keys : Keys[i] = Keys[k] => i = k

VARIABLES
  home,      \* home[j]: the directory that job j writes to
  keyring,   \* keyring[k]: the `set` whose value is stored, or NoOne
  vault,     \* the same for the Vault's secret of the platform
  file,      \* file[h]: the credentials file in a home: the values of Fields, or <<>>
  stage,     \* stage[u]: what a command or a job does next
  next,      \* next[u]: the key it is at
  seen,      \* seen[c]: the Vault's secret as a `set` has read it
  got,       \* got[j]: the values a job has read
  used       \* used[j]: what the installer of a job found in the file

vars == <<home, keyring, vault, file, stage, next, seen, got, used>>

Secrets == [KeySet -> Sets \cup {NoOne}]
Empty == [k \in KeySet |-> NoOne]
Values == {v \in Seq(Sets \cup {NoOne}) : Len(v) <= Len(Fields)}

Over == {"done", "failed"}
Stages == {"idle", "store", "fetch", "write", "delete", "read", "open", "fill", "install"} \cup Over

TypeOK ==
  /\ home \in [Jobs -> Homes]
  /\ keyring \in Secrets /\ vault \in Secrets
  /\ file \in [Homes -> Values]
  /\ stage \in [Users -> Stages]
  /\ next \in [Users -> DOMAIN Keys \cup DOMAIN Deletable]
  /\ seen \in [Sets -> Secrets]
  /\ got \in [Jobs -> Values] /\ used \in [Jobs -> Values]

Init ==
  /\ home \in [Jobs -> Homes]
  /\ keyring = Empty /\ vault = Empty
  /\ file = [h \in Homes |-> <<>>]
  /\ stage = [u \in Users |-> "idle"]
  /\ next = [u \in Users |-> 1]
  /\ seen = [c \in Sets |-> Empty]
  /\ got = [j \in Jobs |-> <<>>] /\ used = [j \in Jobs |-> <<>>]

-----------------------------------------------------------------------------
Running(u) == stage[u] \notin {"idle"} \cup Over

Goto(u, here, there) == stage[u] = here /\ stage' = [stage EXCEPT ![u] = there]

Begin(u, first) ==
  /\ u \in Overlapping \/ \A v \in Users : ~Running(v)
  /\ Goto(u, "idle", first)
  /\ UNCHANGED <<home, keyring, vault, file, next, seen, got, used>>

\* ^C at a prompt, no keyring, no Vault, no bastion
Fail(u) ==
  /\ u \in Unlucky /\ Running(u)
  /\ stage' = [stage EXCEPT ![u] = "failed"]
  /\ UNCHANGED <<home, keyring, vault, file, next, seen, got, used>>

-----------------------------------------------------------------------------
(* credentials set, with --backend keyring ("store") or vault ("fetch") *)

KeyOf(c) == Keys[next[c]]

\* The next prompt; after the fields the pull secret is asked for, or is not wanted
KeyStored(c, here, again) ==
  \/ /\ next[c] <= Len(Fields)
     /\ Goto(c, here, again)
     /\ next' = [next EXCEPT ![c] = @ + 1]
  \/ /\ next[c] >= Len(Fields)
     /\ Goto(c, here, "done")
     /\ next' = [next EXCEPT ![c] = 1]

\* set_keyring_secret, of what the prompt has returned
StoreKey(c) ==
  /\ KeyStored(c, "store", "store")
  /\ keyring' = [keyring EXCEPT ![KeyOf(c)] = c]
  /\ UNCHANGED <<home, vault, file, seen, got, used>>

\* set_vault_secret: a read that fails, for whatever reason, has read nothing
ReadVault(c) ==
  /\ Goto(c, "fetch", "write")
  /\ \E secret \in {vault} \cup (IF c \in Unlucky THEN {Empty} ELSE {}) :
       seen' = [seen EXCEPT ![c] = secret]
  /\ UNCHANGED <<home, keyring, vault, file, next, got, used>>

\* Bug: the secret is replaced by the one key.
WriteVaultKey(c) ==
  /\ KeyStored(c, "write", "fetch")
  /\ vault' = [Empty EXCEPT ![KeyOf(c)] = c]
  /\ UNCHANGED <<home, keyring, file, seen, got, used>>

WriteVault(c) ==
  /\ KeyStored(c, "write", "fetch")
  /\ vault' = [seen[c] EXCEPT ![KeyOf(c)] = c]
  /\ seen' = [seen EXCEPT ![c] = Empty]
  /\ UNCHANGED <<home, keyring, file, got, used>>

Set(c) == Begin(c, "store") \/ Begin(c, "fetch") \/ StoreKey(c) \/ ReadVault(c) \/ WriteVault(c) \/ Fail(c)

-----------------------------------------------------------------------------
(* credentials delete: of the keyring only *)

\* A key that is not there is passed over
DeleteKey(c) ==
  /\ stage[c] = "delete"
  /\ keyring' = [k \in KeySet |-> IF k = Deletable[next[c]] THEN NoOne ELSE keyring[k]]
  /\ IF next[c] < Len(Deletable)
     THEN next' = [next EXCEPT ![c] = @ + 1] /\ UNCHANGED stage
     ELSE stage' = [stage EXCEPT ![c] = "done"] /\ next' = [next EXCEPT ![c] = 1]
  /\ UNCHANGED <<home, vault, file, seen, got, used>>

Delete(c) == Begin(c, "delete") \/ DeleteKey(c) \/ Fail(c)

-----------------------------------------------------------------------------
(* An install job: stage(), then the installer *)

Complete(values) == \A i \in DOMAIN values : values[i] # NoOne

\* Bug: it is enough to have the last value.
CompleteAtTheEnd(values) == values[Len(values)] # NoOne

Present(values) == Complete(values)

ReadKey(j) ==
  LET values == Append(got[j], keyring[Fields[next[j]]])
  IN  /\ stage[j] = "read"
      /\ got' = [got EXCEPT ![j] = values]
      /\ IF next[j] < Len(Fields)
         THEN next' = [next EXCEPT ![j] = @ + 1] /\ UNCHANGED stage
         ELSE /\ stage' = [stage EXCEPT ![j] = IF Present(values) THEN "open" ELSE "failed"]
              /\ next' = [next EXCEPT ![j] = 1]
      /\ UNCHANGED <<home, keyring, vault, file, seen, used>>

\* Bug: one directory of the bastion for every job.
FileShared(j) == CHOOSE h \in Homes : TRUE

FileOf(j) == home[j]

\* write_file: sftp.open(.., "w") empties the file, write() fills it
OpenFile(j) ==
  /\ Goto(j, "open", "fill")
  /\ file' = [file EXCEPT ![FileOf(j)] = <<>>]
  /\ UNCHANGED <<home, keyring, vault, next, seen, got, used>>

FillFile(j) ==
  /\ Goto(j, "fill", "install")
  /\ file' = [file EXCEPT ![FileOf(j)] = got[j]]
  /\ UNCHANGED <<home, keyring, vault, next, seen, got, used>>

\* openshift-install reads the file some time after it was started
Install(j) ==
  /\ Goto(j, "install", IF file[home[j]] = <<>> THEN "failed" ELSE "done")
  /\ used' = [used EXCEPT ![j] = file[home[j]]]
  /\ UNCHANGED <<home, keyring, vault, file, next, seen, got>>

Job(j) == Begin(j, "read") \/ ReadKey(j) \/ OpenFile(j) \/ FillFile(j) \/ Install(j) \/ Fail(j)

-----------------------------------------------------------------------------
Next == \/ \E c \in Sets : Set(c)
        \/ \E c \in Deletes : Delete(c)
        \/ \E j \in Jobs : Job(j)

Spec == Init /\ [][Next]_vars

-----------------------------------------------------------------------------
(* Properties *)

Overlapped == \E u \in Overlapping : stage[u] # "idle"

\* What an installer signs in with is whole, and all of it was given in one `set`,
\* although each key is prompted for, stored and read on its own, unless a `set`
\* stopped half-way or something overlapped (credentials.py 45-48,
\* cloud_credentials.py 57-67).
OneSet ==
  \A j \in Jobs : used[j] # <<>> =>
    /\ Len(used[j]) = Len(Fields) /\ Complete(used[j])
    /\ \/ \A i, k \in DOMAIN used[j] : used[j][i] = used[j][k]
       \/ Overlapped
       \/ \E c \in Sets : stage[c] = "failed"

\* The installer of a job uses what that job has staged, whatever other jobs run,
\* unless one of them uses the same account of the bastion: each writes the whole
\* file, and none looks at it again (cloud_credentials.py 40-45, 64-67).
OwnCredentials ==
  \A j \in Jobs : used[j] # <<>> /\ used[j] # got[j] =>
    \E other \in Jobs \ {j} : home[other] = home[j] /\ used[j] = got[other]

\* A `set` in Vault leaves the platform's other keys as they are, unless its read
\* failed, which it takes for "nothing there", or another `set` wrote since
\* (secrets.py 68-81).
VaultKeepsOthers ==
  [][ \A k \in KeySet : vault'[k] # vault[k] =>
        \/ \E c \in Sets : stage[c] = "write" /\ KeyOf(c) = k
        \/ \E c \in Sets \cap (Overlapping \cup Unlucky) : stage[c] # "idle" ]_vars
=============================================================================
