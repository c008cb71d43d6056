--------------------------- MODULE BastionRegistry ---------------------------
(***************************************************************************)
(* One bastion in the registry (cli/bastion.py): its row, which the        *)
(* commands and the jobs read, and the SSH password of its host in the     *)
(* keyring (secrets.py), which all of them fall back on.  `register` takes *)
(* its account, a user and a port, from the command line, stores the       *)
(* password, and writes the row when it has been in; `verify` takes the    *)
(* account from the row.  Jobs do so too, and write nothing: whether they  *)
(* get in is what the row and the password of the moment say.  A key file  *)
(* is used by the `register` it is given to, and by no one after that.     *)
(*                                                                         *)
(* User, port and tools are columns of their own: of a row that is there,  *)
(* each is written only if it differs from what was found.  Tools and      *)
(* passwords are named by the account they were seen with, or open.  The   *)
(* bastion itself is outside the program.                                  *)
(***************************************************************************)
EXTENDS Integers

CONSTANTS
  Registers, Verifies,   \* commands, each run once
  Overlapping,           \* commands that may begin while others run
  Users, Ports,
  Passwords,             \* accounts that have a password
  ByAgent,               \* accounts the ssh-agent or a default key opens
  ByKeyFile,             \* accounts a key file opens
  None

Commands == Registers \cup Verifies
Accounts == Users \X Ports
NoAccount == <<None, None>>

ASSUME AccountsAssumption == /\ None \notin Users
                             /\ Passwords \cup ByAgent \cup ByKeyFile \subseteq Accounts
ASSUME CommandsAssumption ==
  Overlapping \subseteq Commands /\ Registers \cap Verifies = {} /\ None \notin Commands

NoPassword == [opens |-> NoAccount, by |-> None]
NoRow == [user |-> None, port |-> None, tools |-> NoAccount,
          by |-> {}, toolsBy |-> None, key |-> FALSE, used |-> NoPassword]

VARIABLES
  stored,      \* the password in the keyring, and the command that put it there or cleared it
  row,         \* the bastions row; by and toolsBy are the commands it stands for, key and
               \* used what they were in with
  stage,       \* stage[c]: the next statement of a command
  local,       \* local[c]: its arguments and variables, while it runs
  overlapped   \* the commands that ran while another `register` did

vars == <<stored, row, stage, local, overlapped>>

Over == {"done", "refused"}
Stages == {"idle", "clear", "store", "connect", "look", "find", "write"} \cup Over

AccountSet == Accounts \cup {NoAccount}
PasswordSet == [opens : AccountSet, by : Registers \cup {None}]
RowSet == [user : Users \cup {None}, port : Ports \cup {None}, tools : AccountSet,
           by : SUBSET Registers, toolsBy : Commands \cup {None}, key : BOOLEAN,
           used : PasswordSet]
LocalSet == [account : AccountSet, password : AccountSet, key : BOOLEAN,
             reached : PasswordSet, found : RowSet]
NoLocal == [account |-> NoAccount, password |-> NoAccount, key |-> FALSE,
            reached |-> NoPassword, found |-> NoRow]

TypeOK ==
  /\ stored \in PasswordSet
  /\ row \in RowSet
  /\ stage \in [Commands -> Stages]
  /\ local \in [Commands -> LocalSet]
  /\ overlapped \subseteq Commands

Init ==
  /\ stored = NoPassword
  /\ row = NoRow
  /\ stage = [c \in Commands |-> "idle"]
  /\ local = [c \in Commands |-> NoLocal]
  /\ overlapped = {}

Account(r) == <<r.user, r.port>>
IsRow(r) == r.user # None

-----------------------------------------------------------------------------
(* Connecting *)

Running(c) == stage[c] \notin {"idle"} \cup Over

MayBegin(c) ==
  /\ c \in Overlapping \/ \A d \in Commands : ~Running(d)
  /\ overlapped' = overlapped \cup {d \in Commands :
       \/ d = c /\ \E e \in Registers : Running(e)
       \/ c \in Registers /\ Running(d)}

Goto(c, here, there) == stage[c] = here /\ stage' = [stage EXCEPT ![c] = there]
Continue(c, here, there, with) == Goto(c, here, there) /\ local' = [local EXCEPT ![c] = with]
End(c, here, how) == Continue(c, here, how, NoLocal)

Accepts(a, password, key) == a \in ByAgent \/ (key /\ a \in ByKeyFile) \/ password.opens = a

\* get_bastion_password
PasswordFor(c) == stored

Connect(c) ==
  /\ Accepts(local[c].account, PasswordFor(c), local[c].key)
  /\ Continue(c, "connect", "look", [local[c] EXCEPT !.reached = PasswordFor(c)])
  /\ UNCHANGED <<stored, row, overlapped>>

\* verify_tools, and ensure_dir
Look(c) == Goto(c, "look", "find") /\ UNCHANGED <<stored, row, local, overlapped>>

\* Bug: a connection that is refused is only reported.
FailGoesOn(c) ==
  /\ Continue(c, "connect", "look", [local[c] EXCEPT !.reached = PasswordFor(c)])
  /\ UNCHANGED <<stored, row, overlapped>>

\* The connection is refused or lost, the bastion misbehaves, or ^C
Fail(c) == Running(c) /\ End(c, stage[c], "refused") /\ UNCHANGED <<stored, row, overlapped>>

-----------------------------------------------------------------------------
(* register *)

BeginRegister(c, a, clear, password, key) ==
  /\ MayBegin(c)
  /\ Continue(c, "idle", IF clear THEN "clear" ELSE "store",
              [NoLocal EXCEPT !.account = a, !.password = password, !.key = key])
  /\ UNCHANGED <<stored, row>>

ClearPassword(c) ==
  /\ Goto(c, "clear", "store")
  /\ stored' = [NoPassword EXCEPT !.by = c]
  /\ UNCHANGED <<row, local, overlapped>>

StorePassword(c) ==
  /\ Goto(c, "store", "connect")
  /\ stored' = IF local[c].password = NoAccount THEN stored
               ELSE [opens |-> local[c].password, by |-> c]
  /\ UNCHANGED <<row, local, overlapped>>

\* query(Bastion).filter_by(host=host)
FindRow(c) ==
  /\ c \in Registers
  /\ Continue(c, "find", "write", [local[c] EXCEPT !.found = row])
  /\ UNCHANGED <<stored, row, overlapped>>

\* An UPDATE sets the columns whose value is not the one that was found, an INSERT all
Column(mine, found, now) == IF mine # found THEN mine ELSE now

\* The row stands for who wrote it last, unless it has kept something that another
\* has written and that is not the same
RowWith(c, user, port, tools) ==
  LET mine == <<user, port>> = local[c].account
  IN  [user |-> user, port |-> port, tools |-> tools,
       by |-> IF mine THEN {c}
              ELSE IF <<user, port>> = Account(row) THEN row.by ELSE row.by \cup {c},
       toolsBy |-> IF tools = local[c].account THEN c ELSE row.toolsBy,
       key |-> IF mine THEN local[c].key ELSE row.key,
       used |-> IF mine THEN local[c].reached ELSE row.used]

\* Bug: of a row that is there the tools are not written.
NewRowKeepingTools(c) ==
  RowWith(c, local[c].account[1], local[c].account[2],
          IF IsRow(local[c].found) THEN row.tools ELSE local[c].account)

NewRow(c) ==
  LET found == local[c].found
  IN  RowWith(c, Column(local[c].account[1], found.user, row.user),
                 Column(local[c].account[2], found.port, row.port),
                 Column(local[c].account, found.tools, row.tools))

\* The row that was found is changed, else one is added: the host is unique
WriteRow(c) ==
  /\ IF IsRow(local[c].found) \/ ~IsRow(row)
     THEN End(c, "write", "done") /\ row' = NewRow(c)
     ELSE End(c, "write", "refused") /\ UNCHANGED row
  /\ UNCHANGED <<stored, overlapped>>

-----------------------------------------------------------------------------
(* verify *)

BeginVerify(c) ==
  /\ MayBegin(c)
  /\ IF IsRow(row)
     THEN Continue(c, "idle", "connect", [NoLocal EXCEPT !.account = Account(row)])
     ELSE End(c, "idle", "refused")
  /\ UNCHANGED <<stored, row>>

\* The row is read anew, and only its tools are written
WriteTools(c) ==
  /\ End(c, "find", "done")
  /\ row' = [row EXCEPT !.tools = local[c].account, !.toolsBy = c]
  /\ UNCHANGED <<stored, overlapped>>

Register(c) ==
  \/ \E a \in Accounts, clear \in BOOLEAN, password \in Passwords \cup {NoAccount}, key \in BOOLEAN :
       BeginRegister(c, a, clear, password, key)
  \/ ClearPassword(c) \/ StorePassword(c) \/ Connect(c) \/ Look(c) \/ Fail(c)
  \/ FindRow(c) \/ WriteRow(c)

Verify(c) == BeginVerify(c) \/ Connect(c) \/ Look(c) \/ Fail(c) \/ WriteTools(c)

Next == \/ \E c \in Registers : Register(c)
        \/ \E c \in Verifies : Verify(c)

Spec == Init /\ [][Next]_vars

-----------------------------------------------------------------------------
(* Properties *)

\* The account of a row is one that a `register` has been in with, and the credentials
\* it was in with open it.  Two that overlapped may leave the user of one with the
\* port of the other, where nobody has been (bastion.py 64-101).
RowWasReached ==
  IsRow(row) =>
    /\ \A c \in row.by : stage[c] = "done"
    /\ \/ Accepts(Account(row), row.used, row.key)
       \/ row.by \subseteq overlapped /\ \E c, d \in row.by : c # d

\* Who is registered without a key file stays reachable with what is stored, until
\* another `register` has replaced or removed the password and has not come to its
\* own row: while it runs, because it failed, or because two overlapped
\* (bastion.py 56-69, 82-87, secrets.py 132-141).
StaysReachable ==
  IsRow(row) /\ ~row.key =>
    \/ Accepts(Account(row), stored, FALSE)
    \/ ({stored.by} \cup row.by) \cap overlapped # {}
    \/ stored.by \in Registers \ row.by /\ stage[stored.by] # "done"

\* The tools on record were seen with the account on record, unless the command that
\* wrote one of the two ran while another `register` did
\* (bastion.py 79-99, 141-166).
ToolsOfTheAccount ==
  row.tools = Account(row) \/ ({row.toolsBy} \cup row.by) \cap overlapped # {}
=============================================================================
