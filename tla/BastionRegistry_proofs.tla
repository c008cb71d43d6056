------------------------ MODULE BastionRegistry_proofs ------------------------
(***************************************************************************)
(* Proofs about BastionRegistry, for all commands and accounts.            *)
(*                                                                         *)
(* What a row promises was true of the password and of the row at other    *)
(* moments than when it was written.  The inductive invariant says how far *)
(* each command may be behind: what it was reached with is still stored,   *)
(* and what it has found is still the row, unless it ran while another     *)
(* `register` did.  A row that is put together from the columns of several *)
(* stands for all of them, and then they all overlapped.                   *)
(***************************************************************************)
EXTENDS BastionRegistry, TLAPS

After == {"look", "find", "write"}

Exclusive ==
  \A c \in Commands, d \in Registers : c # d /\ Running(c) /\ Running(d) => c \in overlapped

CommandInv ==
  \A c \in Commands :
    /\ Running(c) => local[c].account \in Accounts
    /\ stage[c] \in {"clear", "store", "write"} => c \in Registers
    /\ Running(c) /\ c \in Verifies =>
         IsRow(row) /\ (local[c].account = Account(row) \/ c \in overlapped)
    /\ stage[c] \in After =>
         /\ Accepts(local[c].account, local[c].reached, local[c].key)
         /\ c \in Registers => local[c].reached = stored \/ c \in overlapped

FoundInv ==
  \A c \in Commands : stage[c] = "write" =>
    /\ \/ Account(local[c].found) = Account(row)
       \/ IsRow(row) /\ row.by \cup {c} \subseteq overlapped
    /\ \/ local[c].found.tools = row.tools
       \/ {row.toolsBy, c} \cap overlapped # {}

RowInv ==
  /\ IsRow(row) => Account(row) \in Accounts /\ row.by # {}
  /\ \A c \in row.by : stage[c] = "done"
  /\ RowWasReached

IInv == /\ TypeOK /\ Exclusive /\ CommandInv /\ FoundInv /\ RowInv
        /\ StaysReachable /\ ToolsOfTheAccount

-----------------------------------------------------------------------------
\* What is there before anything is typed.
LEMMA NothingTyped == NoLocal \in LocalSet /\ NoPassword \in PasswordSet /\ NoRow \in RowSet
  BY DEF NoLocal, LocalSet, NoPassword, PasswordSet, NoRow, RowSet, AccountSet

\* A row that is not written stands for what it stood for.
LEMMA RowKept ==
  ASSUME TypeOK, RowInv, row' = row, overlapped \subseteq overlapped',
         \A c \in Commands : stage[c] = "done" => stage'[c] = "done"
  PROVE  RowInv'
<1>1. \A c \in row.by : c \in Commands  BY DEF TypeOK, RowSet, Commands
<1>2. Account(row)' = Account(row) /\ (IsRow(row)' <=> IsRow(row))  BY DEF Account, IsRow
<1>3. Accepts(Account(row), row.used, row.key)' <=> Accepts(Account(row), row.used, row.key)
  BY <1>2 DEF Accepts
<1> QED  BY <1>1, <1>2, <1>3 DEF RowInv, RowWasReached

\* A refused command leaves the password and the row, and runs no more.
LEMMA FailKeeps ==
  ASSUME IInv, NEW c \in Commands, Fail(c)
  PROVE  IInv'
<1> USE AccountsAssumption, CommandsAssumption
<1>1. TypeOK' BY NothingTyped DEF Fail, IInv, TypeOK, Goto, Continue, End, Running, Stages, Over
<1>2. Exclusive' BY DEF Fail, IInv, TypeOK, Goto, Continue, End, Running, Stages, Over, Exclusive
<1>3. CommandInv' BY DEF Fail, IInv, TypeOK, Goto, Continue, End, Running, Stages, Over, CommandInv, After, Accepts
<1>4. FoundInv' BY DEF Fail, IInv, TypeOK, Goto, Continue, End, Running, Stages, Over, FoundInv
<1>5. RowInv' BY RowKept DEF Fail, IInv, TypeOK, Goto, Continue, End, Running, Stages, Over
<1>6. StaysReachable' BY DEF Fail, IInv, TypeOK, Goto, Continue, End, Running, Stages, Over, StaysReachable, Accepts, RowInv
<1>7. ToolsOfTheAccount' BY DEF Fail, IInv, TypeOK, Goto, Continue, End, Running, Stages, Over, ToolsOfTheAccount
<1>8. QED BY <1>1, <1>2, <1>3, <1>4, <1>5, <1>6, <1>7 DEF IInv

\* The bastion lets a command in.
LEMMA ConnectKeeps ==
  ASSUME IInv, NEW c \in Commands, Connect(c)
  PROVE  IInv'
<1> USE AccountsAssumption, CommandsAssumption
    DEF IInv, TypeOK, Connect, Continue, Goto, Running, Stages, Over
<1>1. TypeOK'
  <2>1. [local[c] EXCEPT !.reached = stored] \in LocalSet BY DEF LocalSet
  <2>2. QED BY <2>1 DEF PasswordFor
<1>2. Exclusive' BY DEF Exclusive
<1>3. CommandInv' BY DEF CommandInv, After, PasswordFor
<1>4. FoundInv' BY DEF FoundInv
<1>5. RowInv' BY RowKept
<1>6. StaysReachable' BY DEF StaysReachable, Accepts
<1>7. ToolsOfTheAccount' BY DEF ToolsOfTheAccount
<1>8. QED BY <1>1, <1>2, <1>3, <1>4, <1>5, <1>6, <1>7 DEF IInv

\* It runs what the command asks for.
LEMMA LookKeeps ==
  ASSUME IInv, NEW c \in Commands, Look(c)
  PROVE  IInv'
<1> USE AccountsAssumption, CommandsAssumption
    DEF IInv, TypeOK, Look, Goto, Running, Stages, Over
<1>1. TypeOK' BY DEF PasswordSet, RowSet, LocalSet, NoLocal, NoPassword, NoRow
<1>2. Exclusive' BY DEF Exclusive
<1>3. CommandInv' BY DEF CommandInv, After, Accepts
<1>4. FoundInv' BY DEF FoundInv
<1>5. RowInv' BY RowKept
<1>6. StaysReachable' BY DEF StaysReachable, Accepts
<1>7. ToolsOfTheAccount' BY DEF ToolsOfTheAccount
<1>8. QED BY <1>1, <1>2, <1>3, <1>4, <1>5, <1>6, <1>7 DEF IInv

\* `register` finds the row that is there.
LEMMA FindRowKeeps ==
  ASSUME IInv, NEW c \in Commands, FindRow(c)
  PROVE  IInv'
<1> USE AccountsAssumption, CommandsAssumption
    DEF IInv, TypeOK, FindRow, Continue, Goto, Running, Stages, Over
<1>1. TypeOK' BY SMTT(20) DEF PasswordSet, RowSet, LocalSet, NoLocal, NoPassword, NoRow
<1>2. Exclusive' BY DEF Exclusive
<1>3. CommandInv' BY DEF CommandInv, After, Accepts
<1>4. FoundInv' BY DEF FoundInv
<1>5. RowInv' BY RowKept
<1>6. StaysReachable' BY DEF StaysReachable, Accepts
<1>7. ToolsOfTheAccount' BY DEF ToolsOfTheAccount
<1>8. QED BY <1>1, <1>2, <1>3, <1>4, <1>5, <1>6, <1>7 DEF IInv

\* A `register` that begins has the bastion for itself, or may overlap.
LEMMA BeginRegisterKeeps ==
  ASSUME IInv, NEW c \in Registers, NEW a \in Accounts, NEW clear \in BOOLEAN,
         NEW password \in Passwords \cup {NoAccount}, NEW key \in BOOLEAN,
         BeginRegister(c, a, clear, password, key)
  PROVE  IInv'
<1> USE AccountsAssumption, CommandsAssumption
    DEF IInv, TypeOK, BeginRegister, MayBegin, Continue, Commands, Goto, Running, Stages, Over
<1>1. TypeOK'
  <2>1. [NoLocal EXCEPT !.account = a, !.password = password, !.key = key] \in LocalSet
    BY NothingTyped DEF LocalSet, AccountSet
  <2>2. QED BY <2>1
<1>2. Exclusive' BY DEF Exclusive
<1>3. CommandInv' BY DEF CommandInv, After, NoLocal
<1>4. FoundInv' BY DEF FoundInv
<1>5. RowInv' BY RowKept
<1>6. StaysReachable' BY DEF StaysReachable, Accepts
<1>7. ToolsOfTheAccount' BY DEF ToolsOfTheAccount
<1>8. QED BY <1>1, <1>2, <1>3, <1>4, <1>5, <1>6, <1>7 DEF IInv

\* So has a `verify`, which begins with the account of the row.
LEMMA BeginVerifyKeeps ==
  ASSUME IInv, NEW c \in Verifies, BeginVerify(c)
  PROVE  IInv'
<1> USE AccountsAssumption, CommandsAssumption
    DEF IInv, TypeOK, BeginVerify, MayBegin, End, Continue, Commands, Goto, Running, Stages, Over
<1>1. TypeOK'
  <2>1. IsRow(row) => [NoLocal EXCEPT !.account = Account(row)] \in LocalSet
    BY NothingTyped DEF LocalSet, AccountSet, RowInv
  <2>2. QED BY <2>1, NothingTyped
<1>2. Exclusive' BY DEF Exclusive
<1>3. CommandInv' BY DEF CommandInv, After, NoLocal, RowInv
<1>4. FoundInv' BY DEF FoundInv
<1>5. RowInv' BY RowKept
<1>6. StaysReachable' BY DEF StaysReachable, Accepts
<1>7. ToolsOfTheAccount' BY DEF ToolsOfTheAccount, NoLocal
<1>8. QED BY <1>1, <1>2, <1>3, <1>4, <1>5, <1>6, <1>7 DEF IInv

\* A password is replaced or removed under a `register` that has no row yet.
LEMMA StoresKeep ==
  ASSUME IInv, NEW c \in Registers, ClearPassword(c) \/ StorePassword(c)
  PROVE  IInv'
<1> USE AccountsAssumption, CommandsAssumption
    DEF ClearPassword, StorePassword, IInv, TypeOK, Goto, Running, Stages, Over, Commands
<1>1. TypeOK'
  <2>1. [NoPassword EXCEPT !.by = c] \in PasswordSet  BY NothingTyped DEF PasswordSet
  <2>2. [opens |-> local[c].password, by |-> c] \in PasswordSet
    BY DEF PasswordSet, LocalSet
  <2>3. QED BY <2>1, <2>2
<1>2. Exclusive' BY DEF Exclusive
<1>3. CommandInv' BY DEF CommandInv, After, Accepts, Exclusive, NoPassword
<1>4. FoundInv' BY DEF FoundInv
<1>5. RowInv' BY RowKept
<1>6. StaysReachable' BY DEF StaysReachable, Accepts, RowInv, NoPassword
<1>7. ToolsOfTheAccount' BY DEF ToolsOfTheAccount
<1>8. QED BY <1>1, <1>2, <1>3, <1>4, <1>5, <1>6, <1>7 DEF IInv

\* The row a `register` writes is its own, or stands for commands that overlapped.
LEMMA WriteRowKeeps ==
  ASSUME IInv, NEW c \in Registers, WriteRow(c)
  PROVE  IInv'
<1> USE AccountsAssumption, CommandsAssumption
    DEF IInv, TypeOK, Running, Stages, Over, Commands
<1> DEFINE Mine ==
             /\ Account(row)' = local[c].account /\ row'.by = {c}
             /\ row'.key = local[c].key /\ row'.used = local[c].reached
           Same ==
             /\ Account(row)' = Account(row) /\ row'.by = row.by
             /\ row'.key = row.key /\ row'.used = row.used
           Mixed == row'.by = row.by \cup {c}
<1>1. /\ stage[c] = "write" /\ stored' = stored /\ overlapped' = overlapped
      /\ local' = [local EXCEPT ![c] = NoLocal]
  BY DEF WriteRow, End, Continue, Goto
<1>2. \/ stage' = [stage EXCEPT ![c] = "refused"] /\ row' = row
      \/ stage' = [stage EXCEPT ![c] = "done"] /\ row' = NewRow(c)
  BY DEF WriteRow, End, Continue, Goto
<1>3. ASSUME row' = NewRow(c)
      PROVE  /\ Mine \/ (IsRow(row) /\ row.by \cup {c} \subseteq overlapped /\ (Same \/ Mixed))
             /\ \/ row'.tools = local[c].account /\ row'.toolsBy = c
                \/ /\ row'.tools = row.tools /\ row'.toolsBy = row.toolsBy
                   /\ {row.toolsBy, c} \cap overlapped # {}
             /\ row' \in RowSet
             /\ IsRow(row') /\ Account(row)' \in Accounts
  <2>1. /\ local[c] \in LocalSet /\ local[c].account \in Accounts /\ row \in RowSet
        /\ local[c].reached \in PasswordSet /\ local[c].found \in RowSet
    BY <1>1 DEF CommandInv, LocalSet
  <2> DEFINE u == local[c].account[1]
             p == local[c].account[2]
             user == Column(u, local[c].found.user, row.user)
             port == Column(p, local[c].found.port, row.port)
             tools == Column(local[c].account, local[c].found.tools, row.tools)
  <2>2. u \in Users /\ p \in Ports /\ local[c].account = <<u, p>> /\ u # None
    BY <2>1 DEF Accounts
  <2>3. row' = RowWith(c, user, port, tools)  BY <1>3 DEF NewRow
  <2>4. /\ row'.user = user /\ row'.port = port /\ row'.tools = tools
        /\ row'.by = IF <<user, port>> = local[c].account THEN {c}
                     ELSE IF <<user, port>> = Account(row) THEN row.by ELSE row.by \cup {c}
        /\ row'.toolsBy = IF tools = local[c].account THEN c ELSE row.toolsBy
        /\ row'.key = IF <<user, port>> = local[c].account THEN local[c].key ELSE row.key
        /\ row'.used = IF <<user, port>> = local[c].account THEN local[c].reached ELSE row.used
    BY <2>3 DEF RowWith
  <2>5. user \in {u, row.user} /\ port \in {p, row.port} /\ tools \in {local[c].account, row.tools}
    BY DEF Column
  <2>6. Account(row)' = <<user, port>>  BY <2>4 DEF Account
  <2>7. Account(local[c].found) = Account(row) => <<user, port>> = local[c].account
    BY <2>2 DEF Column, Account
  <2> HIDE DEF user, port
  <2>8. CASE <<user, port>> = local[c].account
    <3>1. Mine  BY <2>4, <2>6, <2>8
    <3>2. user = u /\ port = p  BY <2>2, <2>8
    <3>3. row' \in RowSet  BY <2>1, <2>2, <2>3, <3>2, <2>5, <2>8 DEF RowWith, RowSet, LocalSet
    <3>4. \/ row'.tools = local[c].account /\ row'.toolsBy = c
          \/ /\ row'.tools = row.tools /\ row'.toolsBy = row.toolsBy
             /\ {row.toolsBy, c} \cap overlapped # {}
      BY <1>1, <2>4 DEF Column, FoundInv
    <3>5. IsRow(row') /\ Account(row)' \in Accounts  BY <2>1, <2>2, <2>4, <3>1, <3>2 DEF IsRow
    <3> QED  BY <3>1, <3>3, <3>4, <3>5
  <2>9. CASE <<user, port>> # local[c].account
    <3>1. IsRow(row) /\ row.by \cup {c} \subseteq overlapped
      BY <1>1, <2>7, <2>9 DEF FoundInv
    <3>2. row.user \in Users /\ row.port \in Ports
      BY <3>1 DEF RowInv, Account, Accounts
    <3>3. user \in Users /\ port \in Ports  BY <2>2, <2>5, <3>2
    <3>4. row' \in RowSet
      <4>1. tools \in AccountSet  BY <2>1, <2>5 DEF RowSet, LocalSet
      <4>2. row.by \cup {c} \in SUBSET Registers  BY <2>1 DEF RowSet
      <4> HIDE DEF tools
      <4> QED  BY <2>1, <2>3, <3>3, <4>1, <4>2 DEF RowWith, RowSet, LocalSet
    <3>5. \/ row'.tools = local[c].account /\ row'.toolsBy = c
          \/ /\ row'.tools = row.tools /\ row'.toolsBy = row.toolsBy
             /\ {row.toolsBy, c} \cap overlapped # {}
      BY <1>1, <2>4 DEF Column, FoundInv
    <3>6. IsRow(row') /\ Account(row)' \in Accounts
      BY <2>4, <2>6, <3>3, AccountsAssumption DEF IsRow, Accounts
    <3>7. Same \/ Mixed  BY <2>4, <2>6, <2>9
    <3> QED  BY <3>1, <3>4, <3>5, <3>6, <3>7
  <2> QED  BY <2>8, <2>9
<1>4. TypeOK'
  <2>1. NoLocal \in LocalSet
    BY DEF LocalSet, NoLocal, PasswordSet, RowSet, NoPassword, NoRow, AccountSet
  <2>2. QED BY <1>1, <1>2, <1>3, <2>1
<1> HIDE DEF Mine, Same, Mixed
<1>5. Exclusive' BY <1>1, <1>2 DEF Exclusive
<1>6. CommandInv' BY <1>1, <1>2, <1>3 DEF CommandInv, After, Accepts, Exclusive
<1>7. FoundInv'
  <2> SUFFICES ASSUME NEW d \in Commands, stage'[d] = "write"
               PROVE  /\ \/ Account(local[d].found)' = Account(row)'
                         \/ IsRow(row)' /\ row'.by \cup {d} \subseteq overlapped
                      /\ \/ local'[d].found.tools = row'.tools
                         \/ {row'.toolsBy, d} \cap overlapped # {}
    BY <1>1 DEF FoundInv
  <2>1. d # c /\ stage[d] = "write" /\ d \in Registers /\ local'[d] = local[d]
    BY <1>1, <1>2 DEF CommandInv
  <2>2. c \in overlapped /\ d \in overlapped  BY <1>1, <2>1 DEF Exclusive
  <2>3. \/ Account(local[d].found) = Account(row)
        \/ IsRow(row) /\ row.by \cup {d} \subseteq overlapped
    BY <2>1 DEF FoundInv
  <2>4. Account(local[d].found)' = Account(local[d].found)  BY <2>1 DEF Account
  <2>5. CASE row' = row  BY <2>2, <2>3, <2>4, <2>5 DEF Account, IsRow
  <2>6. CASE row' = NewRow(c)  BY <1>3, <2>2, <2>3, <2>4, <2>6 DEF IsRow, Mine, Same, Mixed
  <2> QED  BY <1>2, <2>5, <2>6
<1>8. RowInv'
  <2>1. c \notin row.by  BY <1>1 DEF RowInv
  <2>2. CASE row' = row
    <3>1. \A d \in Commands : stage[d] = "done" => stage'[d] = "done"  BY <1>1, <1>2
    <3> QED  BY <1>1, <2>2, <3>1, RowKept
  <2>3. CASE row' = NewRow(c) /\ stage' = [stage EXCEPT ![c] = "done"]
    <3>1. \A d \in row'.by : stage'[d] = "done"
      BY <1>3, <2>3 DEF RowInv, Mine, Same, Mixed
    <3>2. IsRow(row)' /\ Account(row)' \in Accounts  BY <1>3, <2>3 DEF IsRow
    <3>3. CASE Mine
      <4>1. Accepts(local[c].account, local[c].reached, local[c].key)
        BY <1>1 DEF CommandInv, After
      <4>2. Accepts(Account(row), row.used, row.key)'  BY <3>3, <4>1 DEF Mine, Accepts
      <4> QED  BY <3>1, <3>2, <3>3, <4>2 DEF RowInv, RowWasReached, Mine
    <3>4. CASE Same /\ IsRow(row)
      BY <1>1, <3>1, <3>2, <3>4 DEF RowInv, RowWasReached, Accepts, Same
    <3>5. CASE Mixed /\ IsRow(row) /\ row.by \cup {c} \subseteq overlapped
      BY <1>1, <2>1, <3>1, <3>2, <3>5 DEF RowInv, RowWasReached, Mixed
    <3> QED  BY <1>3, <2>3, <3>3, <3>4, <3>5
  <2> QED  BY <1>2, <2>2, <2>3
<1>9. StaysReachable'
  <2>1. c \notin row.by  BY <1>1 DEF RowInv
  <2>2. CASE stage' = [stage EXCEPT ![c] = "refused"] /\ row' = row
    BY <1>1, <2>1, <2>2 DEF StaysReachable, Accepts, Account, IsRow
  <2>3. CASE row' = NewRow(c)
    <3>1. CASE Mine
      <4>1. /\ Accepts(local[c].account, local[c].reached, local[c].key)
            /\ local[c].reached = stored \/ c \in overlapped
        BY <1>1 DEF CommandInv, After
      <4> QED  BY <1>1, <3>1, <4>1 DEF StaysReachable, Mine, Accepts
    <3>2. CASE IsRow(row) /\ row.by \cup {c} \subseteq overlapped /\ (Same \/ Mixed)
      BY <1>1, <3>2 DEF RowInv, StaysReachable, Same, Mixed
    <3> QED  BY <1>3, <2>3, <3>1, <3>2
  <2> QED  BY <1>2, <2>2, <2>3
<1>10. ToolsOfTheAccount'
  <2>1. CASE row' = row  BY <1>1, <2>1 DEF ToolsOfTheAccount, Account
  <2>2. CASE row' = NewRow(c)
    <3>1. CASE Mine  BY <1>1, <1>3, <2>2, <3>1 DEF ToolsOfTheAccount, Mine
    <3>2. CASE IsRow(row) /\ row.by \cup {c} \subseteq overlapped /\ (Same \/ Mixed)
      BY <1>1, <3>2 DEF RowInv, ToolsOfTheAccount, Same, Mixed
    <3> QED  BY <1>3, <2>2, <3>1, <3>2
  <2> QED  BY <1>2, <2>1, <2>2
<1>11. QED BY <1>4, <1>5, <1>6, <1>7, <1>8, <1>9, <1>10

\* `verify` writes the tools of a row that is there.
LEMMA WriteToolsKeeps ==
  ASSUME IInv, NEW c \in Verifies, WriteTools(c)
  PROVE  IInv'
<1> USE AccountsAssumption, CommandsAssumption
    DEF WriteTools, IInv, TypeOK, Goto, Continue, End, Running, Stages, Over, Commands
<1>a. /\ stage' = [stage EXCEPT ![c] = "done"]
      /\ local' = [local EXCEPT ![c] = NoLocal]
      /\ stage[c] = "find" /\ IsRow(row) /\ stored' = stored
  BY DEF CommandInv
<1>b. /\ IsRow(row)' /\ row'.tools = local[c].account /\ row'.toolsBy = c
      /\ Account(row)' = Account(row) /\ row'.by = row.by
      /\ row'.key = row.key /\ row'.used = row.used
  BY DEF CommandInv, RowSet, IsRow, Account
<1>1. TypeOK'
  <2>1. [row EXCEPT !.tools = local[c].account, !.toolsBy = c] \in RowSet
    BY DEF RowSet, LocalSet
  <2>2. QED BY <2>1, NothingTyped
<1>2. Exclusive' BY DEF Exclusive
<1>3. CommandInv' BY <1>a, <1>b DEF CommandInv, After, Accepts, Exclusive
<1>4. FoundInv' BY <1>a, <1>b DEF FoundInv, Exclusive, CommandInv
<1>5. RowInv' BY <1>a, <1>b DEF RowInv, RowWasReached, Accepts
<1>6. StaysReachable' BY <1>a, <1>b DEF StaysReachable, Accepts
<1>7. ToolsOfTheAccount' BY <1>a, <1>b DEF ToolsOfTheAccount, CommandInv
<1>8. QED BY <1>1, <1>2, <1>3, <1>4, <1>5, <1>6, <1>7 DEF IInv

\* Nothing is registered at first.
LEMMA InitIInv == Init => IInv
<1> SUFFICES ASSUME Init PROVE IInv
  OBVIOUS
<1> USE AccountsAssumption, CommandsAssumption DEF Init, Running, Over
<1>1. TypeOK  BY NothingTyped DEF TypeOK, Stages
<1>2. ~IsRow(row) /\ row.by = {} /\ row.tools = Account(row)
  BY DEF IsRow, Account, NoRow, NoAccount
<1>3. Exclusive /\ CommandInv /\ FoundInv  BY DEF Exclusive, CommandInv, FoundInv, After
<1>4. RowInv /\ StaysReachable /\ ToolsOfTheAccount
  BY <1>2 DEF RowInv, RowWasReached, StaysReachable, ToolsOfTheAccount
<1> QED  BY <1>1, <1>3, <1>4 DEF IInv

\* The invariant is inductive.
LEMMA NextIInv == IInv /\ [Next]_vars => IInv'
<1> SUFFICES ASSUME IInv, [Next]_vars PROVE IInv'
    OBVIOUS
<1>1. CASE UNCHANGED vars
  BY <1>1
  DEF vars, IInv, TypeOK, Exclusive, CommandInv, FoundInv, RowInv, StaysReachable, ToolsOfTheAccount,
      RowWasReached, IsRow, Account, Running, Accepts
<1>2. ASSUME NEW c \in Registers, Register(c) PROVE IInv'
  BY <1>2, FailKeeps, ConnectKeeps, LookKeeps, FindRowKeeps, BeginRegisterKeeps, StoresKeep, WriteRowKeeps DEF Register, Commands
<1>3. ASSUME NEW c \in Verifies, Verify(c) PROVE IInv'
  BY <1>3, FailKeeps, ConnectKeeps, LookKeeps, BeginVerifyKeeps, WriteToolsKeeps DEF Verify, Commands
<1>4. QED BY <1>1, <1>2, <1>3 DEF Next

\* The inductive invariant holds throughout.
THEOREM Inductive == Spec => []IInv
  BY InitIInv, NextIInv, PTL DEF Spec

\* Type correctness of every variable, for all constants.
THEOREM TypeCorrect == Spec => []TypeOK
<1>1. IInv => TypeOK BY DEF IInv
<1>2. QED BY Inductive, <1>1, PTL

\* A row is of an account that a `register` was in with, or of columns of several that
\* overlapped (bastion.py 64-101).
THEOREM RowReached == Spec => []RowWasReached
<1>1. IInv => RowWasReached BY DEF IInv, RowInv
<1>2. QED BY Inductive, <1>1, PTL

\* Only another `register` makes a registered bastion unreachable
\* (bastion.py 56-69, secrets.py 132-141).
THEOREM Reachable == Spec => []StaysReachable
<1>1. IInv => StaysReachable BY DEF IInv
<1>2. QED BY Inductive, <1>1, PTL

\* The tools on record are those of the account on record, unless who wrote one of the
\* two ran while another `register` did (bastion.py 79-99, 141-166).
THEOREM Tools == Spec => []ToolsOfTheAccount
<1>1. IInv => ToolsOfTheAccount BY DEF IInv
<1>2. QED BY Inductive, <1>1, PTL
=============================================================================
