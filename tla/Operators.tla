------------------------------ MODULE Operators ------------------------------
(***************************************************************************)
(* The people who run the console (services/operators.js): created and     *)
(* reset from the command line, but for the first, whom a phrase in the    *)
(* environment may create from a browser; each activates the account once  *)
(* with a link that expires, and enters with a code that is good once.     *)
(*                                                                         *)
(* The code of an operator is known by the version of the authenticator    *)
(* and by its step in time.  A login reads the row, takes its time over    *)
(* the password, and then writes the step in one guarded statement.        *)
(***************************************************************************)
EXTENDS Naturals

CONSTANTS
  People,
  Consoles,       \* requests at once
  LastStep,       \* bound: steps of the clock of the codes
  LastVersion,    \* bound: authenticators of one operator
  NoOperator

ASSUME OperatorsAssumption ==
  LastStep \in Nat \ {0} /\ LastVersion \in Nat \ {0} /\ NoOperator \notin Consoles

VARIABLES
  operators,   \* platform_operators
  step,        \* the clock of the codes
  lock,        \* who holds LOCK TABLE platform_operators
  consoles,    \* what each request has read
  accepted     \* how often a code was accepted while its authenticator held

consoleVars == <<operators, step, lock, consoles, accepted>>

Operator == [via : {"CLI", "BOOTSTRAP"}, active : BOOLEAN, activated : BOOLEAN,
             link : {"NONE", "OPEN", "EXPIRED"},
             version : 1 .. LastVersion, last : 0 .. LastStep]
Code == [person : People, version : 1 .. LastVersion, step : 1 .. LastStep]
Reading == [kind : {"BOOTSTRAP"}, person : People, free : BOOLEAN]
           \cup [kind : {"LOGIN"}, code : Code]

ASSUME NoOperatorIsNoRow == NoOperator \notin Operator

OperatorsTypeOK ==
  /\ operators \in [People -> Operator \cup {NoOperator}]
  /\ step \in 1 .. LastStep /\ lock \in Consoles \cup {NoOperator}
  /\ consoles \in [Consoles -> Reading \cup {NoOperator}]
  /\ accepted \in [Code -> Nat]

OperatorsInit ==
  /\ operators = [p \in People |-> NoOperator] /\ step = 1 /\ lock = NoOperator
  /\ consoles = [r \in Consoles |-> NoOperator]
  /\ accepted = [c \in Code |-> 0]

-----------------------------------------------------------------------------
Known(p) == operators[p] # NoOperator
Pending(via) == [via |-> via, active |-> TRUE, activated |-> FALSE, link |-> "OPEN",
                 version |-> 1, last |-> 0]

(* A write waits for whoever holds the table.                              *)
Writable == lock = NoOperator

Save(p, row) == operators' = [operators EXCEPT ![p] = row]

StepOn ==
  /\ step < LastStep
  /\ step' = step + 1
  /\ UNCHANGED <<operators, lock, consoles, accepted>>

SetupExpires(p) ==
  /\ Known(p) /\ operators[p].link = "OPEN"
  /\ Save(p, [operators[p] EXCEPT !.link = "EXPIRED"])
  /\ UNCHANGED <<step, lock, consoles, accepted>>

-----------------------------------------------------------------------------
(* The command line.                                                       *)

CreateOperator(p) ==
  /\ Writable /\ ~Known(p)
  /\ Save(p, Pending("CLI"))
  /\ UNCHANGED <<step, lock, consoles, accepted>>

(* A new password and a new authenticator: the codes start over.           *)
ResetOperator(p) ==
  /\ Writable /\ Known(p) /\ operators[p].version < LastVersion
  /\ Save(p, [operators[p] EXCEPT !.activated = FALSE, !.link = "OPEN",
                                  !.version = @ + 1, !.last = 0])
  /\ UNCHANGED <<step, lock, consoles, accepted>>

SetOperatorActive(p, active) ==
  /\ Writable /\ Known(p)
  /\ Save(p, [operators[p] EXCEPT !.active = active])
  /\ UNCHANGED <<step, lock, consoles, accepted>>

-----------------------------------------------------------------------------
(* The first operator, from a browser that knows the phrase: the table is  *)
(* locked, counted and written in one transaction.                         *)

AskBootstrap(r, p) ==
  /\ consoles[r] = NoOperator
  /\ consoles' = [consoles EXCEPT ![r] = [kind |-> "BOOTSTRAP", person |-> p, free |-> FALSE]]
  /\ UNCHANGED <<operators, step, lock, accepted>>

Bootstrapping(r) == consoles[r] # NoOperator /\ consoles[r].kind = "BOOTSTRAP"

(* Wrong: the table is not locked.                                         *)
NeverLocked(r) == lock' = lock
LockTable(r) == lock = NoOperator /\ lock' = r

BootstrapAllowed == \A p \in People : ~Known(p)

CountOperators(r) ==
  /\ Bootstrapping(r) /\ ~consoles[r].free /\ BootstrapAllowed
  /\ LockTable(r)
  /\ consoles' = [consoles EXCEPT ![r].free = TRUE]
  /\ UNCHANGED <<operators, step, accepted>>

Unlocked(r) == IF lock = r THEN NoOperator ELSE lock

Bootstrap(r) ==
  /\ Bootstrapping(r) /\ consoles[r].free /\ ~Known(consoles[r].person)
  /\ Save(consoles[r].person, Pending("BOOTSTRAP"))
  /\ lock' = Unlocked(r) /\ consoles' = [consoles EXCEPT ![r] = NoOperator]
  /\ UNCHANGED <<step, accepted>>

(* Refused, or dead: the transaction is rolled back.                       *)
GiveUp(r) ==
  /\ consoles[r] # NoOperator
  /\ lock' = Unlocked(r) /\ consoles' = [consoles EXCEPT ![r] = NoOperator]
  /\ UNCHANGED <<operators, step, accepted>>

-----------------------------------------------------------------------------
(* Codes.                                                                  *)

(* A code is good for its step and the ones beside it.                     *)
CodesOf(p) == {c \in Code : /\ c.person = p /\ c.version = operators[p].version
                            /\ c.step \in {step - 1, step, step + 1}}

(* The link is found, locked and spent in one transaction.                 *)
SetupComplete(p, c) ==
  /\ Writable /\ Known(p) /\ operators[p].link = "OPEN" /\ operators[p].active
  /\ c \in CodesOf(p)
  /\ Save(p, [operators[p] EXCEPT !.activated = TRUE, !.link = "NONE", !.last = c.step])
  /\ accepted' = [accepted EXCEPT ![c] = @ + 1]
  /\ UNCHANGED <<step, lock, consoles>>

SignInRead(r, p, c) ==
  /\ consoles[r] = NoOperator
  /\ Known(p) /\ operators[p].active /\ operators[p].activated
  /\ c \in CodesOf(p) /\ c.step > operators[p].last
  /\ consoles' = [consoles EXCEPT ![r] = [kind |-> "LOGIN", code |-> c]]
  /\ UNCHANGED <<operators, step, lock, accepted>>

(* Wrong: that the step was not used was read before.                      *)
AdvancesAlways(c) == TRUE
Advances(c) == operators[c.person].last < c.step

(* The code is spent, whatever became of the operator meanwhile.           *)
SignIn(r) ==
  /\ Writable /\ consoles[r] # NoOperator /\ consoles[r].kind = "LOGIN"
  /\ Advances(consoles[r].code)
  /\ LET c == consoles[r].code
     IN /\ Save(c.person, [operators[c.person] EXCEPT !.last = c.step])
        /\ accepted' = IF operators[c.person].version = c.version
                       THEN [accepted EXCEPT ![c] = @ + 1] ELSE accepted
  /\ consoles' = [consoles EXCEPT ![r] = NoOperator]
  /\ UNCHANGED <<step, lock>>

-----------------------------------------------------------------------------
OperatorsStep ==
  \/ StepOn
  \/ \E p \in People : \/ SetupExpires(p) \/ CreateOperator(p) \/ ResetOperator(p)
                       \/ \E active \in BOOLEAN : SetOperatorActive(p, active)
                       \/ \E c \in Code : SetupComplete(p, c)
  \/ \E r \in Consoles : \/ CountOperators(r) \/ Bootstrap(r) \/ GiveUp(r) \/ SignIn(r)
                         \/ \E p \in People : \/ AskBootstrap(r, p)
                                              \/ \E c \in Code : SignInRead(r, p, c)

OperatorsSpec == OperatorsInit /\ [][OperatorsStep]_consoleVars

-----------------------------------------------------------------------------
(* "En cuanto hay un operador, el arranque deja de existir": two browsers  *)
(* that know the phrase, and the command line, cannot make of it more than *)
(* the first operator there ever was.                                      *)
BootstrapIsFirst ==
  [][\A p \in People : ~Known(p) /\ Known(p)' /\ operators'[p].via = "BOOTSTRAP"
       => \A q \in People : ~Known(q) /\ (q # p => ~Known(q)')]_consoleVars

(* "El mismo codigo no vale dos veces": not for two logins at once, nor    *)
(* for a login after the activation, as long as its authenticator holds.   *)
OperatorCodeOnce == \A c \in Code : accepted[c] <= 1
=============================================================================
