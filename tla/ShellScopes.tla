---------------------------- MODULE ShellScopes ----------------------------
(***************************************************************************)
(* What local variables promise (ash.1, "local"): a function that returns  *)
(* gives back the value and the attributes that each variable it declared  *)
(* local had before, and touches no other.  AshCommands implements this    *)
(* with a list of saved copies, a table and reference to texts.            *)
(*                                                                         *)
(* A binding is a record of a value, or NoValue, and the attributes.       *)
(* Three things are weaker than the manual has it, and are what the code   *)
(* does: an assignment before a call that fails may leave its mark,        *)
(* a variable that was not set may come back without its attributes, and   *)
(* it stays read-only when the function has made it so.                    *)
(***************************************************************************)
EXTENDS Naturals, Sequences, Functions

CONSTANTS Names, Bindings, NoValue

VARIABLES
  bound,      \* the binding of each name
  scopes      \* per function being run: what the names it declared were bound to

vars == <<bound, scopes>>

Declared(i) == DOMAIN scopes[i]
Plain == CHOOSE b \in Bindings : b.value = NoValue /\ b.attributes = {}

\* Only v may change.
Changed(v) ==
  /\ bound' \in [Names -> Bindings]
  /\ \A n \in Names \ {v} : bound'[n] = bound[n]

\* The scope of the function being run, with v declared.
With(scope, v) ==
  IF v \in DOMAIN scope THEN scope
  ELSE [n \in DOMAIN scope \cup {v} |-> IF n = v THEN bound[v] ELSE scope[n]]

Init ==
  /\ bound \in [Names -> Bindings]
  /\ scopes = << >>

\* An assignment, export, unset, ...
Change(v) == Changed(v) /\ UNCHANGED scopes

\* A function is called; one variable may be assigned for its time.  When it
\* is read-only that fails, and leaves the value but not all attributes.
Enter ==
  \/ UNCHANGED bound /\ scopes' = Append(scopes, [n \in {} |-> Plain])
  \/ \E v \in Names :
       /\ scopes' = Append(scopes, [n \in {v} |-> bound[v]])
       /\ Changed(v)
  \/ \E v \in Names :
       /\ "VREADONLY" \in bound[v].attributes
       /\ scopes' = Append(scopes, [n \in {} |-> Plain])
       /\ Changed(v) /\ bound'[v].value = bound[v].value

\* A variable is made local to the function being run.
Declare(v) ==
  /\ scopes # << >>
  /\ scopes' = [scopes EXCEPT ![Len(scopes)] = With(@, v)]
  /\ Changed(v)

\* What a declared name may be bound to when the function has returned.
Restored(old, now) ==
  IF old.value # NoValue THEN {old}
  ELSE {b \in Bindings : b.value = NoValue}
         \cup {b \in Bindings : "VREADONLY" \in b.attributes \cap now.attributes}

\* The function being run returns or is left by an error.
Leave ==
  /\ scopes # << >>
  /\ scopes' = SubSeq(scopes, 1, Len(scopes) - 1)
  /\ bound' \in [Names -> Bindings]
  /\ \A v \in Names :
       bound'[v] \in IF v \in Declared(Len(scopes))
                     THEN Restored(scopes[Len(scopes)][v], bound[v])
                     ELSE {bound[v]}

Next ==
  \/ \E v \in Names : Change(v)
  \/ \E v \in Names : Declare(v)
  \/ Enter
  \/ Leave

Spec == Init /\ [][Next]_vars
=============================================================================
