------------------------------- MODULE Stores --------------------------------
(***************************************************************************)
(* The stores of the shell of src/level2/sh23: aliases, traps, variables   *)
(* and special parameters (variable_store.c), and the older variables of   *)
(* the executor (variables.c).  Each keeps an array of pointers that owns  *)
(* what it points to, for the special parameters three fields; "family"    *)
(* says which store a behaviour is about.                                  *)
(*                                                                         *)
(* The heap maps an address to the object there.  An object holds copies   *)
(* of its name and value, made when it is created; a caller's value is     *)
(* text of its own, or text a store has handed out, which is read when it  *)
(* is copied.  An allocation that fails ends in log_fatal and abort, so no *)
(* operation is left half done.                                            *)
(***************************************************************************)
EXTENDS Integers, Sequences, FiniteSets, SequencesExt, TLC

CONSTANTS
  Names,      \* names of aliases and variables, signals of traps
  Special,    \* names is_special_variable knows
  Values,     \* the texts a caller has, with "" among them
  MaxParams,  \* bound: positional parameters given at once
  MaxEntries, \* bound: entries of one store
  MaxObjects  \* bound: entries and positional parameters of one store

VARIABLES
  family,  \* "alias", "trap", "variable", "special" or "shell"
  heap,    \* address -> object
  data,    \* the pointers of the store's array
  params,  \* the pointers of positional_params
  alive,   \* FALSE after log_fatal
  meant,   \* what the calls so far have put under each name
  given    \* the positional parameters last given

ovars == <<family, heap, data, params, alive, meant, given>>

None == "none"                \* the NULL action of a trap
Freed == "freed memory"

-----------------------------------------------------------------------------
(* ptr_array.c, instantiated for each type of element                      *)

Addresses == 1..(2 * MaxEntries + MaxParams + 2)
Unused(h) == CHOOSE a \in Addresses \ DOMAIN h:
               \A b \in Addresses \ DOMAIN h: a <= b
Allocate(h, object) == [a \in DOMAIN h \cup {Unused(h)} |->
                          IF a \in DOMAIN h THEN h[a] ELSE object]
Release(h, freed) == [a \in DOMAIN h \ freed |-> h[a]]

(* An operation takes the heap and the array and returns both. *)
array_append(h, d, object) == [heap |-> Allocate(h, object), data |-> Append(d, Unused(h))]

(* The new element exists before the old one is freed. *)
array_set(h, d, i, object) ==
  [heap |-> Release(Allocate(h, object), {d[i]}), data |-> [d EXCEPT ![i] = Unused(h)]]

array_removeMutant(h, d, i) == [heap |-> Release(h, {d[i]}), data |-> Front(d)]
array_remove(h, d, i) == [heap |-> Release(h, {d[i]}), data |-> RemoveAt(d, i)]

array_clear(h, d) == [heap |-> Release(h, Range(d)), data |-> <<>>]

(* The first element whose name compares equal, 0 for none.                 *)
find_with_compare(h, d, name) ==
  IF \E i \in DOMAIN d: h[d[i]].name = name
  THEN CHOOSE i \in DOMAIN d: /\ h[d[i]].name = name
                              /\ \A j \in 1..(i - 1): h[d[j]].name # name
  ELSE 0

Found(name) == find_with_compare(heap, data, name)
Object(n, v, e, r) == [name |-> n, value |-> v, exported |-> e, read_only |-> r]

(* A value: the caller's own text, or what is at the address of an object.  *)
Literal == [address: {0}, text: Values]
NonEmpty == [address: {0}, text: Values \ {""}]
HandedOut == [address: Range(data), text: {""}]
Read(h, v) == IF v.address = 0 THEN v.text
              ELSE IF v.address \in DOMAIN h THEN h[v.address].value ELSE Freed

Becomes(r) == heap' = r.heap /\ data' = r.data
Remember(name, object) == meant' = [n \in DOMAIN meant \cup {name} |->
                                      IF n = name THEN object ELSE meant[n]]
Forget(name) == meant' = [n \in DOMAIN meant \ {name} |-> meant[n]]
Nothing == [n \in {} |-> Object("", "", FALSE, FALSE)]

Replaced(h, d, object) ==
  LET i == find_with_compare(h, d, object.name)
  IN IF i # 0 THEN array_set(h, d, i, object) ELSE array_append(h, d, object)
Replace(object) == Becomes(Replaced(heap, data, object))

-----------------------------------------------------------------------------
(* alias_store.c, trap_store.c, variable_store.c                           *)

alias_store_add(name, v) ==
  /\ family = "alias"
  /\ Replace(Object(name, Read(heap, v), FALSE, FALSE))
  /\ Remember(name, Object(name, Read(heap, v), FALSE, FALSE))
  /\ UNCHANGED <<params, alive, given>>

(* An action that is not given is kept as NULL, and the trap is there. *)
trap_store_set_trap(signal, action) ==
  /\ family = "trap"
  /\ Replace(Object(signal, action, FALSE, FALSE))
  /\ Remember(signal, Object(signal, action, FALSE, FALSE))
  /\ UNCHANGED <<params, alive, given>>

(* A read-only variable is replaced like any other. *)
variable_store_add(name, v, exported, read_only) ==
  /\ family = "variable"
  /\ Replace(Object(name, Read(heap, v), exported, read_only))
  /\ Remember(name, Object(name, Read(heap, v), exported, read_only))
  /\ UNCHANGED <<params, alive, given>>

Removes(name) ==
  /\ IF Found(name) # 0 THEN Becomes(array_remove(heap, data, Found(name)))
     ELSE UNCHANGED <<heap, data>>
  /\ Forget(name)
  /\ UNCHANGED <<params, alive, given>>

alias_store_remove(name) == family = "alias" /\ Removes(name)
trap_store_remove_trap(signal) == family = "trap" /\ Removes(signal)
variable_store_remove(name) == family = "variable" /\ Removes(name)

(* An alias and a trap store have one array: a second, empty one changes    *)
(* nothing.                                                                 *)
Clears ==
  /\ LET r == array_clear(heap, data)
     IN /\ heap' = array_clear(r.heap, params).heap
        /\ data' = r.data
  /\ params' = <<>> /\ given' = <<>>
  /\ meant' = Nothing
  /\ UNCHANGED alive

(* The special parameters: the status and the options start again, the name *)
(* of the shell stays.                                                      *)
Parameter(name, text) == Object(name, text, FALSE, FALSE)
SpecialParameters == <<Parameter("?", "0"), Parameter("0", "sh23"), Parameter("-", "")>>

SetSpecial(i, v) ==
  LET object == Parameter(SpecialParameters[i].name, Read(heap, v))
  IN /\ family = "special"
     /\ Becomes(array_set(heap, data, i, object))
     /\ Remember(object.name, object)
     /\ UNCHANGED <<params, alive, given>>

variable_store_set_status(v) == SetSpecial(1, v)
variable_store_set_shell_name(v) == SetSpecial(2, v)
variable_store_set_options(v) == SetSpecial(3, v)

ClearSpecial ==
  /\ family = "special"
  /\ LET r == array_set(heap, data, 1, SpecialParameters[1])
     IN Becomes(array_set(r.heap, r.data, 3, SpecialParameters[3]))
  /\ meant' = [meant EXCEPT !["?"] = SpecialParameters[1], !["-"] = SpecialParameters[3]]
  /\ UNCHANGED <<params, alive, given>>

alias_store_clear == family = "alias" /\ Clears
trap_store_clear == family = "trap" /\ Clears
variable_store_clear == (family = "variable" /\ Clears) \/ ClearSpecial

(* Both flags of a variable are set in place; log_fatal if there is none.   *)
SetInPlace(name, object) ==
  IF Found(name) # 0
  THEN /\ heap' = [heap EXCEPT ![data[Found(name)]] = object]
       /\ Remember(name, object)
       /\ UNCHANGED <<data, params, alive, given>>
  ELSE alive' = FALSE /\ UNCHANGED <<heap, data, params, meant, given>>
Current(name) == IF Found(name) # 0 THEN heap[data[Found(name)]] ELSE Object(name, "", FALSE, FALSE)

variable_store_set_read_only(name, on) ==
  family = "variable" /\ SetInPlace(name, [Current(name) EXCEPT !.read_only = on])
variable_store_set_exported(name, on) ==
  family = "variable" /\ SetInPlace(name, [Current(name) EXCEPT !.exported = on])

(* The old parameters are freed before the new ones are copied, one by one, *)
(* each under its number.                                                   *)
AppendParams(h, d, texts) ==
  LET append(r, v) ==
        array_append(r.heap, r.data,
                     Object(ToString(Len(r.data) + 1), Read(r.heap, v), FALSE, FALSE))
  IN FoldLeft(append, [heap |-> h, data |-> d], texts)

variable_store_set_positional_params(texts) ==
  /\ family \in {"variable", "shell"}
  /\ LET c == array_clear(heap, params)
         r == AppendParams(c.heap, c.data, texts)
     IN heap' = r.heap /\ params' = r.data
  /\ given' = [i \in DOMAIN texts |-> Read(heap, texts[i])]
  /\ UNCHANGED <<data, alive, meant>>

-----------------------------------------------------------------------------
(* variables.c                                                             *)

Refuses(name) == name \in Special \/ (Found(name) # 0 /\ Current(name).read_only)
Refused == UNCHANGED <<heap, data, params, alive, meant, given>>

(* An object of its own for a new name, the old one changed in place.       *)
Update(object) ==
  /\ IF Found(object.name) # 0
     THEN heap' = [heap EXCEPT ![data[Found(object.name)]] = object] /\ UNCHANGED data
     ELSE Becomes(array_append(heap, data, object))
  /\ Remember(object.name, object)
  /\ UNCHANGED <<params, alive, given>>

variable_store_set_variable(name, text) ==
  /\ family = "shell"
  /\ IF Refuses(name) THEN Refused ELSE Update([Current(name) EXCEPT !.value = text])

(* ${name:=text} gives a value to a name that has none or an empty one.     *)
variable_store_assign_default(name, text) ==
  /\ family = "shell"
  /\ IF Current(name).value # "" \/ Refuses(name) THEN Refused
     ELSE Update([Current(name) EXCEPT !.value = text])

variable_store_export_variable(name) ==
  /\ family = "shell"
  /\ IF name \in Special THEN Refused ELSE Update([Current(name) EXCEPT !.exported = TRUE])

variable_store_make_readonly(name) ==
  /\ family = "shell"
  /\ IF name \in Special THEN Refused ELSE Update([Current(name) EXCEPT !.read_only = TRUE])

variable_store_unset_variable(name) ==
  /\ family = "shell"
  /\ IF Refuses(name) THEN Refused ELSE Removes(name)

-----------------------------------------------------------------------------
(* A store of variables takes the environment with it: the entries in their *)
(* order, exported.  The others start empty.                                *)
Entries == {Object(n, v, TRUE, FALSE): n \in Names, v \in Values}
Begins(entries) ==
  LET r == FoldLeft(LAMBDA s, o: Replaced(s.heap, s.data, o), [heap |-> Nothing, data |-> <<>>], entries)
  IN /\ heap = r.heap /\ data = r.data
     /\ meant = FoldLeft(LAMBDA f, o: [n \in DOMAIN f \cup {o.name} |-> IF n = o.name THEN o ELSE f[n]],
                         Nothing, entries)

OInit ==
  /\ \/ family \in {"alias", "trap", "shell"} /\ Begins(<<>>)
     \/ family = "special" /\ Begins(SpecialParameters)
     \/ /\ family = "variable"
        /\ \E n \in 0..MaxEntries: \E environment \in [1..n -> Entries]: Begins(environment)
  /\ params = <<>> /\ alive = TRUE /\ given = <<>>

Fits(name) == \/ Found(name) # 0
              \/ Len(data) < MaxEntries /\ Len(data) + Len(params) < MaxObjects

(* One call, with the name it is given.  A variable is exported or     *)
(* read-only from the start; the setters of the flags make the other cases. *)
StoreCall(name) ==
  \/ alias_store_remove(name)
  \/ trap_store_remove_trap(name)
  \/ variable_store_remove(name)
  \/ \E on \in BOOLEAN: \/ variable_store_set_read_only(name, on)
                        \/ variable_store_set_exported(name, on)
  \/ /\ Fits(name)
     /\ \/ \E v \in Literal \cup HandedOut: alias_store_add(name, v)
        \/ \E v \in Literal \cup HandedOut, r \in BOOLEAN:
             variable_store_add(name, v, ~r, r)
        \/ \E t \in Values \cup {None}: trap_store_set_trap(name, t)

ShellCall(name) ==
  \/ variable_store_unset_variable(name)
  \/ /\ Fits(name)
     /\ \/ \E t \in Values: \/ variable_store_set_variable(name, t)
                            \/ variable_store_assign_default(name, t)
        \/ variable_store_export_variable(name)
        \/ variable_store_make_readonly(name)

ONext ==
  /\ alive
  /\ UNCHANGED family
  /\ \/ \E name \in Names: StoreCall(name)
     \/ \E name \in Names \cup Special: ShellCall(name)
     \/ \E v \in Literal \cup HandedOut: \/ variable_store_set_status(v)
                                        \/ variable_store_set_shell_name(v)
                                        \/ variable_store_set_options(v)
     \/ alias_store_clear \/ trap_store_clear \/ variable_store_clear
     \/ \E n \in {k \in 0..MaxParams: k + Len(data) <= MaxObjects}:
          \E texts \in [1..n -> NonEmpty \cup HandedOut]:
            variable_store_set_positional_params(texts)

-----------------------------------------------------------------------------
(* Properties                                                              *)

OTypeOK ==
  /\ alive \in BOOLEAN
  /\ DOMAIN heap \subseteq Addresses
  /\ Len(data) <= (IF family = "special" THEN 3 ELSE MaxEntries) /\ Len(params) <= MaxParams
  /\ Range(data) \cup Range(params) \subseteq Addresses
  /\ DOMAIN meant \subseteq Names \cup Special \cup {"?", "0", "-"}

(* Whatever order the calls come in, and whatever a value given to them     *)
(* points at: each name is in the array once, with what the last call under *)
(* it meant; the parameters are those given, numbered; and each object is   *)
(* owned by one place of one array, none is left over (array_set,           *)
(* array_remove and array_clear free what they drop, and nothing else).     *)
StoresAreMaps ==
  /\ IsInjective(data \o params)
  /\ DOMAIN heap = Range(data) \cup Range(params)
  /\ {heap[data[i]]: i \in DOMAIN data} = {meant[n]: n \in DOMAIN meant}
  /\ Len(data) = Cardinality(DOMAIN meant)
  /\ [i \in DOMAIN params |-> heap[params[i]].value] = given
  /\ \A i \in DOMAIN params: heap[params[i]].name = ToString(i)
=============================================================================
