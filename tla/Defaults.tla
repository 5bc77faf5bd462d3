------------------------------ MODULE Defaults ------------------------------
(***************************************************************************)
(* The lists a customer keeps with one default among them: the addresses    *)
(* (addresses.service.ts), and the cards and UPI ids, which are kept alike  *)
(* (payment-methods.service.ts).  One customer, one of the lists.           *)
(***************************************************************************)
EXTENDS Handlers, Naturals, FiniteSets

CONSTANTS Keys    \* ids of addresses, gateway tokens of cards, UPI ids

VARIABLES
    saved,        \* the rows of the list, and which are isDefault
    unset         \* history: the default was taken off by the customer, and none set since

defaultsVars == <<saved, unset>>

Rows == {k \in Keys : saved[k] # "NONE"}
DefaultsOf(rows) == {k \in Keys : rows[k] = "DEFAULT"}

DefaultsInit ==
    /\ saved = [k \in Keys |-> "NONE"]
    /\ unset = FALSE

Flag(isDefault) == IF isDefault THEN "DEFAULT" ELSE "PLAIN"

(* Faulty: the other defaults stay. *)
PutBeside(k, isDefault) ==
    /\ saved' = [saved EXCEPT ![k] = Flag(isDefault)]
    /\ unset' = (DefaultsOf(saved') = {} /\ (unset \/ saved[k] = "DEFAULT"))

(* A transaction: a row that becomes the default takes it from all others. *)
PutRow(k, isDefault) ==
    /\ saved' = [j \in Keys |-> CASE j = k -> Flag(isDefault)
                                  [] j # k /\ isDefault /\ saved[j] = "DEFAULT" -> "PLAIN"
                                  [] OTHER -> saved[j]]
    /\ unset' = (DefaultsOf(saved') = {} /\ (unset \/ saved[k] = "DEFAULT"))

(* create, save, addUpi: the rows are counted first; saving a card or a UPI id  *)
(* that is on the list updates its row, flag included.                          *)
SaveEntry(r, call, k, isDefault) ==
    /\ call = "createAddress" => k \notin Rows
    /\ Begin(r, call, [at |-> "put", key |-> k, isDefault |-> isDefault \/ Rows = {}])
    /\ UNCHANGED defaultsVars

PutEntry(r) ==
    /\ At(r, "put")
    /\ PutRow(req[r].key, req[r].isDefault)
    /\ End(r)

(* setDefault, and an address's update as far as it names isDefault. *)
Flagged(r, call, k, isDefault) ==
    /\ k \in Rows /\ (call = "setDefault" => isDefault)
    /\ Begin(r, call, [at |-> "flag", key |-> k, isDefault |-> isDefault])
    /\ UNCHANGED defaultsVars

(* The transaction is rolled back when the row is gone. *)
FlagEntry(r) ==
    /\ At(r, "flag")
    /\ IF req[r].key \in Rows THEN PutRow(req[r].key, req[r].isDefault) ELSE UNCHANGED defaultsVars
    /\ End(r)

RemoveEntry(r, k) ==
    /\ k \in Rows
    /\ Begin(r, "removeEntry", [at |-> "remove", key |-> k, isDefault |-> saved[k] = "DEFAULT"])
    /\ UNCHANGED defaultsVars

(* "Never leave the user without a default": another is promoted, the newest in  *)
(* the code and any here, if the row was the default when it was read.           *)
DropEntry(r) ==
    LET rest == [saved EXCEPT ![req[r].key] = "NONE"]
        others == Rows \ {req[r].key}
    IN  /\ At(r, "remove")
        /\ IF req[r].key \notin Rows THEN UNCHANGED defaultsVars
           ELSE /\ \/ /\ ~req[r].isDefault \/ others = {}
                      /\ saved' = rest
                   \/ /\ req[r].isDefault
                      /\ \E next \in others : saved' = [rest EXCEPT ![next] = "DEFAULT"]
                /\ unset' = (unset /\ DefaultsOf(saved') = {})
        /\ End(r)

DefaultsStep(r) ==
    \/ \E k \in Keys, isDefault \in BOOLEAN :
          \/ \E call \in {"createAddress", "saveMethod"} : SaveEntry(r, call, k, isDefault)
          \/ \E call \in {"updateAddress", "setDefault"} : Flagged(r, call, k, isDefault)
    \/ \E k \in Keys : RemoveEntry(r, k)
    \/ PutEntry(r) \/ FlagEntry(r) \/ DropEntry(r)

DefaultsNext == \E r \in Requests : DefaultsStep(r) \/ (Abort(r) /\ UNCHANGED defaultsVars)

DefaultsSpec == HandlersInit /\ DefaultsInit /\ [][DefaultsNext]_<<defaultsVars, handlerVars>>

(* Checkout pre-selects one entry: as long as no two of the customer's requests  *)
(* overlap there is exactly one default in a list that is not empty, unless the  *)
(* customer took it off.  That happens by unsetting it, and also by saving the   *)
(* default card once more without the flag.                                     *)
OneDefault ==
    ~overlapped =>
        /\ Cardinality(DefaultsOf(saved)) <= 1
        /\ Rows # {} /\ ~unset => DefaultsOf(saved) # {}

=============================================================================
