-------------------------------- MODULE Menu --------------------------------
(***************************************************************************)
(* What a kitchen offers: one of its dishes (kitchen-menu.service.ts) and   *)
(* one of its plans (subscription-plans.service.ts), as far as rules of the *)
(* menu relate their columns.  An update names some of the columns.         *)
(***************************************************************************)
EXTENDS Handlers, Integers

CONSTANT Prices    \* whole rupees; 0 stands for no originalPriceRs

VARIABLES
    dish,          \* Meal: foodType, isJainAvailable, calories and proteinG, isAvailable
    plan           \* SubscriptionPlan: priceRs, originalPriceRs, dietOptions, jainAvailable

menuVars == <<dish, plan>>

None == [status |-> "NONE"]

MenuInit == dish = None /\ plan = None

(* EGG and NON_VEG are one, and so are VEG and VEGAN. *)
DishColumns == [veg : BOOLEAN, jain : BOOLEAN, declared : BOOLEAN, published : BOOLEAN]

PlanColumns == [price : Prices \ {0}, original : Prices, veg : BOOLEAN, jain : BOOLEAN]

(* An update names some of the columns: two of them at most. *)
Updates(rows) ==
    LET columns == DOMAIN (CHOOSE row \in rows : TRUE)
    IN  {[c \in {f, g} |-> row[c]] : row \in rows, f \in columns, g \in columns}

(* Numbers that are not declared are a null: the DTO of an update lets it by. *)
DishUpdates == Updates(DishColumns)

PlanUpdates == Updates(PlanColumns)

(* A row with the columns of an update in place of its own. *)
Updated(row, dto) ==
    [c \in DOMAIN row \cup DOMAIN dto |-> IF c \in DOMAIN dto THEN dto[c] ELSE row[c]]

-----------------------------------------------------------------------------
(* Dishes *)

(* assertPublishable and assertJainEligible, of what is asked for. *)
DishAllowed(dto, next) ==
    /\ "published" \in DOMAIN dto /\ dto.published => next.declared
    /\ "jain" \in DOMAIN dto /\ dto.jain => next.veg

(* The numbers an update is judged by: its own, or else those of the row. *)
Judged(dto) == LET next == Updated(dish, dto) IN [next EXCEPT !.declared = @ \/ dish.declared]

(* The DTO of a new dish asks for the numbers. *)
CreateDish ==
    /\ Instant("createDish") /\ dish = None
    /\ \E dto \in DishColumns :
          /\ dto.declared
          /\ DishAllowed(dto, dto)
          /\ dish' = Updated([status |-> "SAVED"], dto)
    /\ UNCHANGED plan

(* update and setAvailability read the row, and write what was asked for later. *)
UpdateDish(r) ==
    /\ dish.status = "SAVED"
    /\ \E dto \in DishUpdates :
          /\ DishAllowed(dto, Judged(dto))
          /\ Begin(r, "updateDish", [at |-> "dish", dto |-> dto])
    /\ UNCHANGED menuVars

WriteDish(r) ==
    /\ At(r, "dish")
    /\ dish' = IF dish.status = "SAVED" THEN Updated(dish, req[r].dto) ELSE dish
    /\ End(r)
    /\ UNCHANGED plan

DeleteDish ==
    /\ Instant("deleteDish") /\ dish.status = "SAVED"
    /\ dish' = [dish EXCEPT !.status = "DELETED"]
    /\ UNCHANGED plan

-----------------------------------------------------------------------------
(* Plans *)

(* Faulty: only what is asked for is compared. *)
PlanAllowedOfUpdate(dto, next) ==
    /\ {"price", "original"} \subseteq DOMAIN dto => (dto.original = 0 \/ dto.original > dto.price)
    /\ {"jain", "veg"} \subseteq DOMAIN dto => (dto.jain => dto.veg)

(* The prices and the diets as they will be. *)
PlanAllowed(dto, next) ==
    /\ next.original = 0 \/ next.original > next.price
    /\ next.jain => next.veg

CreatePlan ==
    /\ Instant("createPlan") /\ plan = None
    /\ \E dto \in PlanColumns :
          /\ PlanAllowed(dto, dto)
          /\ plan' = Updated([status |-> "SAVED"], dto)
    /\ UNCHANGED dish

UpdatePlan(r) ==
    /\ plan.status = "SAVED"
    /\ \E dto \in PlanUpdates :
          /\ PlanAllowed(dto, Updated(plan, dto))
          /\ Begin(r, "updatePlan", [at |-> "plan", dto |-> dto])
    /\ UNCHANGED menuVars

WritePlan(r) ==
    /\ At(r, "plan")
    /\ plan' = Updated(plan, req[r].dto)
    /\ End(r)
    /\ UNCHANGED dish

-----------------------------------------------------------------------------
MenuStep(r) == UpdateDish(r) \/ WriteDish(r) \/ UpdatePlan(r) \/ WritePlan(r)

MenuAlone == CreateDish \/ DeleteDish \/ CreatePlan

MenuNext ==
    \/ MenuAlone
    \/ \E r \in Requests : MenuStep(r) \/ (Abort(r) /\ UNCHANGED menuVars)

MenuSpec == HandlersInit /\ MenuInit /\ [][MenuNext]_<<menuVars, handlerVars>>

(* A plan's struck-out price is above its price, and Jain goes with a diet of Veg  *)
(* or Vegan, as long as no two updates overlap: each column is compared with what   *)
(* was read of the other, whichever of the two the update names.                   *)
OffersAreCoherent ==
    plan.status = "SAVED" /\ ~overlapped =>
       /\ plan.original = 0 \/ plan.original > plan.price
       /\ plan.jain => plan.veg

(* "the service refuses to publish (isAvailable: true) without calories and protein *)
(* set" (kitchen-menu.dto.ts:74-75): a dish on sale declares both.                 *)
DishesDeclareNutrition == dish.status = "SAVED" /\ dish.published => dish.declared

=============================================================================
