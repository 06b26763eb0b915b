----------------------------- MODULE Reconcile -----------------------------
(***************************************************************************)
(* The reconciliation core as pure definitions: what normalization makes   *)
(* of one observation (domain/reconciliation/normalization.py), how two    *)
(* sides are matched and classified (matching.py, outcomes.py), which      *)
(* differences are shown (differences.py), which repairs are planned       *)
(* (application/repair/planning.py), what they write and under which       *)
(* precondition (payloads.py, applier.py), and when the verifier finds     *)
(* parity (verification.py).                                               *)
(*                                                                         *)
(* A text is its canonical value (NFC, UTC) with a mark for any other      *)
(* spelling of it.  A text over the size limit counts as a value of        *)
(* another type, as it does in the code.  Connector identities are left    *)
(* out: no comparison looks at them.                                       *)
(***************************************************************************)

CONSTANTS
    Skus, Keys, Names, Quantities, Currencies, Amounts, Instants,  \* what each contract accepts
    Monies,          \* the pairs of currency and amount that parse together
    Negative,        \* amounts below zero
    Huge,            \* integers that do not fit 64 bits
    AttributeNames,  \* keys an attribute object may have, canonical or not
    AttributeKeys,   \* the canonical ones
    Attributes,      \* attribute maps that respect the limits of a record
    Before(_, _),    \* the order of attribute keys
    RepairKey(_),    \* repair:<sku>, the provenance of a record a repair wrote
    Values,          \* everything a text or an integer may be
    Extras,          \* further members of a payload, which nothing reads
    NoValue

----------------------------------------------------------------------------
(* Wire payloads *)

Absent == [is |-> "absent", v |-> NoValue, variant |-> FALSE]
Null == [is |-> "null", v |-> NoValue, variant |-> FALSE]
Object == [is |-> "object", v |-> NoValue, variant |-> FALSE]
Text(t) == [is |-> "text", v |-> t, variant |-> FALSE]
Integer(n) == [is |-> "int", v |-> n, variant |-> FALSE]
Other == [is |-> "other", v |-> NoValue, variant |-> FALSE]
Raws == {Absent, Null, Object, Other} \cup [is : {"text"}, v : Values, variant : BOOLEAN]
          \cup [is : {"int"}, v : Values, variant : {FALSE}]

\* Observations: a payload, or none because the connector rejected the record.  Members of an
\* object are there only if the object is.
Shapes == [malformed : BOOLEAN, oversized : BOOLEAN, sku : Raws, key : Raws, name : Raws,
           quantity : Raws, updated : Raws, price : Raws, currency : Raws, amount : Raws,
           attributes : Raws, items : [AttributeNames -> Raws], extras : SUBSET Extras]
Observations ==
    {o \in Shapes :
       /\ o.price # Object => o.currency = Absent /\ o.amount = Absent
       /\ o.attributes # Object => \A k \in AttributeNames : o.items[k] = Absent}

\* _project_leaf and its siblings: a typed leaf or a marker.
Leaf(raw, type, kind) ==
    CASE raw.is = "absent" -> [kind |-> "missing", value |-> NoValue]
      [] raw.is = "null"   -> [kind |-> "null", value |-> NoValue]
      [] raw.is = type     -> [kind |-> kind, value |-> raw.v]
      [] OTHER             -> [kind |-> "wrong_type", value |-> NoValue]

NameLeaf(o) == Leaf(o.name, "text", "text")
QuantityLeaf(o) == Leaf(o.quantity, "int", "integer")
UpdatedLeaf(o) == Leaf(o.updated, "text", "text")
PriceLeaf(o) == Leaf(o.price, "object", "missing")
CurrencyLeaf(o) == Leaf(o.currency, "text", "text")
AmountLeaf(o) == Leaf(o.amount, "text", "text")
AttributesLeaf(o) == Leaf(o.attributes, "object", "missing")
ItemLeaf(o, k) == Leaf(o.items[k], "text", "attribute_text")

----------------------------------------------------------------------------
(* Normalization: a record, a reason for quarantine (at most one), or an error *)

\* integer_value raises outside the 64-bit range, before any reason is looked for.
Raises(o) == ~o.malformed /\ ~o.oversized /\ o.quantity.is = "int" /\ o.quantity.v \in Huge

Because(code, field) == [code |-> code, field |-> field]
Else(reasons, next) == IF reasons # {} THEN reasons ELSE next
When(condition, reason) == IF condition THEN {reason} ELSE {}

\* _provenance_quarantine, for one of the two texts.
Provenance(raw, field) ==
    CASE raw.is = "absent" -> {Because("missing_field", field)}
      [] raw.is = "null"   -> {Because("null_field", field)}
      [] raw.is = "text"   -> {}
      [] OTHER             -> {Because("wrong_type", field)}

Marked(leaf) == leaf.kind \in {"null", "wrong_type"}
\* _marker_quarantine, for one path.
Marker(leaf, field) ==
    When(Marked(leaf), Because(IF leaf.kind = "null" THEN "null_field" ELSE "wrong_type", field))

MarkedItems(o) == {k \in AttributeKeys : Marked(ItemLeaf(o, k))}
FirstItem(o) == CHOOSE k \in MarkedItems(o) : \A j \in MarkedItems(o) \ {k} : Before(k, j)
ItemMarker(o) ==
    IF MarkedItems(o) = {} THEN {} ELSE Marker(ItemLeaf(o, FirstItem(o)), FirstItem(o))

\* The markers in the order of their paths.
Markers(o) ==
    Else(Marker(AttributesLeaf(o), "attributes"), Else(ItemMarker(o),
    Else(Marker(NameLeaf(o), "name"), Else(Marker(QuantityLeaf(o), "quantity"),
    Else(Marker(PriceLeaf(o), "unit_price"), Else(Marker(AmountLeaf(o), "unit_price/amount"),
    Else(Marker(CurrencyLeaf(o), "unit_price/currency"), Marker(UpdatedLeaf(o), "updated_at"))))))))

\* _required_quarantine, past the markers.
Missing(leaf, field) == When(leaf.kind = "missing", Because("missing_field", field))
Required(o) ==
    Else(Missing(NameLeaf(o), "name"), Else(Missing(QuantityLeaf(o), "quantity"),
    Else(Missing(UpdatedLeaf(o), "updated_at"), Else(Missing(CurrencyLeaf(o), "unit_price"),
    Missing(AmountLeaf(o), "unit_price/amount")))))

\* _parse_money and UtcTimestamp.parse.
Parsed(o) ==
    Else(When(o.currency.v \notin Currencies, Because("invalid_value", "unit_price/currency")),
    Else(When(o.amount.v \notin Amounts \/ <<o.currency.v, o.amount.v>> \notin Monies,
              Because("invalid_value", "unit_price/amount")),
    When(o.updated.v \notin Instants, Because("invalid_value", "updated_at"))))

AttributesOf(o) ==
    [k \in {j \in AttributeKeys : ItemLeaf(o, j).kind = "attribute_text"} |-> o.items[k].v]

\* InventoryRecord.create, and the field _probe_invalid_field blames; it never varies the price.
Contract(o) ==
    Else(When(o.sku.v \notin Skus \/ o.sku.variant, Because("invalid_value", "sku")),
    Else(When(o.name.v \notin Names, Because("invalid_value", "name")),
    Else(When(o.quantity.v \notin Quantities, Because("invalid_value", "quantity")),
    Else(When(o.key.v \notin Keys, Because("invalid_value", "source_record_key")),
    Else(When(AttributesOf(o) \notin Attributes, Because("invalid_value", "attributes")),
    When(o.amount.v \in Negative, Because("invalid_value", "record")))))))

Quarantine(o) ==
    Else(When(o.malformed, Because("source_malformed", "payload")),
    Else(When(o.oversized, Because("wrong_type", "payload")),
    Else(When(\E k \in AttributeNames \ AttributeKeys : o.items[k] # Absent,
              Because("invalid_value", "attributes")),
    Else(Provenance(o.sku, "sku"), Else(Provenance(o.key, "source_record_key"),
    Else(Markers(o), Else(Required(o), Else(Parsed(o), Contract(o)))))))))

Accepted(o) == ~Raises(o) /\ Quarantine(o) = {}

\* The canonical record of an accepted observation ...
RecordOf(o) ==
    [sku |-> o.sku.v, key |-> o.key.v, name |-> o.name.v, quantity |-> o.quantity.v,
     price |-> <<o.currency.v, o.amount.v>>, updated |-> o.updated.v,
     attributes |-> AttributesOf(o)]
\* ... and its comparison document, with the parsed leaves in their places.
DocumentOf(o) ==
    [name |-> NameLeaf(o), quantity |-> QuantityLeaf(o),
     currency |-> CurrencyLeaf(o),
     amount |-> [kind |-> "money_amount", value |-> <<o.currency.v, o.amount.v>>],
     updated |-> [kind |-> "timestamp", value |-> o.updated.v],
     items |-> [k \in AttributeKeys |-> ItemLeaf(o, k)]]

----------------------------------------------------------------------------
(* Matching and classification; a side is a function from positions to observations *)

Members(side, sku) == {i \in DOMAIN side : Accepted(side[i]) /\ RecordOf(side[i]).sku = sku}
KeysOf(source, target) ==
    {RecordOf(source[i]).sku : i \in {j \in DOMAIN source : Accepted(source[j])}}
      \cup {RecordOf(target[i]).sku : i \in {j \in DOMAIN target : Accepted(target[j])}}

Many(S) == \E i, j \in S : i # j
Only(side, sku) == RecordOf(side[CHOOSE i \in Members(side, sku) : TRUE])

\* _business_content, without provenance.
Content(r) == [sku |-> r.sku, name |-> r.name, quantity |-> r.quantity, price |-> r.price,
               updated |-> r.updated, attributes |-> r.attributes]

Fields == {"name", "quantity", "price", "updated", "attributes"}
\* differences_between.
Mismatches(r, s) == {f \in Fields : r[f] # s[f]}

\* _classify_records.
Classification(source, target, sku) ==
    LET S == Members(source, sku)
        T == Members(target, sku)
    IN CASE Many(S) /\ Many(T)  -> "duplicate_both"
         [] Many(S) /\ ~Many(T) -> "duplicate_source"
         [] ~Many(S) /\ Many(T) -> "duplicate_target"
         [] ~Many(S) /\ ~Many(T) /\ S = {} -> "missing_from_source"
         [] ~Many(S) /\ ~Many(T) /\ S # {} /\ T = {} -> "missing_from_target"
         [] OTHER -> IF Mismatches(Only(source, sku), Only(target, sku)) # {}
                     THEN "field_mismatch" ELSE "match"

\* build_field_differences: the paths at which two documents hold different leaves.
Differences(d, e) ==
    {f \in {"name", "quantity", "currency", "amount", "updated"} : d[f] # e[f]}
      \cup {k \in AttributeKeys : d.items[k] # e.items[k]}

----------------------------------------------------------------------------
(* Planning, effects and verification.  The target store has one payload per SKU. *)

IsStore(store) == \A sku \in DOMAIN store : store[sku].sku = Text(sku)

Repairable == {"missing_from_target", "field_mismatch"}
PlannedKeys(source, store) ==
    {sku \in KeysOf(source, store) : Classification(source, store, sku) \in Repairable}
\* generate_repair_plan and RepairAction.from_outcome.
Plan(source, store) ==
    [sku \in PlannedKeys(source, store) |->
       [proposed |-> Only(source, sku),
        expected |-> IF Classification(source, store, sku) = "field_mismatch"
                     THEN {Only(store, sku)} ELSE {}]]

\* render_effect_payload.
RenderEffect(r) ==
    [malformed |-> FALSE, oversized |-> FALSE, sku |-> Text(r.sku), key |-> Text(RepairKey(r.sku)),
     name |-> Text(r.name), quantity |-> Integer(r.quantity), updated |-> Text(r.updated),
     price |-> Object, currency |-> Text(r.price[1]), amount |-> Text(r.price[2]),
     attributes |-> Object,
     items |-> [k \in AttributeNames |->
                  IF k \in DOMAIN r.attributes THEN Text(r.attributes[k]) ELSE Absent],
     extras |-> {}]

\* canonical_target_payload_sha256 digests the stored payload as it is, without its provenance.
Portable(o) == [f \in DOMAIN o \ {"key"} |-> o[f]]
\* The precondition of a write, evaluated by the target (_precondition_holds of the warehouse).
PreconditionHolds(store, sku, action) ==
    /\ action.expected = {} <=> sku \notin DOMAIN store
    /\ \A r \in action.expected : Portable(store[sku]) = Portable(RenderEffect(r))

\* The store after a plan whose writes were all taken; a refused one ends the application.
AfterPlan(store, plan) ==
    [sku \in DOMAIN store \cup DOMAIN plan |->
       IF sku \in DOMAIN plan THEN RenderEffect(plan[sku].proposed) ELSE store[sku]]

\* build_expected_inventory: what the target should hold, by key.
ExpectedKeys(source, store) ==
    {sku \in KeysOf(source, store) :
       sku \in PlannedKeys(source, store) \/ Members(store, sku) # {}}
Expected(source, store) ==
    [sku \in ExpectedKeys(source, store) |->
       IF sku \in PlannedKeys(source, store)
       THEN [Plan(source, store)[sku].proposed EXCEPT !.key = RepairKey(sku)]
       ELSE Only(store, sku)]

\* TargetParityVerifier.verify on a target that holds still: every record parses, nothing is
\* missing, unexpected or different in content.
ParityHolding(source, store, observed) ==
    /\ \A sku \in DOMAIN observed : Accepted(observed[sku])
    /\ DOMAIN observed = DOMAIN Expected(source, store)
    /\ \A sku \in DOMAIN observed :
          Content(RecordOf(observed[sku])) = Content(Expected(source, store)[sku])

----------------------------------------------------------------------------
(* What the theorems assume of an observation *)

\* The payload is spelled the way the program itself renders a record.
Canonical(o) ==
    /\ \A raw \in {o.sku, o.name, o.quantity, o.updated, o.currency, o.amount} : ~raw.variant
    /\ \A k \in AttributeNames : ~o.items[k].variant
    /\ o.price = Object /\ o.attributes = Object /\ o.extras = {}

=============================================================================
