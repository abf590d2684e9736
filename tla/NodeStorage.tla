----------------------------- MODULE NodeStorage -----------------------------
(***************************************************************************)
(* The twelve instantiations of decision_forest, what a node of each can   *)
(* hold, and the choice among them.  The importer chooses from the sizes   *)
(* of a model before it builds a node; a node then keeps whatever bits its *)
(* fields have room for, without an error except for the feature.          *)
(***************************************************************************)
EXTENDS Integers, Sequences

CONSTANTS
  SmallIndexBits, LargeIndexBits,         \* 32 and 64 bits in the code
  SmallOffsetBits, LargeOffsetBits,       \* 16 and 32
  SmallMetadataBits, LargeMetadataBits,   \* 16 and 32
  ReservedMetadataBits                    \* 3

ASSUME BitsAssumption ==
  /\ {SmallIndexBits, LargeIndexBits, SmallOffsetBits, LargeOffsetBits} \subseteq Nat \ {0}
  /\ ReservedMetadataBits \in Nat
  /\ {SmallMetadataBits, LargeMetadataBits} \subseteq {b \in Nat : b > ReservedMetadataBits}

TwoTo(n) ==
  LET power[k \in 0 .. n] == IF k = 0 THEN 1 ELSE 2 * power[k - 1]
  IN  power[n]

UnsignedMax(bits) == TwoTo(bits) - 1
CeilDivide(a, b) == a \div b + (IF a % b # 0 THEN 1 ELSE 0)

(* A member of specialization_variant *)
Specialization(layout, double, large) == [layout |-> layout, double |-> double, large |-> large]

SpecializationVariant ==
  <<Specialization("depth_first", FALSE, FALSE), Specialization("depth_first", FALSE, TRUE),
    Specialization("depth_first", TRUE, FALSE),  Specialization("depth_first", TRUE, TRUE),
    Specialization("breadth_first", FALSE, FALSE), Specialization("breadth_first", FALSE, TRUE),
    Specialization("breadth_first", TRUE, FALSE),  Specialization("breadth_first", TRUE, TRUE),
    Specialization("layered_children_together", FALSE, FALSE),
    Specialization("layered_children_together", FALSE, TRUE),
    Specialization("layered_children_together", TRUE, FALSE),
    Specialization("layered_children_together", TRUE, TRUE)>>

LayoutValue(layout) ==
  CASE layout = "depth_first"               -> 0
    [] layout = "breadth_first"             -> 1
    [] layout = "layered_children_together" -> 2

(* What the fields of a node hold *)
IndexBits(types)   == IF types.double THEN LargeIndexBits ELSE SmallIndexBits
OffsetBits(types)  == IF types.large THEN LargeOffsetBits ELSE SmallOffsetBits
MetadataBits(types) == IF types.large THEN LargeMetadataBits ELSE SmallMetadataBits
FeatureMask(types) == UnsignedMax(MetadataBits(types) - ReservedMetadataBits)

AsIndex(types, n)    == n % TwoTo(IndexBits(types))
AsOffset(types, n)   == n % TwoTo(OffsetBits(types))
AsMetadata(types, n) == n % TwoTo(MetadataBits(types))

(* nvforest::index_type, in which the importer counts, is as wide as the index
   of a small node. *)
AsCount(n) == n % TwoTo(SmallIndexBits)

(* get_forest_variant_index: whether a model needs the wide types.  The sum is
   of that type, and compared with the greatest value of it. *)
DoubleIndexesRequired(num_categorical, max_categories, num_vector_leaves) ==
  \/ /\ max_categories > SmallIndexBits
     /\ AsCount(CeilDivide(max_categories, SmallIndexBits) + 1 * num_categorical)
          > UnsignedMax(SmallIndexBits)
  \/ num_vector_leaves > UnsignedMax(SmallIndexBits)

(* Mutants of LargeTreesRequired: only offsets, or only features, are looked
   at. *)
LargeTreesRequiredByOffset(num_feature, max_offset) ==
  max_offset > UnsignedMax(SmallOffsetBits)
LargeTreesRequiredByFeature(num_feature, max_offset) ==
  num_feature > UnsignedMax(SmallMetadataBits) \div TwoTo(ReservedMetadataBits)

LargeTreesRequired(num_feature, max_offset) ==
  \/ num_feature > UnsignedMax(SmallMetadataBits) \div TwoTo(ReservedMetadataBits)
  \/ max_offset > UnsignedMax(SmallOffsetBits)

Bit(condition) == IF condition THEN 1 ELSE 0

VariantIndex(layout, double_precision, large_trees) ==
  4 * LayoutValue(layout) + 2 * Bit(double_precision) + Bit(large_trees)

(* The instantiation import_to_specific_variant builds: it counts up from 0
   until the alternative with this index. *)
Alternative(index) == SpecializationVariant[index + 1]
=============================================================================
