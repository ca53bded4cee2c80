----------------------------- MODULE Multimodal -----------------------------
(***************************************************************************)
(* An image on its way into a prompt: the size it is resized to and the    *)
(* patches it is cut into (src/src/vision/preprocess.cpp), the prompt of a *)
(* caller that hands over a text and images, and the prefill that puts the *)
(* features of the vision tower and the M-RoPE positions on the            *)
(* placeholders (runtime/multimodal_stream.cpp, model/qwen3_vl.cpp).       *)
(*                                                                         *)
(* A grid is <<frames, rows, columns>> in patches; the tower merges squares *)
(* of merge by merge patches, and feature <<k, n>> is merged patch n of     *)
(* image k.                                                                *)
(***************************************************************************)
EXTENDS Responses

(* smart_resize in integers: side / beta is sqrt(side * pixels / other), so
   the floors and ceilings of the code are bounds on squares.              *)
RoundBy(v, factor) == ((2 * v + factor) \div (2 * factor)) * factor
ShrinkSide(side, other, factor, pixels) ==
    factor * Max({1} \cup {k \in 1 .. side : k * factor * k * factor * other <= side * pixels})
GrowSide(side, other, factor, pixels) ==
    factor * Min({k \in 1 .. pixels : k * factor * k * factor * other >= side * pixels})
SmartResize(h, w, factor, minPixels, maxPixels) ==
    LET hBar == RoundBy(h, factor)  wBar == RoundBy(w, factor) IN
    CASE hBar * wBar > maxPixels -> <<ShrinkSide(h, w, factor, maxPixels), ShrinkSide(w, h, factor, maxPixels)>>
      [] hBar * wBar < minPixels -> <<GrowSide(h, w, factor, minPixels), GrowSide(w, h, factor, minPixels)>>
      [] OTHER -> <<hBar, wBar>>
ImageTokenCount(h, w, patch, merge, minPixels, maxPixels) ==
    LET hw == SmartResize(h, w, patch * merge, minPixels, maxPixels)
    IN  ((hw[1] \div patch) * (hw[2] \div patch)) \div (merge * merge)

(* patchify_image: the (row, column) of patch n of the sequence, in the order
   of the merged blocks.                                                   *)
PatchAt(n, gw, merge) ==
    LET block == n \div (merge * merge)  inner == n % (merge * merge)
        perRow == gw \div merge
    IN  <<(block \div perRow) * merge + inner \div merge, (block % perRow) * merge + (inner % merge)>>

-----------------------------------------------------------------------------
MergedPatches(grid, merge) == (grid[1] * grid[2] * grid[3]) \div (merge * merge)
IsPad(item) == item.t = "pad"

(* render_multimodal_prompt: one user turn with every image before the text. *)
RenderMultimodalPrompt(modelType, text, images, tokensOfImage) ==
    RenderChatTemplate(ChatFormat(modelType),
      <<[role |-> "user", content |-> <<text>>, toolCall |-> <<>>, images |-> images,
         pads |-> [k \in DOMAIN images |-> tokensOfImage[images[k]]]]>>, <<>>, TRUE)

(* merge_image_features: the rows of the placeholders, in order, are the
   features, in order; the others keep their embedding.                    *)
MergeImageFeatures(embeds, features, ids) ==
    [p \in 1 .. Len(ids) |-> IF IsPad(ids[p]) THEN features[Len(SelectSeq(SubSeq(ids, 1, p), IsPad))] ELSE embeds[p]]

(* mrope_position_ids: the <<temporal, height, width>> position of each token,
   from position base on.  A placeholder starts the run of the next image,
   whatever the tokens after it are.                                       *)
RECURSIVE MropeFrom(_, _, _, _)
MropeFrom(ids, grids, merge, base) ==
    IF ids = <<>> THEN <<>>
    ELSE IF IsPad(ids[1]) /\ grids # <<>>
    THEN LET t == grids[1][1]  gh == grids[1][2] \div merge  gw == grids[1][3] \div merge
             run == [n \in 1 .. t * gh * gw |->
                       <<base + (n - 1) \div (gh * gw), base + (((n - 1) \div gw) % gh), base + ((n - 1) % gw)>>]
         IN  run \o MropeFrom(SubSeq(ids, Len(run) + 1, Len(ids)), Tail(grids), merge, base + Max({t, gh, gw}))
    ELSE <<<<base, base, base>>>> \o MropeFrom(Tail(ids), grids, merge, base + 1)
MropePositionIds(ids, grids, merge) == MropeFrom(ids, grids, merge, 0)

(* prepare_multimodal_prefill.  Features and grids are concatenated in the
   order of the images.                                                    *)
PreparePrefill(ids, grids, merge) ==
    LET PatchesOf(k) == [n \in 1 .. MergedPatches(grids[k], merge) |-> <<k, n - 1>>]
        features == FlattenSeq([k \in 1 .. Len(grids) |-> PatchesOf(k)])
    IN  IF grids = <<>> \/ Len(SelectSeq(ids, IsPad)) # Len(features) THEN Rejected
        ELSE [ok |-> TRUE, features |-> features, positions |-> MropePositionIds(ids, grids, merge)]

(* run_prefill: what each row of the prompt starts from, and
   prefill_multimodal_batched: where decoding continues.                   *)
RunPrefill(ids, in) ==
    LET rows == MergeImageFeatures(ids, in.features, ids)
    IN  [p \in 1 .. Len(ids) |-> [row |-> rows[p], pos |-> in.positions[p]]]
DecodeOffset(in) == Max({in.positions[p][a] : p \in DOMAIN in.positions, a \in 1 .. 3}) + 1

(* build_selector: the axis each of the half frequencies turns with.       *)
BuildSelector(section, half) ==
    [i \in 0 .. half - 1 |->
       IF Len(section) = 3 /\ i % 3 = 1 /\ i < section[2] * 3 THEN 2
       ELSE IF Len(section) = 3 /\ i % 3 = 2 /\ i < section[3] * 3 THEN 3
       ELSE 1]
=============================================================================
