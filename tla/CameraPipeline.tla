--------------------------- MODULE CameraPipeline ---------------------------
(***************************************************************************)
(* From a frame of the sensor to the picture shown (camera_pipeline.c and  *)
(* perform_capture of camera.c): every pixel is the average of a block of  *)
(* the frame, reduced to fewer colours and expanded again for the preview. *)
(* The numbers are the program's; its floating point is exact arithmetic.  *)
(***************************************************************************)
EXTENDS Integers, Sequences, SequencesExt, FiniteSetsExt

\* tezos_cam_resolution_dims, and the frame of perform_capture.
Dimensions == {<<320, 480>>, <<320, 240>>, <<800, 480>>, <<640, 480>>}
FrameSize == <<960, 540>>

Least(a, b) == IF a < b THEN a ELSE b

\* tezos_cam_downsample_box: the rows (or columns) of the frame that row d
\* of a picture is the average of, counted from 0.
\* Mutant: the height of a block is rounded first.
BlockOf_Truncated(d, from, to) == d * (from \div to) .. (d + 1) * (from \div to) - 1
BlockOf(d, from, to) ==
    LET first == (d * from) \div to
        next  == ((d + 1) * from) \div to
    IN  first .. Least(IF next <= first THEN first + 1 ELSE next, from) - 1

Average(values) == FoldLeft(LAMBDA a, b : a + b, 0, values) \div Len(values)

\* tezos_cam_generate_bayer_matrix: of size n, as a function of <<y, x>>.
Bayer[n \in {1, 2, 4, 8}] ==
    IF n = 1 THEN [at \in {<<0, 0>>} |-> 0]
    ELSE LET k == n \div 2
         IN  [at \in (0 .. n - 1) \X (0 .. n - 1) |->
                4 * Bayer[k][<<at[1] % k, at[2] % k>>]
                + (CASE at[1] < k  /\ at[2] < k  -> 0
                     [] at[1] < k  /\ at[2] >= k -> 2
                     [] at[1] >= k /\ at[2] < k  -> 3
                     [] OTHER                    -> 1)]

-----------------------------------------------------------------------------
(* A colour is <<r, g, b>> of 0 .. 255.                                    *)

\* weighted_luminance, times 1000.
Luminance(rgb) == 299 * rgb[1] + 587 * rgb[2] + 114 * rgb[3]

\* tezos_cam_apply_1bit_dither: is the pixel white?
White(rgb, m, n) == 2 * n * n * Luminance(rgb) >= (2 * m + 1) * 255000

\* tezos_cam_apply_8bit_gray.
Gray(rgb) == Least((2 * Luminance(rgb) + 1000) \div 2000, 255)

\* dither_channel: value / step + bayer_normalized, rounded down.
Level(value, bits, m, n) ==
    Least((value * (2 ^ bits - 1) * 2 * n * n + (2 * m + 1) * 255) \div (510 * n * n),
          2 ^ bits - 1)

\* The picture of perform_capture: what each depth packs, expanded.
Expand(level, bits) == (level * 255) \div (2 ^ bits - 1)
Preview(rgb, depth, m, n) ==
    CASE depth = "1bit"  -> IF White(rgb, m, n) THEN <<255, 255, 255>> ELSE <<0, 0, 0>>
      [] depth = "gray"  -> <<Gray(rgb), Gray(rgb), Gray(rgb)>>
      [] depth = "8bit"  -> <<Expand(Level(rgb[1], 3, m, n), 3), Expand(Level(rgb[2], 3, m, n), 3),
                              Expand(Level(rgb[3], 2, m, n), 2)>>
      [] depth = "16bit" -> <<Expand(rgb[1] \div 8, 5), Expand(rgb[2] \div 4, 6),
                              Expand(rgb[3] \div 8, 5)>>
DepthNames == {"1bit", "gray", "8bit", "16bit"}
=============================================================================
