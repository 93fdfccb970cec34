----------------------------- MODULE MCRaster -----------------------------
(* A scanner with three ADCs; two samples per line and two lines, or three *)
(* samples on a single line without settling.                              *)
EXTENDS Raster

MCParamSets ==
    {[max_samples |-> 2, max_lines |-> 2, settle_time |-> 2,
      dx |-> 1, dy |-> 3, adc_used |-> 5],
     [max_samples |-> 3, max_lines |-> 1, settle_time |-> 0,
      dx |-> 14, dy |-> 5, adc_used |-> 2]}

MCOrigins == {<<5, 2>>}
=============================================================================
