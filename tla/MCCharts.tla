------------------------------ MODULE MCCharts ------------------------------
(* Results of few rows, with the thresholds of the recommender scaled down. *)
EXTENDS Charts, ChartResults

ParseOf == ParseWith(NaN)

=============================================================================
