--------------------------- MODULE MCFramePipeline ---------------------------
(* A small instance of FramePipeline for TLC.  Pictures lie on a line: pictures
   at distance 1 pass for copies of each other, so duplication is not transitive
   and a hold can drift, and pictures at distance 4 or more are another shot. *)
EXTENDS FramePipeline

MCPictures == {0, 1, 2, 5}

Distance(p, q) == IF p < q THEN q - p ELSE p - q

MCDifference ==
  [pair \in MCPictures \X MCPictures |->
     LET d == Distance(pair[1], pair[2])
     IN  IF d <= 1 THEN "duplicate" ELSE IF d >= 4 THEN "cut" ELSE "motion"]

(* One job in Movie mode and one in Anime mode; scene detection is on in both,
   in the second because Anime turns it on. *)
MCConfigurations == {[anime |-> FALSE, scene |-> TRUE], [anime |-> TRUE, scene |-> FALSE]}

(* The other two *)
MCOtherConfigurations == {[anime |-> FALSE, scene |-> FALSE], [anime |-> TRUE, scene |-> TRUE]}
=============================================================================
