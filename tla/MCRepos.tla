------------------------------ MODULE MCRepos ------------------------------
(* Instances of Repos for TLC.  Two layers: two actors besides the watches  *)
(* that contend for one object, and a layer the list of users leaves out.   *)
EXTENDS Repos

CONSTANTS a, b       \* layers

=============================================================================
