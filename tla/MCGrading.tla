------------------------------- MODULE MCGrading -------------------------------
(* Small instances of Grading. *)
EXTENDS Grading

\* Every challenge, by its learner and by reference.
MCSubmissions == [lab : Lab, by : {"learner", "reference"}]

\* References only, and one learner.
MCReferences == [lab : Lab, by : {"reference"}]
MCLearner == [lab : {"L002"}, by : {"learner"}]
===============================================================================
