---------------------------- MODULE MCGenerators ----------------------------
(***************************************************************************)
(* The two tools that make up proofs for the tests of the contracts: the   *)
(* recorder of real proofs, in one of its tests, or the generator of       *)
(* random ones, with one pattern.                                          *)
(***************************************************************************)
EXTENDS ProofGeneration, FuzzyProofGenerator

NoTest ==
    /\ test = "none" /\ box = Deployed /\ round = 0 /\ step = 0
    /\ params = <<>> /\ proofData = <<>> /\ pending = {} /\ disk = {}

NoPattern ==
    /\ phase = "none" /\ pattern = <<>> /\ path = <<>> /\ pathData = <<>>
    /\ nodes = <<>> /\ VerifyInit

MCInit == (Init /\ NoPattern) \/ (NoTest /\ FuzzyInit)

MCNext ==
    \/ test # "none" /\ Next /\ UNCHANGED fuzzyVars
    \/ test = "none" /\ FuzzyNext /\ UNCHANGED vars

MCSpec ==
    /\ MCInit /\ [][MCNext]_<<vars, fuzzyVars>>
    /\ WF_<<vars, fuzzyVars>>(/\ test # "none"
                              /\ StartRound \/ Populate \/ FinishRound
                              /\ UNCHANGED fuzzyVars)
    /\ WF_<<vars, fuzzyVars>>(test # "none" /\ Written /\ UNCHANGED fuzzyVars)
=============================================================================
