------------------------------ MODULE MCLocEng ------------------------------
EXTENDS LocEng

MCCriteria == {[mode |-> "STANDALONE", single |-> FALSE],
               [mode |-> "MS_BASED", single |-> FALSE],
               [mode |-> "MS_BASED", single |-> TRUE]}
=============================================================================
