---------------------------- MODULE MCDerivedKeys ----------------------------
\* Instances of DerivedKeys: two key versions, each with a secret of its own.
EXTENDS DerivedKeys, TLC

Alike == Permutations(Proc)

FirstConfig == [ver |-> "v1", secret |-> "s1"]
MCConfigs   == {FirstConfig, [ver |-> "v2", secret |-> "s2"]}
=============================================================================
