-------------------------- MODULE MCKafkaConsumer --------------------------
(* Small consumer groups for TLC.                                          *)
EXTENDS ConsumerHealthz, TLC

CONSTANTS m1, m2,
          good, bad, odd   \* a sound, a malformed and a schema-violating record

SoundOrMalformed == {good, bad}
SoundOrInvalid   == {good, odd}
MCMalformed      == {bad} \cap Messages
MCSchemaInvalid  == {odd} \cap Messages
MCEventTypes     == {"identity.user.registered"}
MCTypeOf         == [msg \in Messages |-> "identity.user.registered"]

OneTopic  == [p \in Partitions |-> "t1"]

RetryTwice       == [m \in Members |-> 2]
RetryOnceOrNever == [m \in Members |-> IF m = m1 THEN 1 ELSE -1]

\* Members differ by name only.
MemberSymmetry == Permutations(Members)
============================================================================
