-------------------------- MODULE MCPrivateContext -------------------------
\* Four repositories in two installations, of which three are considered and
\* two are sampled; their sizes meet the byte ceiling exactly in some samples
\* and pass it in others.
EXTENDS PrivateContext

File(r, lane, rank, test, bytes) ==
    [repo |-> r, lane |-> lane, rank |-> rank, test |-> test, bytes |-> bytes]

MCBlobs == {File(1, 1, 1, FALSE, 2), File(1, 1, 2, FALSE, 2), File(1, 2, 3, FALSE, 1),
            File(1, 1, 4, TRUE, 1), File(2, 1, 1, FALSE, 1), File(2, 2, 2, TRUE, 1),
            File(3, 1, 1, FALSE, 1)}

MCListing == <<<<1, 3>>, <<2, 4>>>>
MCPublicCaps == {[source |-> 3, attribution |-> 0], [source |-> 6, attribution |-> 3]}
MCPrivateCaps == [source |-> 6, attribution |-> 4]
=============================================================================
