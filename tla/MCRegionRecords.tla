-------------------------- MODULE MCRegionRecords --------------------------
EXTENDS RegionRecords

\* A region to start in, and two that are generated together.
MCRegions  == 1..3
MCGroup    == {2, 3}
MCHorizons == {{1}, {2}}
MCStart    == {1}
=============================================================================
