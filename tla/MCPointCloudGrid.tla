-------------------------- MODULE MCPointCloudGrid --------------------------
(* PointCloudGrid with two clouds and maps of both sizes. In the first     *)
(* cloud two points are far from all others, one is above the band and     *)
(* leaves its neighbour alone; in the second a row of points shrinks to    *)
(* too few for a cluster when it is compacted.                             *)
EXTENDS PointCloudGrid

Point(x, z) == [at |-> x, z |-> z]

MCClouds == {{Point(1, 0), Point(3, 1), Point(7, 3), Point(7, 5),
              Point(30, 0), Point(31, 0)},
             {Point(4, 0), Point(5, 0), Point(5, 1), Point(9, 0)}}
MCMaps == {<<100>>, <<-1, 100>>}
MCImages == {<<0, 128>>, <<254>>}

MCFilter == [ror_radius |-> 2, ror_min_neighbors |-> 1, sor_mul |-> 13, pass_z_max |-> 4,
             z_max |-> 8, voxel |-> 2, cluster_tolerance |-> 2, cluster_min_size |-> 2,
             cluster_max_size |-> 10]
=============================================================================
