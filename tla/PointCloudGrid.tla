--------------------------- MODULE PointCloudGrid ---------------------------
(***************************************************************************)
(* The node of ad_r1m_pointcloud_to_occupancygrid: every point cloud is    *)
(* filtered, projected on a grid and published, as it is or averaged with  *)
(* the clouds (and with the initial map) that came before. Parameters may  *)
(* be set between any two clouds.                                          *)
(*                                                                         *)
(* rclcpp::spin runs one callback at a time: CloudArrives, MapArrives and  *)
(* SetParameter are the callbacks. The grid is one column of cells and a   *)
(* point is its place along that column and its height: the filters look   *)
(* at the neighbours a point has in what the filter before has left. A     *)
(* grid of floats is kept in units of 1/Scale. The specification is        *)
(* GridSpec, so that a module may extend this one next to another          *)
(* component's.                                                            *)
(***************************************************************************)
EXTENDS Integers, Sequences, FiniteSets
LOCAL INSTANCE FiniteSetsExt

CONSTANTS
    Sizes,         \* numbers of cells the size parameters may give
    Clouds,        \* the point clouds: sets of points
    CellSize,      \* cell_size
    Filter,        \* the numbers in grid_map.filter
    Maps,          \* initial maps: sequences of occupancies, -1 for unknown
    Images,        \* initial maps as PGM images: sequences of pixels
    Contribution,  \* what a point adds to the intensity of its cell
    Weight,        \* initial_map_weight; 50 in the code
    Scale,         \* granularity of the averages
    Switches,      \* bound: the flags that are set at run time
    MaxFrames      \* bound: clouds received

Flags == {"normal", "moving", "ror", "sor", "pass", "voxel", "cluster"}

Points == [at : Nat, z : Nat]

ASSUME PointCloudGridAssumption ==
    /\ Sizes \subseteq Nat \ {0} /\ IsFiniteSet(Sizes) /\ Sizes # {}
    /\ \A cloud \in Clouds : IsFiniteSet(cloud) /\ cloud \subseteq Points
    /\ CellSize \in Nat \ {0}
    /\ Filter \in [ror_radius : Nat, ror_min_neighbors : Nat, sor_mul : Nat,
                   pass_z_max : Nat, z_max : Nat, voxel : Nat \ {0},
                   cluster_tolerance : Nat, cluster_min_size : Nat, cluster_max_size : Nat]
    /\ Maps \subseteq Seq(-1..100) /\ Images \subseteq Seq(0..255)
    /\ Contribution \in Nat /\ Weight \in Nat
    /\ Scale \in Nat \ {0} /\ Switches \subseteq Flags /\ MaxFrames \in Nat

Params == [size : Sizes, normal : BOOLEAN, moving : BOOLEAN,
           ror : BOOLEAN, sor : BOOLEAN, pass : BOOLEAN, voxel : BOOLEAN, cluster : BOOLEAN]

VARIABLES
    filter_enable,       \* read at startup only
    params,              \* the parameters that can be set at run time
    avg_ipoints,         \* the averages, as many as there were cells at startup
    normal_avg_count,
    initial_map_loaded,
    sub_initial_map,     \* is the initial map still subscribed to?
    intensity_grid,      \* the last intensity grid published
    height_grid,         \* the cells with a height in the last height grid
    frames,              \* history: clouds received
    total,               \* history: Weight times the map, plus the frames since
    low, high,           \* history: bounds of what has been averaged
    pure,                \* history: only normal averaging since the map or startup
    overrun,             \* history: some vector was accessed past its end
    resized              \* history: a size parameter was set to another value

grids == <<intensity_grid, height_grid>>
averages == <<avg_ipoints, normal_avg_count, initial_map_loaded, total, low, high, pure>>
gridVars == <<filter_enable, params, averages, sub_initial_map, grids, frames, overrun, resized>>

Cells == 1..params.size
AvgCells == DOMAIN avg_ipoints
Grid == 0..100

GridTypeOK ==
    /\ params \in Params
    /\ Len(avg_ipoints) \in Sizes /\ normal_avg_count \in 0..(Weight + MaxFrames)
    /\ \A i \in DOMAIN intensity_grid : intensity_grid[i] \in Grid
    /\ height_grid \subseteq DOMAIN intensity_grid
    /\ frames \in 0..MaxFrames

-----------------------------------------------------------------------------
Constant(n, value) == [i \in 1..n |-> value]

LesserOf(a, b) == IF a < b THEN a ELSE b
GreaterOf(a, b) == IF a < b THEN b ELSE a

Apart(a, b) == IF a < b THEN b - a ELSE a - b
Distance(p, q) == GreaterOf(Apart(p.at, q.at), Apart(p.z, q.z))
Neighbours(p, cloud, radius) == {q \in cloud : Distance(p, q) <= radius}

(* A neighbour is a point within the radius, the point itself included.    *)
RadiusOutlier(cloud) ==
    {p \in cloud : Cardinality(Neighbours(p, cloud, Filter.ror_radius)) > Filter.ror_min_neighbors}

(* A point that is further from the others than they are on average, by    *)
(* more than a factor (in tenths), is refused: sor_mean is more than the   *)
(* points there are here.                                                  *)
StatisticalOutlier(cloud) ==
    LET Far(p) == MapThenSumSet(LAMBDA q : Distance(p, q), cloud)
    IN  {p \in cloud : 10 * Cardinality(cloud) * Far(p) <= Filter.sor_mul * MapThenSumSet(Far, cloud)}

PassThrough(cloud) == {p \in cloud : p.z <= Filter.pass_z_max}

(* One point for all in a voxel, their centroid to the size of a voxel.    *)
Centre(x) == Filter.voxel * (x \div Filter.voxel) + Filter.voxel \div 2
VoxelGrid(cloud) == {[at |-> Centre(p.at), z |-> Centre(p.z)] : p \in cloud}

(* The points that are reached from p in steps of the tolerance.           *)
Cluster(p, cloud) ==
    LET reached[n \in Nat] ==
            IF n = 0 THEN {p}
            ELSE UNION {Neighbours(q, cloud, Filter.cluster_tolerance) : q \in reached[n - 1]}
    IN  reached[Cardinality(cloud)]

ClusterFilter(cloud) ==
    {p \in cloud : Cardinality(Cluster(p, cloud)) \in Filter.cluster_min_size..Filter.cluster_max_size}

(* Each filter works on the result of the one before; the first writes to  *)
(* cloud_filtered, which is empty as long as nothing has been written.     *)
FilterCloud(p, cloud) ==
    IF ~filter_enable THEN cloud
    ELSE LET outliers == IF p.ror THEN RadiusOutlier(cloud) ELSE {}
             refined == IF p.sor THEN StatisticalOutlier(outliers) ELSE outliers
             band == IF p.pass THEN PassThrough(refined) ELSE refined
             compact == IF p.voxel THEN VoxelGrid(band) ELSE band
         IN  IF p.cluster THEN ClusterFilter(compact) ELSE compact

CellOf(p) == p.at \div CellSize + 1

(* Points at the origin, above z_max or outside the grid are skipped.      *)
InGrid(size, cloud) == {p \in cloud : p.at # 0 /\ p.z <= Filter.z_max /\ CellOf(p) <= size}

Intensities(size, cloud) ==
    [i \in 1..size |->
        Scale * Contribution * Cardinality({p \in InGrid(size, cloud) : CellOf(p) = i})]

(* Bug for GridTypeOK: the intensities are not clamped. *)
DisplayUnclamped(points) == [i \in DOMAIN points |-> points[i] \div Scale]

Display(points) == [i \in DOMAIN points |-> LesserOf(points[i] \div Scale, 100)]

(* Undefined behaviour: an element past the end of s reads as garbage.     *)
Garbage == {0, 100 * Scale}
PastEnd(s, n) == n > Len(s)
Stretch(s, n, garbage) == [i \in 1..n |-> IF i \in DOMAIN s THEN s[i] ELSE garbage]

NormalAverage(old, new, n) == [i \in DOMAIN old |-> old[i] + (new[i] - old[i]) \div n]

(* Bug for AveragesAreSound: the old value is not scaled down. *)
MovingAverageSum(old, new) == [i \in DOMAIN old |-> old[i] + new[i] \div 2]

(* ma_alpha is 0.5. *)
MovingAverage(old, new) == [i \in DOMAIN old |-> (old[i] + new[i]) \div 2]

(* Unknown cells are taken for free ones. *)
OccupancyOf(map) == [i \in DOMAIN map |-> Scale * GreaterOf(map[i], 0)]

(* The occupancy of a pixel of the PGM file, thresholds 0.65 and 0.25.     *)
OccupancyOfPixel(pixel) ==
    IF 100 * pixel >= 65 * 255 THEN 0
    ELSE IF 100 * pixel <= 25 * 255 THEN 100
    ELSE ((255 - pixel) * 100) \div 255

(* Images are stored top row first, grids bottom row first. *)
OccupancyOfImage(image) ==
    [i \in DOMAIN image |-> Scale * OccupancyOfPixel(image[Len(image) + 1 - i])]

-----------------------------------------------------------------------------
(* The averages start afresh from a map. *)
Seed(map) ==
    /\ total' = [i \in AvgCells |-> IF i \in DOMAIN map THEN Weight * map[i] ELSE 0]
    /\ low' = avg_ipoints' /\ high' = avg_ipoints'
    /\ pure' = (Len(map) = Len(avg_ipoints))

(* The construction of the node: blank averages, or those of a file of the *)
(* size of the grid.                                                       *)
GridInit ==
    /\ filter_enable \in BOOLEAN
    /\ params \in [size : Sizes, normal : BOOLEAN, moving : BOOLEAN,
                   ror : {TRUE}, sor : {TRUE}, pass : {TRUE}, voxel : {TRUE}, cluster : {TRUE}]
    /\ sub_initial_map \in BOOLEAN
    /\ \/ /\ avg_ipoints = Constant(params.size, 0)
          /\ normal_avg_count = 0 /\ initial_map_loaded = FALSE
          /\ total = avg_ipoints
       \/ /\ \E image \in Images :
               /\ Len(image) = params.size
               /\ avg_ipoints = OccupancyOfImage(image)
          /\ normal_avg_count = Weight /\ initial_map_loaded = TRUE
          /\ sub_initial_map = FALSE
          /\ total = [i \in DOMAIN avg_ipoints |-> Weight * avg_ipoints[i]]
    /\ low = avg_ipoints /\ high = avg_ipoints
    /\ pure = TRUE /\ overrun = FALSE /\ resized = FALSE
    /\ intensity_grid = <<>> /\ height_grid = {}
    /\ frames = 0

(* Bug for OverrunNeedsResize: the size of the map is not compared. *)
ApplyInitialMapUnsized(map) ==
    /\ avg_ipoints' = [i \in AvgCells |-> IF i \in DOMAIN map THEN OccupancyOf(map)[i]
                                                              ELSE avg_ipoints[i]]
    /\ normal_avg_count' = Weight /\ initial_map_loaded' = TRUE
    /\ overrun' = (overrun \/ PastEnd(avg_ipoints, Len(map)))
    /\ Seed(OccupancyOf(map))

(* Bug for AveragesAreSound: the frames counted so far still count. *)
ApplyInitialMapKeepsCount(map) ==
    IF Len(map) # params.size
    THEN UNCHANGED <<averages, overrun>>
    ELSE /\ avg_ipoints' = [i \in AvgCells |->
                IF i \in DOMAIN map THEN OccupancyOf(map)[i] ELSE avg_ipoints[i]]
         /\ normal_avg_count' = GreaterOf(Weight, normal_avg_count)
         /\ initial_map_loaded' = TRUE
         /\ overrun' = (overrun \/ PastEnd(avg_ipoints, Len(map)))
         /\ Seed(OccupancyOf(map))

(* apply_initial_map: the map must have as many cells as the grid now has. *)
ApplyInitialMap(map) ==
    IF Len(map) # params.size
    THEN UNCHANGED <<averages, overrun>>
    ELSE /\ avg_ipoints' = [i \in AvgCells |->
                IF i \in DOMAIN map THEN OccupancyOf(map)[i] ELSE avg_ipoints[i]]
         /\ normal_avg_count' = Weight /\ initial_map_loaded' = TRUE
         /\ overrun' = (overrun \/ PastEnd(avg_ipoints, Len(map)))
         /\ Seed(OccupancyOf(map))

(* The first map on the topic ends the subscription, whatever its size.    *)
MapArrives ==
    /\ sub_initial_map
    /\ sub_initial_map' = FALSE
    /\ \E map \in Maps : ApplyInitialMap(map)
    /\ UNCHANGED <<filter_enable, params, grids, frames, resized>>

(* parametersCallback: avg_ipoints keeps its size. Several parameters at   *)
(* once are several steps with no cloud in between.                        *)
SetParameter ==
    /\ \/ \E flag \in Switches :
            params' = [params EXCEPT ![flag] = ~@]
       \/ \E size \in Sizes : params' = [params EXCEPT !.size = size]
    /\ resized' = (resized \/ params'.size # params.size)
    /\ UNCHANGED <<filter_enable, averages, sub_initial_map, grids, frames, overrun>>

(* The history of the averages, once points have been averaged in: the     *)
(* averages' loop reads ipoints, the published grid's reads the averages.  *)
Averaged(ipoints, points, stillPure) ==
    /\ total' = [i \in AvgCells |-> total[i] + points[i]]
    /\ low' = [i \in AvgCells |-> LesserOf(low[i], points[i])]
    /\ high' = [i \in AvgCells |-> GreaterOf(high[i], points[i])]
    /\ pure' = (pure /\ stillPure)
    /\ overrun' = (overrun \/ PastEnd(ipoints, Len(avg_ipoints)) \/ PastEnd(avg_ipoints, Len(ipoints)))
    /\ UNCHANGED initial_map_loaded

(* occupancy_grid_callback: the averages are over all their elements, the  *)
(* published grid over all cells. Normal averaging goes before moving.     *)
CloudArrives(cloud) ==
    LET filtered == FilterCloud(params, cloud)
        ipoints == Intensities(params.size, filtered)
    IN  /\ frames < MaxFrames
        /\ frames' = frames + 1
        /\ height_grid' = {CellOf(p) : p \in InGrid(params.size, filtered)}
        /\ \/ /\ ~params.normal /\ ~params.moving
              /\ intensity_grid' = Display(ipoints)
              /\ UNCHANGED <<averages, overrun>>
           \/ \E garbage \in Garbage :
                LET points == Stretch(ipoints, Len(avg_ipoints), garbage)
                IN  /\ \/ /\ params.normal
                          /\ normal_avg_count' = normal_avg_count + 1
                          /\ avg_ipoints' = NormalAverage(avg_ipoints, points, normal_avg_count')
                       \/ /\ ~params.normal /\ params.moving
                          /\ avg_ipoints' = MovingAverage(avg_ipoints, points)
                          /\ UNCHANGED normal_avg_count
                    /\ Averaged(ipoints, points, params.normal)
                    /\ intensity_grid' = Display(Stretch(avg_ipoints', params.size, garbage))
        /\ UNCHANGED <<filter_enable, params, sub_initial_map, resized>>

GridNext == (\E cloud \in Clouds : CloudArrives(cloud)) \/ MapArrives \/ SetParameter

GridSpec == GridInit /\ [][GridNext]_gridVars

-----------------------------------------------------------------------------
(* With normal averaging alone, an average is the mean of the initial map, *)
(* Weight times, and of the clouds averaged since, however often averaging *)
(* was switched off and on, a filter changed, or a map came late.          *)
AverageIsMean ==
    pure => \A i \in AvgCells : normal_avg_count * avg_ipoints[i] = total[i]

(* Whatever mixture of normal and moving averaging, an average lies within *)
(* the values that were averaged.                                          *)
AverageWithinSeen ==
    \A i \in AvgCells : low[i] <= avg_ipoints[i] /\ avg_ipoints[i] <= high[i]

(* Averages are averages of what was seen, in either mode. *)
AveragesAreSound == AverageIsMean /\ AverageWithinSeen

(* Only setting a size parameter makes the node access a vector past its   *)
(* end: no initial map, late or of any size, no switch of the averaging    *)
(* and no cloud does, in whatever order they come (390-421, 571-590,       *)
(* 807-828).                                                               *)
OverrunNeedsResize == overrun => resized
=============================================================================
