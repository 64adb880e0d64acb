SPECIFICATION Spec
CONSTANTS
    p1 = p1
    p2 = p2
    r1 = r1
    r2 = r2
    m1 = m1
    m2 = m2
    c1 = c1
    c2 = c2
    layer = layer
    None = None
    Procs <- MCProcs
    Refs = {r1, r2}
    Manifests <- MCManifests
    Blobs <- MCBlobs
    ConfigOf <- MCConfigOf
    LayersOf <- MCLayersOf
    Chunks = 1
    GcAlone = TRUE
SYMMETRY Symmetry
INVARIANTS TypeOK BlobIntegrity LiveRefsComplete GcExact
PROPERTY ImplementsCatalogue
