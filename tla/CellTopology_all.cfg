\* Every cell type with a fixed number of points.
CONSTANTS
    CellTypes = {"vertex", "line", "triangle", "quad", "pixel", "voxel", "tetra",
        "hexahedron", "wedge", "pyramid", "pentagonal_prism", "hexagonal_prism",
        "quadratic_edge", "quadratic_triangle", "biquadratic_triangle", "quadratic_quad",
        "biquadratic_quad", "quadratic_linear_quad", "quadratic_tetra",
        "quadratic_hexahedron", "triquadratic_hexahedron",
        "biquadratic_quadratic_hexahedron", "quadratic_wedge", "quadratic_linear_wedge",
        "biquadratic_quadratic_wedge", "quadratic_pyramid", "cubic_line"}
    None = None
SPECIFICATION Spec
INVARIANT EdgesBoundFaces
