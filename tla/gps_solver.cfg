CONSTANTS
    Projects <- ThreeProjects
    Rank <- ByName
    Root = "root"
    Versions = {1, 2, 3}
    NoVersion = 0
    Packages <- FourPackages
    ProjectOf <- ProjectOfPackage
    Worlds <- SmallWorlds
SPECIFICATION SolverSpec
INVARIANTS SelectionIsConsistent SolutionIsSound NothingForgotten
PROPERTIES AlwaysAdvances
